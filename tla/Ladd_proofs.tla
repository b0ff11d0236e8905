---------------------------- MODULE Ladd_proofs -----------------------------
(***************************************************************************)
(* The LADD list.  Its lifecycle loses no delivered file and never lets the *)
(* newest active list go back, wherever a move fails or is cut off.  Only  *)
(* lists that were signed and validated get into force, and between restarts *)
(* only newer ones follow, for every order of the uploads' handlers.       *)
(***************************************************************************)
EXTENDS LaddLifecycle, ListDelivery, TLAPS

-----------------------------------------------------------------------------
(* The lifecycle of the files.                                             *)

\* An empty volume.
LEMMA LifeInitInv == LifeInit => LifeInv
<1> SUFFICES ASSUME LifeInit PROVE LifeInv
  OBVIOUS
<1>1. NoneLoaded \in [date : Dates \cup {0}, content : {"none", "part", "full"}]
  BY DEF NoneLoaded
<1>2. failure \in BOOLEAN
  BY DEF LifeInit
<1>3. LifeTypeOK
  BY <1>1, <1>2, LifecycleAssumption DEF LifeInit, LifeTypeOK, Steps
<1>4. DeliveredKept /\ InForceOnDisk /\ MoveInProgress
  BY DEF LifeInit, DeliveredKept, InForceOnDisk, MoveInProgress, NoneLoaded
<1> QED BY <1>3, <1>4 DEF LifeInv

\* A dropped file is whole and in staging.
LEMMA DropInv ==
  ASSUME LifeInv, NEW d \in Dates, Drop(d)
  PROVE  LifeInv'
  BY LifecycleAssumption
  DEF LifeInv, LifeTypeOK, DeliveredKept, InForceOnDisk, MoveInProgress, IsNewest,
      InActive, Drop

\* Steps that leave the three directories alone.
LEMMA QuietInv ==
  ASSUME LifeInv,
         Tick \/ PromoteNothing \/ PromoteError \/ Kill \/ Boot
         \/ LoadError
  PROVE  LifeInv'
<1>1. LifeTypeOK'
  <2>1. failure' \in BOOLEAN
    BY DEF LifeInv, LifeTypeOK, Tick, PromoteNothing, PromoteError, Kill, Boot,
           LoadError
  <2>2. current' \in [date : Dates \cup {0}, content : {"none", "part", "full"}]
    BY DEF LifeInv, LifeTypeOK, Tick, PromoteNothing, PromoteError, Kill, Boot,
           LoadError, NoneLoaded
  <2>3. drops' \in 0..MaxDrops /\ crashes' \in 0..MaxCrashes
    BY LifecycleAssumption
    DEF LifeInv, LifeTypeOK, Tick, PromoteNothing, PromoteError, Kill, Boot,
        LoadError, countVars
  <2>4. /\ mode' \in {"down", "starting", "running"} /\ step' \in Steps
        /\ moving' \in Dates \cup {0}
    BY DEF LifeInv, LifeTypeOK, Tick, PromoteNothing, PromoteError, Kill, Boot,
           LoadError, Steps
  <2>5. UNCHANGED <<staging, active, archived, delivered, swept>>
    BY DEF Tick, PromoteNothing, PromoteError, Kill, Boot, LoadError, fsVars, countVars
  <2>6. cutoff' \subseteq Dates
    <3>1. step = "copying" => moving \in Dates
      BY DEF LifeInv, MoveInProgress, IsNewest, InActive
    <3> QED
      BY <3>1 DEF LifeInv, LifeTypeOK, Tick, PromoteNothing, PromoteError, Kill, Boot,
                  LoadError, countVars
  <2> QED BY <2>1, <2>2, <2>3, <2>4, <2>5, <2>6 DEF LifeInv, LifeTypeOK
<1>2. DeliveredKept' /\ InForceOnDisk' /\ MoveInProgress'
  BY DEF LifeInv, DeliveredKept, InForceOnDisk, MoveInProgress, IsNewest, InActive,
      Tick, PromoteNothing, PromoteError, Kill, Boot, LoadError, fsVars,
      countVars, NoneLoaded
<1> QED BY <1>1, <1>2 DEF LifeInv

\* What is swapped in is the newest file of active.
LEMMA LoadInv ==
  ASSUME LifeInv, NEW d \in Dates, Load(d)
  PROVE  LifeInv'
<1>1. LifeTypeOK'
  BY DEF LifeInv, LifeTypeOK, Load, IsNewest, InActive, fsVars, countVars, Steps
<1>2. InForceOnDisk'
  BY LifecycleAssumption
  DEF LifeInv, LifeTypeOK, InForceOnDisk, Load, IsNewest, InActive, fsVars
<1>3. DeliveredKept' /\ MoveInProgress'
  BY DEF LifeInv, DeliveredKept, MoveInProgress, Load, fsVars, countVars
<1> QED BY <1>1, <1>2, <1>3 DEF LifeInv

\* A staged file leaves staging only for archived.
LEMMA PromoteStaleInv ==
  ASSUME LifeInv, NEW s \in Dates, NEW ok \in BOOLEAN,
         NEW left \in {{}, {"part"}, {"full"}}, PromoteStale(s, ok, left)
  PROVE  LifeInv'
<1>1. LifeTypeOK'
  BY DEF LifeInv, LifeTypeOK, PromoteStale, Archive, IsNewest, countVars, Steps
<1>2. DeliveredKept'
  BY DEF LifeInv, LifeTypeOK, DeliveredKept, PromoteStale, Archive, IsNewest, countVars
<1>3. InForceOnDisk' /\ MoveInProgress'
  BY DEF LifeInv, InForceOnDisk, MoveInProgress, InActive, PromoteStale
<1> QED BY <1>1, <1>2, <1>3 DEF LifeInv

\* The promoted file becomes the newest of active, whole or in part.
LEMMA PromoteNewInv ==
  ASSUME LifeInv, NEW s \in Dates, PromoteRename(s) \/ PromoteCopy(s)
  PROVE  LifeInv'
<1>1. LifeTypeOK'
  BY DEF LifeInv, LifeTypeOK, PromoteRename, PromoteCopy, Newer, IsNewest, countVars, Steps
<1>2. active[s] = "none" /\ s \in staging
  BY LifecycleAssumption
  DEF LifeInv, LifeTypeOK, PromoteRename, PromoteCopy, Newer, IsNewest, InActive
<1>3. InActive' = InActive \cup {s}
  BY DEF LifeInv, LifeTypeOK, PromoteRename, PromoteCopy, InActive
<1>4. DeliveredKept'
  BY <1>2 DEF LifeInv, LifeTypeOK, DeliveredKept, PromoteRename, PromoteCopy, countVars
<1>5. InForceOnDisk'
  BY <1>3 DEF LifeInv, InForceOnDisk, PromoteRename, PromoteCopy
<1>6. MoveInProgress'
  <2>1. IsNewest(s, InActive')
    BY <1>3, LifecycleAssumption
    DEF IsNewest, Newer, PromoteRename, PromoteCopy, InActive
  <2>2. moving' = s /\ (step' = "archive" => active'[s] = "full")
         /\ step' \in {"copying", "archive"}
    BY DEF LifeInv, LifeTypeOK, PromoteRename, PromoteCopy
  <2> QED BY <2>1, <2>2 DEF MoveInProgress, IsNewest
<1> QED BY <1>1, <1>4, <1>5, <1>6 DEF LifeInv

\* A copy that ends without error is whole.
LEMMA CopyInv ==
  ASSUME LifeInv, NEW ok \in BOOLEAN, Copy(ok)
  PROVE  LifeInv'
<1>1. moving \in Dates /\ IsNewest(moving, InActive)
  BY DEF LifeInv, MoveInProgress, IsNewest, InActive, Copy
<1>2. LifeTypeOK'
  BY <1>1 DEF LifeInv, LifeTypeOK, Copy, countVars, Steps
<1>3. InActive' = InActive
  BY <1>1 DEF LifeInv, LifeTypeOK, Copy, InActive, IsNewest
<1>4. DeliveredKept'
  BY <1>1 DEF LifeInv, LifeTypeOK, DeliveredKept, Copy, countVars
<1>5. InForceOnDisk'
  BY <1>3 DEF LifeInv, InForceOnDisk, Copy
<1>6. MoveInProgress'
  BY <1>1, <1>3 DEF LifeInv, LifeTypeOK, MoveInProgress, IsNewest, Copy
<1> QED BY <1>2, <1>4, <1>5, <1>6 DEF LifeInv

\* The source is removed only when the copy is whole.
LEMMA RemoveInv ==
  ASSUME LifeInv, NEW ok \in BOOLEAN, Remove(ok)
  PROVE  LifeInv'
<1>1. LifeTypeOK'
  BY DEF LifeInv, LifeTypeOK, Remove, countVars, Steps
<1>2. DeliveredKept'
  BY DEF LifeInv, DeliveredKept, MoveInProgress, Remove, countVars
<1>3. InForceOnDisk' /\ MoveInProgress'
  BY DEF LifeInv, InForceOnDisk, MoveInProgress, IsNewest, InActive, Remove
<1> QED BY <1>1, <1>2, <1>3 DEF LifeInv

\* archiveLADD moves whole files whole, keeps the promoted one, and so the
\* newest date of active.
LEMMA ArchiveInv ==
  ASSUME LifeInv, ArchiveOthers
  PROVE  /\ LifeInv'
         /\ IsNewest(moving, InActive) /\ moving \in InActive'
<1>0. PICK A \in SUBSET (InActive \ {moving}), S \in SUBSET staging :
      \E goneA \in SUBSET A, goneS \in SUBSET S,
         cut \in SUBSET ((InActive \ ({moving} \cup A)) \cup (staging \ S)) :
        /\ active' = [d \in Dates |-> IF d \in goneA THEN "none" ELSE active[d]]
        /\ staging' = staging \ goneS
        /\ Archive([d \in Dates |-> (IF d \in A THEN {active[d]} ELSE {})
                                    \cup (IF d \in S THEN {"full"} ELSE {})
                                    \cup (IF d \in cut THEN {"part"} ELSE {})])
        /\ Sweep(goneS)
  BY DEF ArchiveOthers
<1>1. PICK goneA \in SUBSET A, goneS \in SUBSET S,
          cut \in SUBSET ((InActive \ ({moving} \cup A)) \cup (staging \ S)) :
        /\ active' = [d \in Dates |-> IF d \in goneA THEN "none" ELSE active[d]]
        /\ staging' = staging \ goneS
        /\ Archive([d \in Dates |-> (IF d \in A THEN {active[d]} ELSE {})
                                    \cup (IF d \in S THEN {"full"} ELSE {})
                                    \cup (IF d \in cut THEN {"part"} ELSE {})])
        /\ Sweep(goneS)
  BY <1>0
<1>2. archived' = [d \in Dates |->
              archived[d] \cup ((IF d \in A THEN {active[d]} ELSE {})
                                \cup (IF d \in S THEN {"full"} ELSE {})
                                \cup (IF d \in cut THEN {"part"} ELSE {}))]
  BY <1>1 DEF Archive
<1>3. IsNewest(moving, InActive) /\ moving \in Dates
  BY DEF LifeInv, MoveInProgress, IsNewest, InActive, ArchiveOthers
<1>4. moving \in InActive'
  BY <1>1, <1>2, <1>3 DEF InActive, IsNewest
<1>5. LifeTypeOK'
  <2>1. archived' \in [Dates -> SUBSET {"part", "full"}]
    BY <1>1, <1>2 DEF LifeInv, LifeTypeOK, InActive
  <2>2. swept' \subseteq Dates
    BY <1>1 DEF LifeInv, LifeTypeOK, Sweep
  <2> QED
    BY <1>1, <2>1, <2>2 DEF LifeInv, LifeTypeOK, ArchiveOthers, Steps
<1>6. DeliveredKept'
  <2> SUFFICES ASSUME NEW d \in delivered
               PROVE  d \in staging' \/ active'[d] = "full" \/ "full" \in archived'[d]
    BY DEF DeliveredKept, ArchiveOthers, countVars
  <2>1. d \in Dates /\ (d \in staging \/ active[d] = "full" \/ "full" \in archived[d])
    BY DEF LifeInv, LifeTypeOK, DeliveredKept
  <2> QED BY <1>1, <1>2, <2>1
<1>7. InForceOnDisk'
  <2> SUFFICES ASSUME current.date # 0
               PROVE  current.date <= moving
    BY <1>4 DEF InForceOnDisk, ArchiveOthers
  <2>1. PICK d \in InActive : current.date <= d
    BY DEF LifeInv, InForceOnDisk
  <2>2. d \in Nat /\ moving \in Nat /\ current.date \in Nat /\ d <= moving
    BY <1>3, LifecycleAssumption DEF LifeInv, LifeTypeOK, InActive, IsNewest
  <2> QED BY <2>1, <2>2
<1>8. MoveInProgress'
  BY DEF MoveInProgress, ArchiveOthers
<1> QED BY <1>3, <1>4, <1>5, <1>6, <1>7, <1>8 DEF LifeInv

\* Every step of the lifecycle preserves its invariant.
LEMMA LifeStep ==
  ASSUME LifeInv, [LifeNext]_lifeVars
  PROVE  LifeInv'
<1>1. CASE \E s \in Dates : Promote(s)
  BY <1>1, PromoteStaleInv, PromoteNewInv DEF Promote
<1>2. CASE UNCHANGED lifeVars
  BY <1>2
  DEF LifeInv, LifeTypeOK, DeliveredKept, InForceOnDisk, MoveInProgress, IsNewest,
      InActive, lifeVars, fsVars, countVars
<1>3. CASE \E ok \in BOOLEAN : Copy(ok) \/ Remove(ok)
  BY <1>3, CopyInv, RemoveInv
<1>4. CASE ArchiveOthers
  BY <1>4, ArchiveInv
<1>5. CASE (\E d \in Dates : Drop(d)) \/ \E d \in Dates : Load(d)
  BY <1>5, DropInv, LoadInv
<1>6. CASE Tick \/ PromoteNothing \/ PromoteError \/ LoadError \/ Kill \/ Boot
  BY <1>6, QuietInv
<1> QED BY <1>1, <1>2, <1>3, <1>4, <1>5, <1>6 DEF LifeNext

\* LifeInv is an invariant of the lifecycle: a file under promotion is the newest in
\* active, and its source goes only when the copy is whole.
THEOREM LifeSpecInv == LifeSpec => []LifeInv
<1>1. LifeInv /\ [LifeNext]_lifeVars => LifeInv'
  BY LifeStep
<1> QED BY LifeInitInv, <1>1, PTL DEF LifeSpec

\* Type correctness of the lifecycle's state.
THEOREM LifeTypeCorrect == LifeSpec => []LifeTypeOK
<1>1. LifeInv => LifeTypeOK
  BY DEF LifeInv
<1> QED BY LifeSpecInv, <1>1, PTL

\* No delivered list is ever lost: a whole copy stays in staging, active or
\* archived through failed moves, cut-off copies and crashes.
THEOREM DeliveredKeptHolds == LifeSpec => []DeliveredKept
<1>1. LifeInv => DeliveredKept
  BY DEF LifeInv
<1> QED BY LifeSpecInv, <1>1, PTL

\* The list in force is never newer than what a restart would load from active, wherever
\* a promotion failed or was cut off.
THEOREM InForceOnDiskHolds == LifeSpec => []InForceOnDisk
<1>1. LifeInv => InForceOnDisk
  BY DEF LifeInv
<1> QED BY LifeSpecInv, <1>1, PTL

\* The newest date in active never goes back.
THEOREM NewestNeverBackHolds == LifeSpec => NewestNeverBack
<1>1. ASSUME LifeInv, [LifeNext]_lifeVars
      PROVE  [\A d \in InActive : \E e \in InActive' : d <= e]_lifeVars
  <2>1. CASE ArchiveOthers
    BY <1>1, <2>1, ArchiveInv DEF IsNewest
  <2>2. CASE ~ArchiveOthers
    <3>1. ASSUME NEW d \in InActive PROVE d \in InActive'
      <4>1. active' = active \/ \E s \in Dates, c \in {"part", "full"} :
                                   active' = [active EXCEPT ![s] = c]
        BY <1>1, <2>2
        DEF LifeNext, Promote, Drop, Tick, PromoteNothing, PromoteStale, PromoteRename,
            PromoteCopy, PromoteError, Copy, Remove, Load, LoadError, Kill, Boot,
            LifeInv, MoveInProgress, IsNewest, InActive, lifeVars, fsVars
      <4> QED BY <1>1, <3>1, <4>1 DEF LifeInv, LifeTypeOK, InActive
    <3>2. \A d \in InActive : d <= d
      BY LifecycleAssumption DEF InActive
    <3> QED BY <3>1, <3>2
  <2> QED BY <2>1, <2>2
<1> QED BY LifeSpecInv, <1>1, PTL DEF LifeSpec, NewestNeverBack

-----------------------------------------------------------------------------
(* The delivery by ladd-admin.                                             *)

\* What DeliveryInv says of the Secret.
Ended == {"OK", "Error", "lost"}
SecretOK ==
    /\ status \in [Upload -> Phase \cup StatusCode] /\ base \in [Upload -> Nat]
    /\ history \in Seq(Upload)
    /\ \A u \in Upload : base[u] <= Len(history)
    /\ \A i \in DOMAIN history : base[history[i]] = i - 1 /\ status[history[i]] \in Ended
    /\ \A u \in Upload : status[u] = "OK" => \E i \in DOMAIN history : history[i] = u

\* A list that may be in the Secret: signed, readable, not empty, not ahead of the clock.
Genuine(u) == u \in Signed \cap Readable /\ Entries[u] > 0 /\ Date[u] \in 1..today

AllGenuine ==
    /\ \A i \in DOMAIN history : Genuine(history[i])
    /\ \A u \in Upload : status[u] \in {"valid", "got"} => Genuine(u)

\* What it says of the clock, the mount and the filter.
FilterOK ==
    /\ today \in 1..MaxDay /\ apiErrors \in 0..MaxApiErrors /\ starts \in 0..MaxStarts
    /\ mounted \in Upload \cup {0} /\ force \in Upload \cup {0}
    /\ {chosen, effective} \subseteq {0} \cup {Date[u] : u \in Upload}
    /\ mounted # 0 => Genuine(mounted)
    /\ force # 0 => Genuine(force)
    /\ effective = IF force = 0 THEN 0 ELSE Date[force]

\* The invariant is these three parts.
LEMMA InvIsParts == DeliveryInv <=> SecretOK /\ AllGenuine /\ FilterOK
  <1>1. ASSUME DeliveryInv PROVE SecretOK /\ AllGenuine /\ FilterOK
    <2>1. SecretOK
      BY <1>1 DEF DeliveryInv, DeliveryTypeOK, AcceptedOnce, SecretOK, Ended
    <2>2. AllGenuine
      BY <1>1 DEF DeliveryInv, OnlyGenuine, AllGenuine, Genuine
    <2>3. FilterOK
      BY <1>1 DEF DeliveryInv, DeliveryTypeOK, OnlyGenuine, DateOfForce, FilterOK, Genuine
    <2>4. QED
      BY <2>1, <2>2, <2>3
  <1>2. ASSUME SecretOK, AllGenuine, FilterOK PROVE DeliveryInv
    <2>1. DeliveryTypeOK
      BY <1>2 DEF DeliveryTypeOK, SecretOK, FilterOK
    <2>2. OnlyGenuine
      <3>1. \A i \in DOMAIN history : Genuine(history[i])
        BY <1>2 DEF AllGenuine
      <3>2. \A u \in {mounted, force} \ {0} : Genuine(u)
        <4>1. mounted # 0 => Genuine(mounted)
          BY <1>2 DEF FilterOK
        <4>2. force # 0 => Genuine(force)
          BY <1>2 DEF FilterOK
        <4>3. ASSUME NEW u \in {mounted, force} \ {0} PROVE Genuine(u)
          <5>1. CASE u = mounted
            BY <4>1, <4>3, <5>1
          <5>2. CASE u = force
            BY <4>2, <4>3, <5>2
          <5>3. QED
            BY <4>3, <5>1, <5>2
        <4>4. QED
          BY <4>3
      <3>3. \A u \in {history[i] : i \in DOMAIN history} \cup ({mounted, force} \ {0}) : Genuine(u)
        BY <3>1, <3>2
      <3>4. QED
        BY <3>3 DEF OnlyGenuine, Genuine
    <2>3. RejectedUntouched
      BY <1>2 DEF RejectedUntouched, SecretOK, Ended
    <2>4. AcceptedOnce
      BY <1>2 DEF AcceptedOnce, SecretOK
    <2>5. DateOfForce
      BY <1>2 DEF DateOfForce, FilterOK
    <2>6. QED
      BY <1>2, <2>1, <2>2, <2>3, <2>4, <2>5
         DEF DeliveryInv, SecretOK, AllGenuine, Genuine, Ended
  <1>3. QED
    BY <1>1, <1>2

-----------------------------------------------------------------------------
(* ladd-admin. *)

\* A list stays one that may be in the Secret.
LEMMA GenuineStays ==
    ASSUME FilterOK, today' \in {today, today + 1}, NEW u \in Upload, Genuine(u)
    PROVE  Genuine(u)'
  BY DeliveryAssumption DEF Genuine, FilterOK

\* Steps of ladd-admin leave the filter's part alone.
LEMMA FilterUntouched ==
    ASSUME FilterOK, UNCHANGED <<today, mounted, filter>>, apiErrors' \in 0..MaxApiErrors
    PROVE  FilterOK'
  BY DEF FilterOK, Genuine, filter

\* The Secret is updated by a request whose Get is still good, and which ends.
LEMMA PutParts ==
    ASSUME SecretOK, AllGenuine, NEW u \in Upload, status[u] = "got", base[u] = Len(history),
           Put(u), base' = base, today' = today, status' \in [Upload -> Phase \cup StatusCode],
           status'[u] \in Ended,
           \A v \in Upload : status'[v] = status[v] \/ status'[v] = "lost" \/ v = u
    PROVE  SecretOK' /\ AllGenuine'
  <1>1. /\ history' = Append(history, u) /\ history \in Seq(Upload) /\ Len(history) \in Nat
        /\ history' \in Seq(Upload) /\ Len(history') = Len(history) + 1
        /\ DOMAIN history' = 1..(Len(history) + 1) /\ DOMAIN history = 1..Len(history)
        /\ history'[Len(history) + 1] = u
        /\ \A i \in 1..Len(history) : history'[i] = history[i] /\ history[i] \in Upload
    BY DEF Put, SecretOK
  <1>2. \A v \in Upload : base'[v] <= Len(history')
    BY <1>1 DEF SecretOK
  <1>3. \A i \in DOMAIN history' : base'[history'[i]] = i - 1 /\ status'[history'[i]] \in Ended
    <2>1. ASSUME NEW i \in 1..Len(history)
          PROVE  base'[history'[i]] = i - 1 /\ status'[history'[i]] \in Ended
      <3>1. /\ history'[i] = history[i] /\ history[i] \in Upload
            /\ base[history[i]] = i - 1 /\ status[history[i]] \in Ended
        BY <1>1, <2>1 DEF SecretOK
      <3>2. status'[history[i]] \in Ended
        BY <3>1 DEF Ended
      <3>3. QED
        BY <3>1, <3>2
    <2>2. base'[history'[Len(history) + 1]] = Len(history) + 1 - 1
          /\ status'[history'[Len(history) + 1]] \in Ended
      BY <1>1
    <2>3. QED
      BY <1>1, <2>1, <2>2
  <1>4. \A v \in Upload : status'[v] = "OK" => \E i \in DOMAIN history' : history'[i] = v
    <2>1. ASSUME NEW v \in Upload, status'[v] = "OK"
          PROVE  \E i \in 1..(Len(history) + 1) : history'[i] = v
      <3>1. CASE v = u
        BY <1>1, <3>1
      <3>2. CASE v # u
        <4>1. PICK i \in DOMAIN history : history[i] = v
          BY <2>1, <3>2 DEF SecretOK
        <4>2. QED
          BY <1>1, <4>1
      <3>3. QED
        BY <3>1, <3>2
    <2>2. QED
      BY <1>1, <2>1
  <1>5. SecretOK'
    BY <1>1, <1>2, <1>3, <1>4 DEF SecretOK
  <1>6. \A v : Genuine(v)' <=> Genuine(v)
    BY DEF Genuine
  <1>7. AllGenuine'
    BY <1>1, <1>6 DEF AllGenuine, Ended
  <1>8. QED
    BY <1>5, <1>7

\* A request goes on or ends without touching the Secret.
LEMMA NoPutParts ==
    ASSUME SecretOK, AllGenuine, history' = history, base' = base, today' = today,
           status' \in [Upload -> Phase \cup StatusCode],
           \A v \in Upload : \/ status'[v] = status[v]
                             \/ /\ status[v] \notin Ended /\ status'[v] # "OK"
                                /\ status'[v] \in {"valid", "got"} => Genuine(v)
    PROVE  SecretOK' /\ AllGenuine'
  <1>1. \A i \in DOMAIN history : history[i] \in Upload
    BY DEF SecretOK
  <1>2. SecretOK'
    BY <1>1 DEF SecretOK
  <1>3. \A v : Genuine(v)' <=> Genuine(v)
    BY DEF Genuine
  <1>4. AllGenuine'
    BY <1>3 DEF AllGenuine
  <1>5. QED
    BY <1>2, <1>4

\* Every change of one request's status is a change of the function.
LEMMA StatusAt ==
    ASSUME SecretOK, NEW u \in Upload, NEW st \in Phase \cup StatusCode,
           status' = [status EXCEPT ![u] = st]
    PROVE  /\ status' \in [Upload -> Phase \cup StatusCode] /\ status'[u] = st
           /\ \A v \in Upload : v # u => status'[v] = status[v]
  BY DEF SecretOK

\* The request arrives.
LEMMA PostInv ==
    ASSUME DeliveryInv, NEW u \in Upload, Post(u) PROVE DeliveryInv'
  <1>1. SecretOK /\ AllGenuine /\ FilterOK
    BY InvIsParts
  <1>2. "received" \in Phase \cup StatusCode
    BY DEF Phase
  <1>3. /\ status' \in [Upload -> Phase \cup StatusCode] /\ status'[u] = "received"
        /\ \A v \in Upload : v # u => status'[v] = status[v]
    BY <1>1, <1>2, StatusAt DEF Post
  <1>4. SecretOK' /\ AllGenuine'
    <2>1. /\ history' = history /\ base' = base /\ today' = today /\ status[u] = "unsent"
      BY DEF Post
    <2>2. QED
      BY <1>1, <1>3, <2>1, NoPutParts DEF Ended
  <1>5. FilterOK'
    BY <1>1, FilterUntouched DEF Post, FilterOK
  <1>6. QED
    BY <1>4, <1>5, InvIsParts, PTL

\* The handler validates it: only what passes all checks goes on.
LEMMA ValidateInv ==
    ASSUME DeliveryInv, NEW u \in Upload, Validate(u) PROVE DeliveryInv'
  <1>1. SecretOK /\ AllGenuine /\ FilterOK
    BY InvIsParts
  <1> DEFINE st == Reply(u)
  <1>2. st \in {"BadRequest", "Unauthorized", "Unprocessable", "valid"} /\ st \in Phase \cup StatusCode
    BY DEF Reply, Phase, StatusCode
  <1>3. st = "valid" => Genuine(u)
    <2>1. st = "valid" => Verify(u) /\ Decrypt(u) /\ Check(u)
      BY DEF Reply
    <2>2. QED
      BY <1>1, <2>1, DeliveryAssumption DEF Verify, Decrypt, Check, Genuine, FilterOK
  <1> HIDE DEF st
  <1>4. /\ status' \in [Upload -> Phase \cup StatusCode] /\ status'[u] = st
        /\ \A v \in Upload : v # u => status'[v] = status[v]
    BY <1>1, <1>2, StatusAt DEF Validate, st
  <1>5. SecretOK' /\ AllGenuine'
    <2>1. history' = history /\ base' = base /\ today' = today /\ status[u] = "received"
      BY DEF Validate
    <2>2. \A v \in Upload : \/ status'[v] = status[v]
                            \/ /\ status[v] \notin Ended /\ status'[v] # "OK"
                               /\ status'[v] \in {"valid", "got"} => Genuine(v)
      BY <1>2, <1>3, <1>4, <2>1 DEF Ended
    <2>3. QED
      BY <1>1, <1>4, <2>1, <2>2, NoPutParts
  <1>6. FilterOK'
    BY <1>1, FilterUntouched DEF Validate, FilterOK
  <1>7. QED
    BY <1>5, <1>6, InvIsParts, PTL

\* Get: the request has not changed the Secret yet, so its base is its own affair.
LEMMA GetSecretInv ==
    ASSUME DeliveryInv, NEW u \in Upload, GetSecret(u) PROVE DeliveryInv'
  <1>1. SecretOK /\ AllGenuine /\ FilterOK
    BY InvIsParts
  <1>2. "got" \in Phase \cup StatusCode /\ status[u] = "valid" /\ history' = history /\ today' = today
    BY DEF Phase, GetSecret
  <1>3. /\ status' \in [Upload -> Phase \cup StatusCode] /\ status'[u] = "got"
        /\ \A v \in Upload : v # u => status'[v] = status[v]
    BY <1>1, <1>2, StatusAt DEF GetSecret
  <1>4. /\ base' \in [Upload -> Nat] /\ base'[u] = Len(history)
        /\ \A v \in Upload : v # u => base'[v] = base[v]
    BY <1>1 DEF GetSecret, SecretOK
  <1>5. \A i \in DOMAIN history : history[i] \in Upload /\ history[i] # u
    BY <1>1, <1>2 DEF SecretOK, Ended
  <1>6. Len(history) \in Nat /\ \A v \in Upload : base'[v] <= Len(history)
    <2>1. Len(history) \in Nat /\ \A v \in Upload : base[v] <= Len(history)
      BY <1>1 DEF SecretOK
    <2>2. Len(history) <= Len(history)
      BY <2>1
    <2>3. ASSUME NEW v \in Upload PROVE base'[v] <= Len(history)
      <3>1. CASE v = u
        BY <1>4, <2>2, <3>1
      <3>2. CASE v # u
        BY <1>4, <2>1, <3>2
      <3>3. QED
        BY <3>1, <3>2
    <2>4. QED
      BY <2>1, <2>3
  <1>7. SecretOK'
    BY <1>1, <1>2, <1>3, <1>4, <1>5, <1>6 DEF SecretOK
  <1>8. AllGenuine'
    <2>1. \A v : Genuine(v)' <=> Genuine(v)
      BY <1>2 DEF Genuine
    <2>2. QED
      BY <1>1, <1>2, <1>3, <2>1 DEF AllGenuine
  <1>9. FilterOK'
    BY <1>1, FilterUntouched DEF GetSecret, FilterOK
  <1>10. QED
    BY <1>7, <1>8, <1>9, InvIsParts, PTL

\* A request ends, with the Secret updated or not.
LEMMA EndInv ==
    ASSUME DeliveryInv, NEW u \in Upload, NEW st \in {"OK", "Error"},
           status' = [status EXCEPT ![u] = st],
           status[u] \in {"valid", "got"}, UNCHANGED <<today, base, mounted, filter>>,
           apiErrors' \in 0..MaxApiErrors,
           \/ status[u] = "got" /\ base[u] = Len(history) /\ Put(u)
           \/ st = "Error" /\ UNCHANGED history
    PROVE  DeliveryInv'
  <1>1. SecretOK /\ AllGenuine /\ FilterOK
    BY InvIsParts
  <1>2. st \in Phase \cup StatusCode
    BY DEF StatusCode
  <1>3. /\ status' \in [Upload -> Phase \cup StatusCode] /\ status'[u] = st
        /\ \A v \in Upload : v # u => status'[v] = status[v]
    BY <1>1, <1>2, StatusAt
  <1>4. SecretOK' /\ AllGenuine'
    <2>1. CASE status[u] = "got" /\ base[u] = Len(history) /\ Put(u)
      BY <1>1, <1>3, <2>1, PutParts DEF Ended
    <2>2. CASE st = "Error" /\ UNCHANGED history
      <3>1. \A v \in Upload : \/ status'[v] = status[v]
                              \/ /\ status[v] \notin Ended /\ status'[v] # "OK"
                                 /\ status'[v] \in {"valid", "got"} => Genuine(v)
        BY <1>3, <2>2 DEF Ended
      <3>2. QED
        BY <1>1, <1>3, <2>2, <3>1, NoPutParts
    <2>3. QED
      BY <2>1, <2>2
  <1>5. FilterOK'
    BY <1>1, FilterUntouched
  <1>6. QED
    BY <1>4, <1>5, InvIsParts, PTL

\* Update: made, or refused because the Secret has changed since Get.
LEMMA UpdateSecretInv ==
    ASSUME DeliveryInv, NEW u \in Upload, UpdateSecret(u) PROVE DeliveryInv'
  <1>1. apiErrors' \in 0..MaxApiErrors
    BY DEF UpdateSecret, DeliveryInv, DeliveryTypeOK
  <1>2. CASE base[u] = Len(history)
    BY <1>1, <1>2, EndInv DEF UpdateSecret
  <1>3. CASE base[u] # Len(history)
    BY <1>1, <1>3, EndInv DEF UpdateSecret
  <1>4. QED
    BY <1>2, <1>3

\* Get or Update fails, the latter perhaps after it was made.
LEMMA ApiErrorInv ==
    ASSUME DeliveryInv, NEW u \in Upload, ApiError(u) PROVE DeliveryInv'
  <1>1. apiErrors' \in 0..MaxApiErrors
    BY DeliveryAssumption DEF ApiError, DeliveryInv, DeliveryTypeOK
  <1>2. CASE status[u] = "got" /\ base[u] = Len(history)
    BY <1>1, <1>2, EndInv DEF ApiError
  <1>3. CASE ~(status[u] = "got" /\ base[u] = Len(history))
    BY <1>1, <1>3, EndInv DEF ApiError
  <1>4. QED
    BY <1>2, <1>3

\* The server dies; of the updates on their way at most one is made.
LEMMA AdminCrashInv ==
    ASSUME DeliveryInv, AdminCrash PROVE DeliveryInv'
  <1>1. SecretOK /\ AllGenuine /\ FilterOK
    BY InvIsParts
  <1>2. apiErrors' \in 0..MaxApiErrors /\ UNCHANGED <<today, base, mounted, filter>>
    BY DeliveryAssumption DEF AdminCrash, DeliveryInv, DeliveryTypeOK
  <1>3. status' \in [Upload -> Phase \cup StatusCode]
    BY <1>1 DEF AdminCrash, SecretOK, Phase
  <1>4. \A v \in Upload : \/ status[v] \notin Handling /\ status'[v] = status[v]
                          \/ status[v] \in Handling /\ status'[v] = "lost"
    BY DEF AdminCrash
  <1>5. SecretOK' /\ AllGenuine'
    <2>1. CASE UNCHANGED history
      <3>1. \A v \in Upload : \/ status'[v] = status[v]
                              \/ /\ status[v] \notin Ended /\ status'[v] # "OK"
                                 /\ status'[v] \in {"valid", "got"} => Genuine(v)
        BY <1>4 DEF Handling, Ended
      <3>2. QED
        BY <1>1, <1>2, <1>3, <2>1, <3>1, NoPutParts
    <2>2. CASE \E u \in Upload : status[u] = "got" /\ base[u] = Len(history) /\ Put(u)
      <3>1. PICK u \in Upload : status[u] = "got" /\ base[u] = Len(history) /\ Put(u)
        BY <2>2
      <3>2. status'[u] \in Ended
        BY <1>4, <3>1 DEF Handling, Ended
      <3>3. QED
        BY <1>1, <1>2, <1>3, <1>4, <3>1, <3>2, PutParts
    <2>3. QED
      BY <2>1, <2>2 DEF AdminCrash
  <1>6. FilterOK'
    BY <1>1, <1>2, FilterUntouched
  <1>7. QED
    BY <1>5, <1>6, InvIsParts, PTL

-----------------------------------------------------------------------------
(* The kubelet, the filter and the clock. *)

\* Steps that leave ladd-admin alone; the clock only moves on.
LEMMA AdminUntouched ==
    ASSUME SecretOK, AllGenuine, FilterOK, UNCHANGED admin, today' \in {today, today + 1}
    PROVE  SecretOK' /\ AllGenuine'
  <1>1. history' = history /\ status' = status /\ base' = base
    BY DEF admin
  <1>2. SecretOK'
    BY <1>1 DEF SecretOK
  <1>3. \A u \in Upload : Genuine(u) => Genuine(u)'
    BY GenuineStays
  <1>4. \A i \in DOMAIN history : history[i] \in Upload
    BY DEF SecretOK
  <1>5. AllGenuine'
    BY <1>1, <1>3, <1>4 DEF AllGenuine
  <1>6. QED
    BY <1>2, <1>5

\* What the Secret holds may be mounted.
LEMMA CurrentGenuine ==
    ASSUME SecretOK, AllGenuine
    PROVE  Current \in Upload \cup {0} /\ (Current # 0 => Genuine(Current))
  <1>1. history \in Seq(Upload) /\ Len(history) \in Nat /\ DOMAIN history = 1..Len(history)
    BY DEF SecretOK
  <1>2. CASE history = <<>>
    BY <1>2 DEF Current
  <1>3. CASE history # <<>>
    <2>1. Len(history) \in DOMAIN history /\ history[Len(history)] \in Upload
      BY <1>1, <1>3
    <2>2. QED
      BY <1>3, <2>1 DEF Current, AllGenuine
  <1>4. QED
    BY <1>2, <1>3

\* The mount is swapped.
LEMMA SyncInv ==
    ASSUME DeliveryInv, Sync PROVE DeliveryInv'
  <1>1. SecretOK /\ AllGenuine /\ FilterOK
    BY InvIsParts
  <1>2. mounted' = Current /\ UNCHANGED <<today, admin, filter, apiErrors>>
    BY DEF Sync
  <1>3. SecretOK' /\ AllGenuine'
    BY <1>1, <1>2, AdminUntouched
  <1>4. FilterOK'
    BY <1>1, <1>2, CurrentGenuine DEF FilterOK, Genuine, filter
  <1>5. QED
    BY <1>3, <1>4, InvIsParts, PTL

\* The reloader and a start take the mounted list, or none.
LEMMA ReloadInv ==
    ASSUME DeliveryInv, Choose \/ LoadList \/ FilterStart PROVE DeliveryInv'
  <1>1. SecretOK /\ AllGenuine /\ FilterOK
    BY InvIsParts
  <1>2. UNCHANGED <<today, admin, mounted, apiErrors>>
    BY DEF Choose, LoadList, FilterStart
  <1>3. SecretOK' /\ AllGenuine'
    BY <1>1, <1>2, AdminUntouched
  <1>4. 0 \notin Upload
    BY DeliveryAssumption
  <1>5. FilterOK'
    <2>1. CASE Choose
      BY <1>1, <1>2, <2>1 DEF Choose, FilterOK, Genuine
    <2>2. CASE LoadList
      BY <1>1, <1>2, <2>2 DEF LoadList, FilterOK, Genuine
    <2>3. CASE FilterStart
      BY <1>1, <1>2, <2>3, DeliveryAssumption DEF FilterStart, FilterOK, Genuine
    <2>4. QED
      BY <2>1, <2>2, <2>3
  <1>6. QED
    BY <1>3, <1>5, InvIsParts, PTL

\* A day passes.
LEMMA TickInv ==
    ASSUME DeliveryInv, NextDay PROVE DeliveryInv'
  <1>1. SecretOK /\ AllGenuine /\ FilterOK
    BY InvIsParts
  <1>2. today' = today + 1 /\ today < MaxDay /\ UNCHANGED <<admin, mounted, filter, apiErrors>>
    BY DEF NextDay
  <1>3. SecretOK' /\ AllGenuine'
    BY <1>1, <1>2, AdminUntouched
  <1>4. today' \in 1..MaxDay
    BY <1>1, <1>2, DeliveryAssumption DEF FilterOK
  <1>5. \A u \in Upload : Genuine(u) => Genuine(u)'
    BY <1>1, <1>2, GenuineStays
  <1>6. mounted' # 0 => Genuine(mounted)'
    BY <1>1, <1>2, <1>5 DEF FilterOK
  <1>7. force' # 0 => Genuine(force)'
    BY <1>1, <1>2, <1>5 DEF FilterOK, filter
  <1>8. FilterOK'
    BY <1>1, <1>2, <1>4, <1>6, <1>7 DEF FilterOK, filter
  <1>9. QED
    BY <1>3, <1>8, InvIsParts, PTL

-----------------------------------------------------------------------------
\* No request, no list, and a filter without one.
LEMMA DeliveryInitInv == DeliveryInit => DeliveryInv
  <1>1. SUFFICES ASSUME DeliveryInit PROVE SecretOK /\ AllGenuine /\ FilterOK
    BY InvIsParts
  <1>2. SecretOK /\ AllGenuine
    BY <1>1 DEF DeliveryInit, SecretOK, AllGenuine, Phase
  <1>3. FilterOK
    BY <1>1, DeliveryAssumption DEF DeliveryInit, FilterOK
  <1>4. QED
    BY <1>2, <1>3

\* Steps of others.
LEMMA DeliveryStutterInv ==
    ASSUME DeliveryInv, UNCHANGED deliveryVars PROVE DeliveryInv'
  <1>1. SecretOK /\ AllGenuine /\ FilterOK
    BY InvIsParts
  <1>2. UNCHANGED <<today, mounted, filter, apiErrors>> /\ UNCHANGED admin
    BY DEF deliveryVars
  <1>3. SecretOK' /\ AllGenuine'
    BY <1>1, <1>2, AdminUntouched
  <1>4. FilterOK'
    BY <1>1, <1>2, FilterUntouched DEF FilterOK
  <1>5. QED
    BY <1>3, <1>4, InvIsParts, PTL

\* The upload handler, the kubelet's swaps and the filter's reloader keep the
\* invariant of the list's way into force.
THEOREM DeliveryInvHolds == DeliverySafety => []DeliveryInv
  <1>1. DeliveryInv /\ [DeliveryNext]_deliveryVars => DeliveryInv'
    BY PostInv, ValidateInv, GetSecretInv, UpdateSecretInv, ApiErrorInv, AdminCrashInv, SyncInv,
       ReloadInv, TickInv, DeliveryStutterInv DEF DeliveryNext, Handle
  <1>2. QED
    BY <1>1, DeliveryInitInv, PTL DEF DeliverySafety

\* Nothing but a signed, validated list is ever stored, mounted or in force.
THEOREM OnlyGenuineHolds == DeliverySafety => []OnlyGenuine
  <1>1. DeliveryInv => OnlyGenuine
    BY DEF DeliveryInv
  <1>2. QED
    BY <1>1, DeliveryInvHolds, PTL

\* A request that upload rejects does not touch the Secret.
THEOREM RejectedUntouchedHolds == DeliverySafety => []RejectedUntouched
  <1>1. DeliveryInv => RejectedUntouched
    BY DEF DeliveryInv
  <1>2. QED
    BY <1>1, DeliveryInvHolds, PTL

\* Replace: no accepted upload is overwritten by one that did not see it.
THEOREM AcceptedOnceHolds == DeliverySafety => []AcceptedOnce
  <1>1. DeliveryInv => AcceptedOnce
    BY DEF DeliveryInv
  <1>2. QED
    BY <1>1, DeliveryInvHolds, PTL

\* LoadLatest: the date in force is that of the list in force.
THEOREM DateOfForceHolds == DeliverySafety => []DateOfForce
  <1>1. DeliveryInv => DateOfForce
    BY DEF DeliveryInv
  <1>2. QED
    BY <1>1, DeliveryInvHolds, PTL

\* Store.Reload: between rerestarts only a newer list follows.
THEOREM SwapsOnlyForwardHolds == DeliverySafety => SwapsOnlyForward
  <1> DEFINE Forward == effective' # effective \/ force' # force
                           => effective' > effective \/ starts' # starts
  <1>1. ASSUME DeliveryInv, DeliveryNext PROVE Forward
    <2>1. CASE LoadList
      BY <2>1 DEF LoadList
    <2>2. CASE FilterStart
      <3>1. starts \in Nat /\ starts' = starts + 1
        BY <1>1, <2>2, DeliveryAssumption DEF FilterStart, DeliveryInv, DeliveryTypeOK
      <3>2. QED
        BY <3>1
    <2>3. CASE Choose
      BY <2>3 DEF Choose
    <2>4. CASE UNCHANGED filter
      BY <2>4 DEF filter
    <2>5. QED
      BY <1>1, <2>1, <2>2, <2>3, <2>4
         DEF DeliveryNext, Handle, Post, Validate, GetSecret, UpdateSecret, ApiError, AdminCrash,
             Sync, NextDay
  <1>2. DeliveryInv /\ [DeliveryNext]_deliveryVars => [Forward]_deliveryVars
    BY <1>1
  <1>3. QED
    BY <1>2, DeliveryInvHolds, PTL DEF DeliverySafety, SwapsOnlyForward
=============================================================================
