-------------------------- MODULE Records_proofs ---------------------------
(***************************************************************************)
(* Migrations are applied once, in order and with none left out, and a     *)
(* writer runs only on the schema it needs: for every set of writers and   *)
(* releases and every number of failures and deaths.  The record on the    *)
(* screen is that of the selected flight, and its track covers its row.    *)
(***************************************************************************)
EXTENDS Records, TLAPS, WellFoundedInduction

\* Versions are positive numbers.
LEMMA VersionNat ==
    /\ \A v \in Version : v \in Nat /\ v > 0
    /\ \A w \in Writer : \A v \in Has[w] : v \in Version
  BY MigrateAssumption DEF Version

\* A set of numbers with an element has a least one, and Min is it.
LEMMA MinIs ==
    ASSUME NEW S \in SUBSET Nat, S # {}
    PROVE  Min(S) \in S /\ \A x \in S : Min(S) <= x
  <1>1. \E x \in S : \A y \in S : ~(<<y, x>> \in OpToRel(<, Nat))
    BY NatLessThanWellFounded, WFMin
  <1>2. PICK x \in S : \A y \in S : ~(<<y, x>> \in OpToRel(<, Nat))
    BY <1>1
  <1>3. \A y \in S : x <= y
    <2>1. \A ss \in Nat \X Nat : ss \in OpToRel(<, Nat) <=> ss[1] < ss[2]
      BY Zenon DEF OpToRel
    <2>2. \A y \in S : <<y, x>> \in Nat \X Nat /\ <<y, x>>[1] = y /\ <<y, x>>[2] = x
      OBVIOUS
    <2>3. \A y \in S : ~(<<y, x>>[1] < <<y, x>>[2])
      BY <1>2, <2>1, <2>2, Zenon
    <2>4. QED
      BY <2>2, <2>3
  <1>4. QED
    BY <1>3 DEF Min

\* Max of a set with a greatest element is that element.
LEMMA MaxIs ==
    ASSUME NEW S \in SUBSET Nat, NEW x \in S, \A y \in S : y <= x
    PROVE  Max(S) = x
  <1>1. Max(S) \in S /\ \A y \in S : Max(S) >= y
    BY DEF Max
  <1>2. Max(S) >= x /\ Max(S) <= x /\ Max(S) \in Nat /\ x \in Nat
    BY <1>1
  <1>3. QED
    BY <1>2

\* A script that is next in the order of versions is applied.
LEMMA AppendNext ==
    ASSUME applied \in Seq(Version), AppliedInOrder, NEW v \in Version,
           \A u \in Version : u < v <=> Done(u), applied' = Append(applied, v)
    PROVE  /\ applied' \in Seq(Version) /\ AppliedInOrder'
           /\ \A u : Done(u)' <=> Done(u) \/ u = v
  <1>1. /\ applied' \in Seq(Version) /\ Len(applied) \in Nat
        /\ DOMAIN applied = 1..Len(applied) /\ DOMAIN applied' = 1..(Len(applied) + 1)
        /\ applied'[Len(applied) + 1] = v
        /\ \A i \in 1..Len(applied) : applied'[i] = applied[i]
    OBVIOUS
  <1>2. \A u : Done(u)' <=> Done(u) \/ u = v
    BY <1>1 DEF Done
  <1>3. ASSUME NEW i \in DOMAIN applied', NEW u \in Version
        PROVE  u < applied'[i] <=> \E j \in 1..(i - 1) : applied'[j] = u
    <2>1. CASE i = Len(applied) + 1
      <3>1. Done(u) <=> \E j \in 1..(i - 1) : applied'[j] = u
        BY <1>1, <2>1 DEF Done
      <3>2. QED
        BY <1>1, <2>1, <3>1
    <2>2. CASE i \in 1..Len(applied)
      <3>1. \A j \in 1..(i - 1) : applied'[j] = applied[j]
        BY <1>1, <2>2
      <3>2. u < applied[i] <=> \E j \in 1..(i - 1) : applied[j] = u
        BY <1>1, <2>2 DEF AppliedInOrder
      <3>3. QED
        BY <1>1, <2>2, <3>1, <3>2
    <2>3. QED
      BY <1>1, <1>3, <2>1, <2>2
  <1>4. AppliedInOrder'
    BY <1>3 DEF AppliedInOrder, Version
  <1>5. QED
    BY <1>1, <1>2, <1>4

-----------------------------------------------------------------------------
(* The invariant in parts. *)

\* The types of everything but the boolean.
Types ==
    /\ at \in [Writer -> {"down", "lock", "ensure", "read", "apply", "ready"}]
    /\ current \in [Writer -> {0} \cup Version]
    /\ lock \in Writer \cup {Nobody, Ghost} /\ ghost \in {0} \cup Version
    /\ deaths \in 0..MaxDeaths

TableOK == table \in BOOLEAN

\* What is applied, and who may go on.
Log ==
    /\ applied \in Seq(Version) /\ AppliedInOrder
    /\ \A w \in Writer : at[w] = "ready" => \A v \in Has[w] : Done(v)

\* Who holds the lock, and what the holder knows.
Critical == {"ensure", "read", "apply"}
Mutex ==
    /\ \A w \in Writer : at[w] \in Critical => lock = w
    /\ \A w \in Writer : at[w] = "apply" => \A v \in Version : v <= current[w] <=> Done(v)
    /\ ghost # 0 => lock = Ghost /\ \A v \in Version : v < ghost <=> Done(v)

\* The invariant is these parts.
LEMMA InvIsParts == MigrateInv <=> Types /\ TableOK /\ Log /\ Mutex
  BY DEF MigrateInv, MigrateTypeOK, ReadyIsMigrated, Types, TableOK, Log, Mutex, Critical

\* Whoever is past the lock is alone, and no dead session has a script under way.
LEMMA Alone ==
    ASSUME Types, Mutex, NEW w \in Writer, at[w] \in Critical
    PROVE  /\ \A u \in Writer : at[u] \in Critical => u = w
           /\ ghost = 0 /\ lock = w /\ w # Ghost /\ w # Nobody
  BY MigrateAssumption DEF Types, Mutex

\* What Apply picks is the next version in the order.
LEMMA LeftIsNext ==
    ASSUME Types, Mutex, NEW w \in Writer, at[w] = "apply", Left(w) # {}
    PROVE  /\ Min(Left(w)) \in Version /\ Min(Left(w)) # 0
           /\ \A u \in Version : u < Min(Left(w)) <=> Done(u)
           /\ \A u \in Version : u <= Min(Left(w)) <=> Done(u) \/ u = Min(Left(w))
  <1>1. current[w] \in Nat /\ Left(w) \in SUBSET Nat
    BY VersionNat DEF Types, Left
  <1>2. Min(Left(w)) \in Left(w) /\ \A x \in Left(w) : Min(Left(w)) <= x
    BY <1>1, MinIs
  <1>3. PICK v \in Left(w) : v = Min(Left(w)) /\ \A x \in Left(w) : v <= x
    BY <1>2
  <1>4. v \in Has[w] /\ v \in Version /\ v \in Nat /\ v > current[w] /\ v # 0
    <2>1. v \in Has[w] /\ v > current[w]
      BY <1>3 DEF Left
    <2>2. v \in Version /\ v \in Nat /\ v # 0
      BY <2>1, VersionNat
    <2>3. QED
      BY <2>1, <2>2
  <1>5. \A u \in Version : u \in Nat /\ (u < v => u \in Has[w])
    BY <1>4, MigrateAssumption, VersionNat
  <1>6. \A u \in Version : u < v <=> u <= current[w]
    <2>1. ASSUME NEW u \in Version, u < v PROVE u <= current[w]
      <3>1. u \in Has[w] /\ u \in Nat
        BY <1>5, <2>1
      <3>2. u \notin Left(w)
        BY <1>3, <1>4, <2>1, <3>1
      <3>3. QED
        BY <1>1, <3>1, <3>2 DEF Left
    <2>2. ASSUME NEW u \in Version, u <= current[w] PROVE u < v
      BY <1>1, <1>4, <1>5, <2>2
    <2>3. QED
      BY <2>1, <2>2
  <1>7. \A u \in Version : u < v <=> Done(u)
    BY <1>6 DEF Mutex
  <1>8. \A u \in Version : u <= v <=> Done(u) \/ u = v
    BY <1>4, <1>5, <1>7
  <1>9. QED
    BY <1>3, <1>4, <1>7, <1>8

\* Moving one writer changes only its entry.
LEMMA ToIs ==
    ASSUME Types, NEW w \in Writer, NEW p \in {"down", "lock", "ensure", "read", "apply", "ready"},
           To(w, p)
    PROVE  /\ at' \in [Writer -> {"down", "lock", "ensure", "read", "apply", "ready"}]
           /\ at'[w] = p /\ \A u \in Writer : u # w => at'[u] = at[u]
  BY DEF Types, To

\* Steps before the lock and the first two behind it do not touch the versions.
LEMMA QuietInv ==
    ASSUME MigrateInv, NEW w \in Writer, Begin(w) \/ Lock(w) \/ Ensure(w) PROVE MigrateInv'
  <1>1. Types /\ TableOK /\ Log /\ Mutex
    BY InvIsParts
  <1>2. UNCHANGED <<current, ghost, applied, deaths>> /\ TableOK'
    BY <1>1 DEF Begin, Lock, Ensure, TableOK
  <1>3. \A v : Done(v)' <=> Done(v)
    BY <1>2 DEF Done
  <1>4. CASE Begin(w)
    <2>1. /\ at' \in [Writer -> {"down", "lock", "ensure", "read", "apply", "ready"}]
          /\ at'[w] = "lock" /\ (\A u \in Writer : u # w => at'[u] = at[u]) /\ lock' = lock
      BY <1>1, <1>4, ToIs DEF Begin
    <2>2. Types' /\ Log' /\ Mutex'
      BY <1>1, <1>2, <1>3, <2>1 DEF Types, Log, Mutex, Critical, AppliedInOrder
    <2>3. QED
      BY <1>2, <2>2, InvIsParts, PTL
  <1>5. CASE Lock(w)
    <2>1. /\ at' \in [Writer -> {"down", "lock", "ensure", "read", "apply", "ready"}]
          /\ at'[w] = "ensure" /\ (\A u \in Writer : u # w => at'[u] = at[u])
          /\ lock = Nobody /\ lock' = w
      BY <1>1, <1>5, ToIs DEF Lock
    <2>2. \A u \in Writer : at[u] \notin Critical
      BY <1>1, <2>1, MigrateAssumption DEF Mutex
    <2>3. ghost = 0
      BY <1>1, <2>1, MigrateAssumption DEF Mutex
    <2>4. Types' /\ Log'
      BY <1>1, <1>2, <1>3, <2>1 DEF Types, Log, AppliedInOrder
    <2>5. Mutex'
      BY <1>1, <1>2, <1>3, <2>1, <2>2, <2>3 DEF Mutex, Critical
    <2>6. QED
      BY <1>2, <2>4, <2>5, InvIsParts, PTL
  <1>6. CASE Ensure(w)
    <2>1. /\ at' \in [Writer -> {"down", "lock", "ensure", "read", "apply", "ready"}]
          /\ at'[w] = "read" /\ (\A u \in Writer : u # w => at'[u] = at[u])
          /\ at[w] = "ensure" /\ lock' = lock
      BY <1>1, <1>6, ToIs DEF Ensure
    <2>2. Types' /\ Log' /\ Mutex'
      BY <1>1, <1>2, <1>3, <2>1 DEF Types, Log, Mutex, Critical, AppliedInOrder
    <2>3. QED
      BY <1>2, <2>2, InvIsParts, PTL
  <1>7. QED
    BY <1>4, <1>5, <1>6

\* An index that is not the last is before it.
LEMMA Below == ASSUME NEW n \in Nat, NEW i \in 1..n, i # n PROVE i \in 1..(n - 1)
  OBVIOUS

\* The newest version applied is what there is up to it.
LEMMA ReadCurrentInv ==
    ASSUME MigrateInv, NEW w \in Writer, ReadCurrent(w) PROVE MigrateInv'
  <1>1. Types /\ TableOK /\ Log /\ Mutex
    BY InvIsParts
  <1> DEFINE S == {0} \cup {v \in Version : Done(v)}
  <1>2. S \in SUBSET Nat /\ 0 \in S
    BY VersionNat
  <1>3. Max(S) \in {0} \cup Version /\ \A v \in Version : v <= Max(S) <=> Done(v)
    <2>1. CASE applied = <<>>
      <3>1. \A v : ~Done(v)
        BY <2>1 DEF Done
      <3>2. \A y \in S : y <= 0
        BY <1>2, <3>1
      <3>3. Max(S) = 0
        BY <1>2, <3>2, MaxIs
      <3>4. QED
        BY <3>1, <3>3, VersionNat
    <2>2. CASE applied # <<>>
      <3>1. /\ applied \in Seq(Version) /\ Len(applied) \in Nat /\ Len(applied) > 0
            /\ DOMAIN applied = 1..Len(applied) /\ Len(applied) \in DOMAIN applied
        BY <1>1, <2>2 DEF Log
      <3>2. PICK c : c = applied[Len(applied)]
        OBVIOUS
      <3>3. c \in Version /\ c \in Nat /\ Done(c)
        BY <3>1, <3>2, VersionNat DEF Done
      <3>4. \A v \in Version : v < c <=> \E j \in 1..(Len(applied) - 1) : applied[j] = v
        BY <1>1, <3>1, <3>2 DEF Log, AppliedInOrder
      <3>5. \A v \in Version : v <= c <=> Done(v)
        <4>1. ASSUME NEW v \in Version, Done(v) PROVE v <= c
          <5>1. PICK i \in 1..Len(applied) : applied[i] = v
            BY <3>1, <4>1 DEF Done
          <5>2. CASE i = Len(applied)
            BY <3>2, <3>3, <5>1, <5>2
          <5>3. CASE i # Len(applied)
            <6>1. i \in 1..(Len(applied) - 1)
              BY <3>1, <5>3, Below
            <6>2. v < c
              BY <3>4, <5>1, <6>1
            <6>3. QED
              BY <3>3, <6>2, VersionNat
          <5>4. QED
            BY <5>2, <5>3
        <4>2. ASSUME NEW v \in Version, v <= c PROVE Done(v)
          <5>1. CASE v = c
            BY <3>3, <5>1
          <5>2. CASE v # c
            <6>1. v < c
              BY <3>3, <4>2, <5>2, VersionNat
            <6>2. PICK j \in 1..(Len(applied) - 1) : applied[j] = v
              BY <3>4, <6>1
            <6>3. QED
              BY <3>1, <6>2 DEF Done
          <5>3. QED
            BY <5>1, <5>2
        <4>3. QED
          BY <4>1, <4>2
      <3>6. c \in S /\ \A y \in S : y <= c
        BY <3>3, <3>5
      <3>7. Max(S) = c
        BY <1>2, <3>6, MaxIs
      <3>8. QED
        BY <3>3, <3>5, <3>7
    <2>3. QED
      BY <2>1, <2>2
  <1>4. /\ at' \in [Writer -> {"down", "lock", "ensure", "read", "apply", "ready"}]
        /\ at'[w] = "apply" /\ at[w] = "read" /\ \A u \in Writer : u # w => at'[u] = at[u]
    BY <1>1, ToIs DEF ReadCurrent
  <1>5. UNCHANGED <<lock, ghost, table, applied, deaths>>
    BY DEF ReadCurrent
  <1>6. /\ current' \in [Writer -> {0} \cup Version] /\ current'[w] = Max(S)
        /\ \A u \in Writer : u # w => current'[u] = current[u]
    BY <1>1, <1>3 DEF ReadCurrent, Types
  <1> HIDE DEF S
  <1>7. \A v : Done(v)' <=> Done(v)
    BY <1>5 DEF Done
  <1>8. Types' /\ TableOK'
    BY <1>1, <1>4, <1>5, <1>6 DEF Types, TableOK
  <1>9. Log'
    BY <1>1, <1>4, <1>5, <1>7 DEF Log, AppliedInOrder
  <1>10. Mutex'
    <2>1. \A u \in Writer : at'[u] \in Critical => lock' = u
      BY <1>1, <1>4, <1>5 DEF Mutex, Critical
    <2>2. \A u \in Writer : at'[u] = "apply" => \A v \in Version : v <= current'[u] <=> Done(v)
      <3>1. ASSUME NEW u \in Writer, at'[u] = "apply", NEW v \in Version
            PROVE  v <= current'[u] <=> Done(v)
        <4>1. CASE u = w
          BY <1>3, <1>6, <4>1
        <4>2. CASE u # w
          BY <1>1, <1>4, <1>6, <3>1, <4>2 DEF Mutex
        <4>3. QED
          BY <4>1, <4>2
      <3>2. QED
        BY <3>1
    <2>3. QED
      BY <1>1, <1>5, <1>7, <2>1, <2>2 DEF Mutex, Version
  <1>11. QED
    BY <1>8, <1>9, <1>10, InvIsParts, PTL

\* One more version leaves the log in order and takes nobody's schema away.
LEMMA LogGrows ==
    ASSUME Log, NEW v \in Version, \A u \in Version : u < v <=> Done(u),
           applied' = Append(applied, v),
           \A w \in Writer : at'[w] = "ready" => at[w] = "ready"
    PROVE  Log' /\ \A u : Done(u)' <=> Done(u) \/ u = v
  <1>1. /\ applied' \in Seq(Version) /\ AppliedInOrder'
        /\ \A u : Done(u)' <=> Done(u) \/ u = v
    BY AppendNext DEF Log
  <1>2. \A w \in Writer : at'[w] = "ready" => \A u \in Has[w] : Done(u)'
    BY <1>1 DEF Log
  <1>3. QED
    BY <1>1, <1>2 DEF Log, Version

\* A script with its row.
LEMMA ApplyInv ==
    ASSUME MigrateInv, NEW w \in Writer, Apply(w) PROVE MigrateInv'
  <1>1. Types /\ TableOK /\ Log /\ Mutex
    BY InvIsParts
  <1>2. at[w] = "apply" /\ Left(w) # {} /\ at[w] \in Critical
    BY DEF Apply, Critical
  <1>3. PICK v \in Version : /\ v = Min(Left(w)) /\ v # 0
                             /\ \A u \in Version : u < v <=> Done(u)
                             /\ \A u \in Version : u <= v <=> Done(u) \/ u = v
    BY <1>1, <1>2, LeftIsNext
  <1>4. /\ applied' = Append(applied, v) /\ current' = [current EXCEPT ![w] = v]
        /\ UNCHANGED <<at, lock, ghost, table, deaths>>
    BY <1>3 DEF Apply
  <1>5. Log' /\ \A u : Done(u)' <=> Done(u) \/ u = v
    BY <1>1, <1>3, <1>4, LogGrows
  <1>6. current' \in [Writer -> {0} \cup Version] /\ current'[w] = v
    BY <1>1, <1>4 DEF Types
  <1>7. Types' /\ TableOK'
    BY <1>1, <1>4, <1>6 DEF Types, TableOK
  <1>8. (\A u \in Writer : at[u] \in Critical => u = w) /\ ghost = 0
    BY <1>1, <1>2, Alone
  <1>9. \A u \in Writer : at'[u] = "apply" => \A x \in Version : x <= current'[u] <=> Done(x)'
    <2>1. ASSUME NEW u \in Writer, at'[u] = "apply" PROVE u = w
      BY <1>4, <1>8, <2>1 DEF Critical
    <2>2. \A x \in Version : x <= current'[w] <=> Done(x)'
      BY <1>3, <1>5, <1>6
    <2>3. QED
      BY <2>1, <2>2
  <1>10. Mutex'
    BY <1>1, <1>4, <1>8, <1>9 DEF Mutex, Version
  <1>11. QED
    BY <1>5, <1>7, <1>10, InvIsParts, PTL

\* Run returns: nothing is left to apply, so all the writer has is there.
LEMMA ReturnInv ==
    ASSUME MigrateInv, NEW w \in Writer, Return(w) PROVE MigrateInv'
  <1>1. Types /\ TableOK /\ Log /\ Mutex
    BY InvIsParts
  <1>2. at[w] = "apply" /\ Left(w) = {} /\ at[w] \in Critical
    BY DEF Return, Critical
  <1>3. /\ at' \in [Writer -> {"down", "lock", "ensure", "read", "apply", "ready"}]
        /\ at'[w] = "ready" /\ \A u \in Writer : u # w => at'[u] = at[u]
    BY <1>1, ToIs DEF Return
  <1>4. UNCHANGED <<current, ghost, table, applied, deaths>> /\ lock' = Release(w)
    BY DEF Return
  <1>5. (\A u \in Writer : at[u] \in Critical => u = w) /\ ghost = 0 /\ lock' = Nobody
    BY <1>1, <1>2, <1>4, Alone DEF Release
  <1>6. \A v : Done(v)' <=> Done(v)
    BY <1>4 DEF Done
  <1>7. \A v \in Has[w] : Done(v)
    <2>1. ASSUME NEW v \in Has[w] PROVE Done(v)
      <3>1. v \in Version /\ v \in Nat /\ current[w] \in Nat
        BY <1>1, VersionNat DEF Types
      <3>2. v <= current[w]
        BY <1>2, <3>1 DEF Left
      <3>3. QED
        BY <1>1, <1>2, <3>1, <3>2 DEF Mutex
    <2>2. QED
      BY <2>1
  <1>8. Types' /\ TableOK'
    BY <1>1, <1>3, <1>4, <1>5 DEF Types, TableOK
  <1>9. Log'
    <2>1. \A u \in Writer : at'[u] = "ready" => \A v \in Has[u] : Done(v)
      BY <1>1, <1>3, <1>7 DEF Log
    <2>2. QED
      BY <1>1, <1>4, <1>6, <2>1 DEF Log, AppliedInOrder, Version
  <1>10. Mutex'
    <2>1. \A u \in Writer : at'[u] \notin Critical
      BY <1>3, <1>5 DEF Critical
    <2>2. QED
      BY <1>4, <1>5, <2>1 DEF Mutex, Critical
  <1>11. QED
    BY <1>8, <1>9, <1>10, InvIsParts, PTL

\* A writer leaves, with its lock free or kept by its session; what it had sent may
\* still be applied.
LEMMA FailInv ==
    ASSUME MigrateInv, NEW w \in Writer, Fail(w) PROVE MigrateInv'
  <1>1. Types /\ TableOK /\ Log /\ Mutex
    BY InvIsParts
  <1>2. /\ at' \in [Writer -> {"down", "lock", "ensure", "read", "apply", "ready"}]
        /\ at'[w] = "down" /\ \A u \in Writer : u # w => at'[u] = at[u]
    BY <1>1, ToIs DEF Fail
  <1>3. /\ lock' = Release(w) /\ current' = [current EXCEPT ![w] = 0]
        /\ ghost' = ghost /\ table' = table /\ deaths < MaxDeaths /\ deaths' = deaths + 1
    BY DEF Fail
  <1>4. /\ current' \in [Writer -> {0} \cup Version]
        /\ \A u \in Writer : u # w => current'[u] = current[u]
    BY <1>1, <1>3 DEF Types
  <1>5. lock' \in Writer \cup {Nobody, Ghost} /\ deaths' \in 0..MaxDeaths
    BY <1>1, <1>3, MigrateAssumption DEF Types, Release
  <1>6. Types' /\ TableOK'
    BY <1>1, <1>2, <1>3, <1>4, <1>5 DEF Types, TableOK
  <1>7. \A u \in Writer : at'[u] \in Critical => u # w /\ at[u] \in Critical /\ lock' = u
    BY <1>1, <1>2, <1>3 DEF Mutex, Critical, Release
  <1>8. ghost # 0 => lock' = Ghost
    BY <1>1, <1>3, MigrateAssumption DEF Mutex, Release
  <1>9. CASE UNCHANGED applied
    <2>1. \A v : Done(v)' <=> Done(v)
      BY <1>9 DEF Done
    <2>2. Log'
      BY <1>1, <1>2, <1>9, <2>1 DEF Log, AppliedInOrder, Version
    <2>3. Mutex'
      BY <1>1, <1>2, <1>3, <1>4, <1>7, <1>8, <2>1 DEF Mutex, Version
    <2>4. QED
      BY <1>6, <2>2, <2>3, InvIsParts, PTL
  <1>10. CASE at[w] = "apply" /\ Left(w) # {} /\ applied' = Append(applied, Min(Left(w)))
    <2>1. PICK v \in Version : v = Min(Left(w)) /\ \A u \in Version : u < v <=> Done(u)
      BY <1>1, <1>10, LeftIsNext
    <2>2. Log'
      BY <1>1, <1>2, <1>10, <2>1, LogGrows
    <2>3. (\A u \in Writer : at[u] \in Critical => u = w) /\ ghost = 0
      BY <1>1, <1>10, Alone DEF Critical
    <2>4. \A u \in Writer : at'[u] \notin Critical
      BY <1>7, <2>3
    <2>5. Mutex'
      BY <1>3, <2>3, <2>4 DEF Mutex, Critical
    <2>6. QED
      BY <1>6, <2>2, <2>5, InvIsParts, PTL
  <1>11. QED
    BY <1>9, <1>10 DEF Fail

\* A death behind the lock leaves the session with the lock and perhaps a script.
LEMMA DieInv ==
    ASSUME MigrateInv, NEW w \in Writer, Die(w) PROVE MigrateInv'
  <1>1. Types /\ TableOK /\ Log /\ Mutex
    BY InvIsParts
  <1>2. /\ at' \in [Writer -> {"down", "lock", "ensure", "read", "apply", "ready"}]
        /\ at'[w] = "down" /\ \A u \in Writer : u # w => at'[u] = at[u]
    BY <1>1, ToIs DEF Die
  <1>3. /\ current' = [current EXCEPT ![w] = 0] /\ applied' = applied
        /\ table' = table /\ deaths < MaxDeaths /\ deaths' = deaths + 1
    BY DEF Die
  <1>4. /\ current' \in [Writer -> {0} \cup Version]
        /\ \A u \in Writer : u # w => current'[u] = current[u]
    BY <1>1, <1>3 DEF Types
  <1>5. deaths' \in 0..MaxDeaths
    BY <1>1, <1>3, MigrateAssumption DEF Types
  <1>6. \A v : Done(v)' <=> Done(v)
    BY <1>3 DEF Done
  <1>7. Log'
    BY <1>1, <1>2, <1>3, <1>6 DEF Log, AppliedInOrder, Version
  <1>8. CASE lock # w
    <2>1. lock' = lock /\ ghost' = ghost
      BY <1>8 DEF Die
    <2>2. Types' /\ TableOK'
      BY <1>1, <1>2, <1>3, <1>4, <1>5, <2>1 DEF Types, TableOK
    <2>3. Mutex'
      BY <1>1, <1>2, <1>4, <1>6, <2>1 DEF Mutex, Critical, Version
    <2>4. QED
      BY <1>7, <2>2, <2>3, InvIsParts, PTL
  <1>9. CASE lock = w
    <2>1. /\ lock' = Ghost
          /\ ghost' = 0 \/ (at[w] = "apply" /\ Left(w) # {} /\ ghost' = Min(Left(w)))
      BY <1>9 DEF Die
    <2>2. \A u \in Writer : at'[u] \notin Critical
      BY <1>1, <1>2, <1>9 DEF Mutex, Critical
    <2>3. ghost' \in {0} \cup Version /\ (ghost' # 0 => \A u \in Version : u < ghost' <=> Done(u))
      BY <1>1, <2>1, LeftIsNext
    <2>4. Types' /\ TableOK'
      BY <1>1, <1>2, <1>3, <1>4, <1>5, <2>1, <2>3 DEF Types, TableOK
    <2>5. Mutex'
      BY <1>6, <2>1, <2>2, <2>3 DEF Mutex, Critical, Version
    <2>6. QED
      BY <1>7, <2>4, <2>5, InvIsParts, PTL
  <1>10. QED
    BY <1>8, <1>9

\* Postgres ends the session of a dead writer.
LEMMA EndSessionInv ==
    ASSUME MigrateInv, EndSession PROVE MigrateInv'
  <1>1. Types /\ TableOK /\ Log /\ Mutex
    BY InvIsParts
  <1>2. /\ lock = Ghost /\ lock' = Nobody /\ ghost' = 0
        /\ at' = at /\ current' = current /\ table' = table /\ deaths' = deaths
    BY DEF EndSession
  <1>3. \A u \in Writer : at[u] \notin Critical
    BY <1>1, <1>2, MigrateAssumption DEF Mutex
  <1>4. Types' /\ TableOK'
    BY <1>1, <1>2 DEF Types, TableOK
  <1>5. Mutex'
    BY <1>2, <1>3 DEF Mutex, Critical
  <1>6. Log'
    <2>1. CASE ghost = 0
      <3>1. applied' = applied
        BY <2>1 DEF EndSession
      <3>2. QED
        BY <1>1, <1>2, <3>1 DEF Log, AppliedInOrder, Done, Version
    <2>2. CASE ghost # 0
      <3>1. applied' = Append(applied, ghost)
        BY <2>2 DEF EndSession
      <3>2. ghost \in Version /\ \A u \in Version : u < ghost <=> Done(u)
        BY <1>1, <2>2 DEF Types, Mutex
      <3>3. QED
        BY <1>1, <1>2, <3>1, <3>2, LogGrows
    <2>3. QED
      BY <2>1, <2>2
  <1>7. QED
    BY <1>4, <1>5, <1>6, InvIsParts, PTL

-----------------------------------------------------------------------------
\* An empty database and nobody running.
LEMMA MigrateInitInv == MigrateInit => MigrateInv
  <1>1. SUFFICES ASSUME MigrateInit PROVE Types /\ TableOK /\ Log /\ Mutex
    BY InvIsParts
  <1>2. Types /\ TableOK
    <2>1. /\ at \in [Writer -> {"down", "lock", "ensure", "read", "apply", "ready"}]
          /\ current \in [Writer -> {0} \cup Version]
      BY <1>1 DEF MigrateInit
    <2>2. lock \in Writer \cup {Nobody, Ghost} /\ ghost \in {0} \cup Version
      BY <1>1 DEF MigrateInit
    <2>3. deaths \in 0..MaxDeaths
      BY <1>1, MigrateAssumption DEF MigrateInit
    <2>4. TableOK
      BY <1>1 DEF MigrateInit, TableOK
    <2>5. QED
      BY <2>1, <2>2, <2>3, <2>4, Zenon DEF Types
  <1>3. Log /\ Mutex
    BY <1>1 DEF MigrateInit, Log, Mutex, AppliedInOrder, Critical
  <1>4. QED
    BY <1>2, <1>3

\* Steps of others.
LEMMA MigrateStutterInv ==
    ASSUME MigrateInv, UNCHANGED migrateVars PROVE MigrateInv'
  <1>1. Types /\ TableOK /\ Log /\ Mutex
    BY InvIsParts
  <1>2. UNCHANGED <<at, current, lock, ghost, table, applied, deaths>>
    BY DEF migrateVars
  <1>3. Types' /\ TableOK' /\ Log' /\ Mutex'
    BY <1>1, <1>2 DEF Types, TableOK, Log, Mutex, AppliedInOrder, Done, Critical
  <1>4. QED
    BY <1>3, InvIsParts, PTL

\* Every step of migrate.Run, and of the sessions it leaves behind.
LEMMA MigrateStep ==
    ASSUME MigrateInv, [MigrateNext]_migrateVars PROVE MigrateInv'
  BY QuietInv, ReadCurrentInv, ApplyInv, ReturnInv, FailInv, DieInv, EndSessionInv,
     MigrateStutterInv DEF MigrateNext, Run

\* migrate.Run keeps the invariant, whichever statements fail and writers die.
THEOREM MigrateInvHolds == MigrateSpec => []MigrateInv
  <1>1. MigrateInv /\ [MigrateNext]_migrateVars => MigrateInv'
    BY MigrateStep
  <1>2. QED
    BY <1>1, MigrateInitInv, PTL DEF MigrateSpec

\* Migrations are applied once, in the order of their versions, none left out.
THEOREM AppliedInOrderHolds == MigrateSpec => []AppliedInOrder
  <1>1. MigrateInv => AppliedInOrder
    BY DEF MigrateInv
  <1>2. QED
    BY <1>1, MigrateInvHolds, PTL

\* A writer whose migrate.Run returned has the schema it was built for.
THEOREM ReadyIsMigratedHolds == MigrateSpec => []ReadyIsMigrated
  <1>1. MigrateInv => ReadyIsMigrated
    BY DEF MigrateInv
  <1>2. QED
    BY <1>1, MigrateInvHolds, PTL

-----------------------------------------------------------------------------
(* The API and the web client.                                             *)

RecordSet == [flight : Flight \cup {None}, row : Nat, track : SUBSET Nat]
RequestSet == [record : RecordSet, at : {"none", "row", "track", "answer"}, mine : BOOLEAN]

\* A request as it begins, and the slot without one.
LEMMA RequestIs ==
  ASSUME NEW f \in Flight
  PROVE  /\ Request(f, "row", TRUE) \in RequestSet
         /\ Request(f, "row", TRUE).record.flight = f
         /\ Request(f, "row", TRUE).at = "row" /\ Request(f, "row", TRUE).mine
  BY DEF Request, Record, RequestSet, RecordSet

LEMMA NoRequestIs ==
  /\ NoRequest \in RequestSet /\ NoRequest.at = "none" /\ ~NoRequest.mine
  /\ NoRecord \in RecordSet /\ NoRecord.flight = None
  BY DEF NoRequest, Request, Record, NoRecord, RequestSet, RecordSet

\* A free slot is in order, whatever is selected or written.
LEMMA NoRequestOK == RequestOK(NoRequest)
  BY NoRequestIs DEF RequestOK

\* What the tables do to a request or to the data shown: an update that is committed is later
\* than every row that was read, and retention only takes positions away.
LEMMA TablesInv ==
  ASSUME WebInv, UNCHANGED <<durable, webVars>>,
         written' \in [Flight -> Nat], points' \in [Flight -> SUBSET Nat],
         \A g \in Flight : /\ written[g] <= written'[g]
                           /\ \A n \in points'[g] : n \in points[g] \/ n > written[g]
  PROVE  WebInv'
<1>1. /\ written \in [Flight -> Nat] /\ request \in [Slot -> RequestSet] /\ data \in RecordSet
  BY DEF WebInv, RecordsTypeOK, RequestSet, RecordSet
<1>2. UNCHANGED <<durable, request, selected, data, loading, failed, clicks>>
  BY DEF webVars
<1>3. ASSUME NEW r \in RecordSet, r.flight \in Flight, r.row <= written[r.flight]
      PROVE  r.row <= written'[r.flight] /\ (Covers(r) => Covers(r)')
  <2>1. r.row \in Nat /\ written[r.flight] \in Nat /\ written'[r.flight] \in Nat
    BY <1>1, <1>3 DEF RecordSet
  <2>2. r.row <= written'[r.flight]
    BY <1>3, <2>1
  <2>3. \A n \in points'[r.flight] : n <= r.row => n \in points[r.flight]
    BY <1>3, <2>1
  <2> QED BY <2>2, <2>3 DEF Covers
<1>4. RecordsTypeOK'
  BY <1>2 DEF WebInv, RecordsTypeOK
<1>5. PanelShowsSelected'
  BY <1>2 DEF WebInv, PanelShowsSelected
<1>6. (data.flight # None => data.row <= written[data.flight])' /\ TrackCoversRow'
  <2>1. CASE data.flight # None
    <3>1. data.flight \in Flight
      BY <1>1, <2>1 DEF RecordSet
    <3>2. data.row <= written[data.flight] /\ Covers(data)
      BY <2>1 DEF WebInv, TrackCoversRow
    <3>3. data.row <= written'[data.flight] /\ Covers(data)'
      BY <1>1, <1>2, <1>3, <3>1, <3>2 DEF Covers
    <3> QED BY <1>2, <3>3 DEF TrackCoversRow
  <2>2. CASE data.flight = None
    BY <1>2, <2>2 DEF TrackCoversRow
  <2> QED BY <2>1, <2>2
<1>7. ASSUME NEW s \in Slot PROVE RequestOK(request[s])'
  <2>1. RequestOK(request[s]) /\ request[s].record \in RecordSet
    BY <1>1 DEF WebInv, RequestSet
  <2>2. CASE request[s].at \in {"track", "answer"}
    <3>1. request[s].record.flight \in Flight
      BY <2>1, <2>2 DEF RequestOK
    <3>2. request[s].record.row <= written'[request[s].record.flight]
          /\ (Covers(request[s].record) => Covers(request[s].record)')
      BY <1>2, <1>3, <2>1, <2>2, <3>1 DEF RequestOK, Covers
    <3> QED BY <1>2, <2>1, <3>2 DEF RequestOK
  <2>3. CASE request[s].at \notin {"track", "answer"}
    BY <1>2, <2>1, <2>3 DEF RequestOK
  <2> QED BY <2>2, <2>3
<1> QED BY <1>4, <1>5, <1>6, <1>7 DEF WebInv

LEMMA RecordBatchInv ==
  ASSUME WebInv, NEW f \in Flight, NEW hasPosition \in BOOLEAN, RecordBatch(f, hasPosition)
  PROVE  WebInv'
<1>1. written \in [Flight -> Nat] /\ points \in [Flight -> SUBSET Nat]
  BY DEF WebInv, RecordsTypeOK
<1>2. written' = [written EXCEPT ![f] = @ + 1] /\ UNCHANGED <<durable, webVars>>
      /\ points' \in {points, [points EXCEPT ![f] = @ \cup {written'[f]}]}
  BY DEF RecordBatch
<1>3. /\ written' \in [Flight -> Nat] /\ written'[f] = written[f] + 1
      /\ \A g \in Flight : written[g] <= written'[g]
  BY <1>1, <1>2
<1>4. written'[f] \in Nat /\ written'[f] > written[f]
  BY <1>1, <1>3
<1>5. points' \in [Flight -> SUBSET Nat]
      /\ \A g \in Flight : \A n \in points'[g] : n \in points[g] \/ n > written[g]
  BY <1>1, <1>2, <1>4
<1> QED BY <1>2, <1>3, <1>5, TablesInv

LEMMA RetentionInv ==
  ASSUME WebInv, NEW f \in Flight, Retention(f)
  PROVE  WebInv'
<1>1. written \in [Flight -> Nat] /\ points \in [Flight -> SUBSET Nat]
  BY DEF WebInv, RecordsTypeOK
<1>2. PICK old \in SUBSET points[f] : points' = [points EXCEPT ![f] = @ \ old]
  BY DEF Retention
<1>3. UNCHANGED <<written, durable, webVars>>
  BY DEF Retention
<1>4. points' \in [Flight -> SUBSET Nat] /\ \A g \in Flight : points'[g] \subseteq points[g]
  BY <1>1, <1>2
<1>5. \A g \in Flight : written[g] <= written[g]
  BY <1>1
<1> QED BY <1>1, <1>3, <1>4, <1>5, TablesInv

\* A cancelled request is in order, whatever is selected.
LEMMA CancelledOK ==
  ASSUME WebInv, NEW s \in Slot
  PROVE  /\ Cancelled \in [Slot -> RequestSet]
         /\ ~Cancelled[s].mine /\ Cancelled[s].record = request[s].record
         /\ Cancelled[s].at = request[s].at
<1>1. request \in [Slot -> RequestSet]
  BY DEF WebInv, RecordsTypeOK, RequestSet, RecordSet
<1>2. ASSUME NEW t \in Slot
      PROVE  /\ [request[t] EXCEPT !.mine = FALSE] \in RequestSet
             /\ [request[t] EXCEPT !.mine = FALSE].mine = FALSE
             /\ [request[t] EXCEPT !.mine = FALSE].record = request[t].record
             /\ [request[t] EXCEPT !.mine = FALSE].at = request[t].at
  BY <1>1 DEF RequestSet
<1> QED BY <1>2 DEF Cancelled

\* A click cancels what went before and begins a request for the flight selected.
LEMMA SelectInv ==
  ASSUME WebInv, NEW f \in Flight, Select(f)
  PROVE  WebInv'
<1>1. PICK s \in Slot : request' = [Cancelled EXCEPT ![s] = Request(f, "row", TRUE)]
  BY DEF Select
<1>2. UNCHANGED <<tableVars, durable, data>> /\ selected' = f /\ loading' = TRUE /\ failed' = FALSE
      /\ clicks' = clicks + 1 /\ clicks < MaxClicks
  BY DEF Select
<1>3. f # None
  BY RecordsAssumption
<1>4. request' \in [Slot -> RequestSet]
  BY <1>1, CancelledOK, RequestIs
<1>5. RecordsTypeOK'
  <2>1. clicks' \in 0..MaxClicks
    BY <1>2, RecordsAssumption DEF WebInv, RecordsTypeOK
  <2> QED BY <1>2, <1>4, <2>1 DEF WebInv, RecordsTypeOK, RequestSet, RecordSet, tableVars
<1>6. ASSUME NEW t \in Slot PROVE RequestOK(request[t])'
  <2>1. CASE t = s
    <3>1. request'[t] = Request(f, "row", TRUE)
      BY <1>1, <2>1, CancelledOK
    <3> QED BY <1>2, <1>3, <3>1, RequestIs DEF RequestOK, tableVars
  <2>2. CASE t # s
    <3>1. request'[t] = Cancelled[t]
      BY <1>1, <2>2, CancelledOK
    <3>2. ~request'[t].mine /\ request'[t].record = request[t].record /\ request'[t].at = request[t].at
      BY <3>1, CancelledOK
    <3> QED BY <1>2, <3>2 DEF WebInv, RequestOK, Covers, tableVars
  <2> QED BY <2>1, <2>2
<1>7. /\ PanelShowsSelected' /\ TrackCoversRow'
      /\ (data.flight # None => data.row <= written[data.flight])'
  BY <1>2, <1>3 DEF WebInv, PanelShowsSelected, TrackCoversRow, Covers, tableVars
<1> QED BY <1>5, <1>6, <1>7 DEF WebInv

\* Closing the panel cancels what is under way and clears the data.
LEMMA CloseInv == ASSUME WebInv, Close PROVE WebInv'
<1>1. UNCHANGED <<tableVars, durable, clicks>> /\ request' = Cancelled /\ selected' = None
      /\ data' = NoRecord /\ loading' = FALSE /\ failed' = FALSE
  BY DEF Close
<1>2. request' \in [Slot -> RequestSet]
  BY <1>1, CancelledOK, RecordsAssumption
<1>3. RecordsTypeOK'
  BY <1>1, <1>2, NoRequestIs DEF WebInv, RecordsTypeOK, RequestSet, RecordSet, tableVars
<1>4. ASSUME NEW t \in Slot PROVE RequestOK(request[t])'
  <2>1. ~request'[t].mine /\ request'[t].record = request[t].record /\ request'[t].at = request[t].at
    BY <1>1, CancelledOK
  <2> QED BY <1>1, <2>1 DEF WebInv, RequestOK, Covers, tableVars
<1>5. /\ PanelShowsSelected' /\ TrackCoversRow'
      /\ (data.flight # None => data.row <= written[data.flight])'
  BY <1>1, NoRequestIs DEF PanelShowsSelected, TrackCoversRow
<1> QED BY <1>3, <1>4, <1>5 DEF WebInv

\* A request ends: its answer is shown, or its failure, unless it was cancelled.
LEMMA EndedInv ==
  ASSUME WebInv, NEW s \in Slot, Answered(s) \/ Rejected(s)
  PROVE  WebInv'
<1>1. UNCHANGED <<tableVars, durable, selected, clicks>>
      /\ request' = [request EXCEPT ![s] = NoRequest]
  BY DEF Answered, Rejected
<1>2. request \in [Slot -> RequestSet] /\ request[s] \in RequestSet /\ RequestOK(request[s])
  BY DEF WebInv, RecordsTypeOK, RequestSet, RecordSet
<1>3. request' \in [Slot -> RequestSet]
  BY <1>1, <1>2, NoRequestIs
<1>4. request[s].record \in RecordSet /\ request[s].mine \in BOOLEAN
  BY <1>2 DEF RequestSet
<1>5. \A t \in Slot : RequestOK(request[t])'
  <2> SUFFICES ASSUME NEW t \in Slot PROVE RequestOK(request[t])'
    OBVIOUS
  <2>1. request'[t] = NoRequest \/ request'[t] = request[t]
    BY <1>1, <1>2
  <2> QED BY <1>1, <2>1, NoRequestIs DEF WebInv, RequestOK, Covers, tableVars
<1>6. CASE UNCHANGED <<data, loading, failed>>
  BY <1>1, <1>3, <1>5, <1>6
  DEF WebInv, RecordsTypeOK, RequestSet, RecordSet, PanelShowsSelected, TrackCoversRow,
      Covers, tableVars
<1>7. CASE Answered(s) /\ request[s].mine
  <2>1. data' = request[s].record /\ loading' = FALSE /\ failed' = failed
    BY <1>7 DEF Answered
  <2>2. /\ data'.flight = selected /\ selected # None
        /\ data'.row <= written[data'.flight] /\ Covers(data')
    BY <1>2, <1>7, <2>1 DEF Answered, RequestOK
  <2>3. RecordsTypeOK'
    BY <1>1, <1>3, <1>4, <2>1 DEF WebInv, RecordsTypeOK, RequestSet, RecordSet, tableVars
  <2> QED BY <1>1, <1>5, <2>2, <2>3
          DEF WebInv, PanelShowsSelected, TrackCoversRow, Covers, tableVars
<1>8. CASE Rejected(s) /\ request[s].mine
  <2>1. data' = data /\ loading' = FALSE /\ failed' = TRUE
    BY <1>8 DEF Rejected
  <2>2. RecordsTypeOK'
    BY <1>1, <1>3, <2>1 DEF WebInv, RecordsTypeOK, RequestSet, RecordSet, tableVars
  <2> QED BY <1>1, <1>5, <2>1, <2>2
          DEF WebInv, PanelShowsSelected, TrackCoversRow, Covers, tableVars
<1> QED BY <1>6, <1>7, <1>8 DEF Answered, Rejected

\* GetRecord's two queries: the track is read after the row, with all positions there are.
LEMMA QueryInv ==
  ASSUME WebInv, NEW s \in Slot, QueryFlight(s) \/ QueryTrack(s)
  PROVE  WebInv'
<1> DEFINE q == request[s]
           n == written[q.record.flight]
<1>1. UNCHANGED <<tableVars, durable, selected, data, loading, failed, clicks>>
  BY DEF QueryFlight, QueryTrack
<1>2. /\ request \in [Slot -> RequestSet] /\ q \in RequestSet /\ RequestOK(q)
      /\ written \in [Flight -> Nat] /\ points \in [Flight -> SUBSET Nat]
  BY DEF WebInv, RecordsTypeOK, RequestSet, RecordSet
<1>3. q.record \in RecordSet /\ q.record.flight \in Flight /\ n \in Nat
  BY <1>2 DEF QueryFlight, QueryTrack, RequestOK, RequestSet
<1>4. PICK place, r :
        /\ To_(s, place, r) /\ r \in RecordSet /\ r.flight = q.record.flight
        /\ \/ place = "track" /\ r.row <= n
           \/ place = "answer" /\ r.row <= n /\ Covers(r)
  <2>1. CASE QueryFlight(s)
    <3> DEFINE r == [q.record EXCEPT !.row = n]
    <3>1. To_(s, "track", r)
      BY <2>1 DEF QueryFlight
    <3>2. r \in RecordSet /\ r.flight = q.record.flight /\ r.row = n
      BY <1>3 DEF RecordSet
    <3>3. r.row <= n
      BY <1>3, <3>2
    <3> HIDE DEF r, n
    <3> QED BY <3>1, <3>2, <3>3, Zenon
  <2>2. CASE QueryTrack(s)
    <3> DEFINE r == [q.record EXCEPT !.track = points[q.record.flight]]
    <3>1. To_(s, "answer", r)
      BY <2>2 DEF QueryTrack
    <3>2. /\ r \in RecordSet /\ r.flight = q.record.flight /\ r.row = q.record.row
          /\ r.track = points[q.record.flight]
      BY <1>2, <1>3 DEF RecordSet
    <3>3. q.record.row <= n
      BY <1>2, <2>2 DEF QueryTrack, RequestOK
    <3>4. r.row <= n /\ Covers(r)
      BY <3>2, <3>3 DEF Covers
    <3> HIDE DEF r, n
    <3> QED BY <3>1, <3>2, <3>4, Zenon
  <2> QED BY <2>1, <2>2
<1>5. /\ request' \in [Slot -> RequestSet]
      /\ \A t \in Slot \ {s} : request'[t] = request[t]
      /\ request'[s].record = r /\ request'[s].at = place /\ request'[s].mine = q.mine
  BY <1>2, <1>4 DEF To_, RequestSet
<1>6. RecordsTypeOK'
  BY <1>1, <1>5 DEF WebInv, RecordsTypeOK, RequestSet, RecordSet, tableVars
<1>7. ASSUME NEW t \in Slot PROVE RequestOK(request[t])'
  <2>1. CASE t = s
    BY <1>1, <1>2, <1>3, <1>4, <1>5, <2>1 DEF RequestOK, Covers, tableVars
  <2>2. CASE t # s
    BY <1>1, <1>5, <2>2 DEF WebInv, RequestOK, Covers, tableVars
  <2> QED BY <2>1, <2>2
<1>8. /\ PanelShowsSelected' /\ TrackCoversRow'
      /\ (data.flight # None => data.row <= written[data.flight])'
  BY <1>1 DEF WebInv, PanelShowsSelected, TrackCoversRow, Covers, tableVars
<1> QED BY <1>6, <1>7, <1>8 DEF WebInv

\* Steps of the writers' migrations, and a restart of the API.
LEMMA WebFrame ==
  ASSUME WebInv, UNCHANGED <<tableVars, webVars>>, durable' \in BOOLEAN
  PROVE  WebInv'
  BY DEF WebInv, webVars, tableVars, RecordsTypeOK, RequestOK, PanelShowsSelected,
     TrackCoversRow, Covers

LEMMA WebInitInv == RecordsInit => WebInv
<1> SUFFICES ASSUME RecordsInit PROVE WebInv
  OBVIOUS
<1>1. RecordsTypeOK
  <2>1. written \in [Flight -> Nat] /\ points \in [Flight -> SUBSET Nat] /\ request \in [Slot -> RequestSet] /\ data \in RecordSet
    BY NoRequestIs DEF RecordsInit
  <2>2. clicks \in 0..MaxClicks /\ selected \in Flight \cup {None}
    BY RecordsAssumption DEF RecordsInit
  <2>3. loading \in BOOLEAN /\ failed \in BOOLEAN /\ durable \in BOOLEAN
    BY Zenon DEF RecordsInit
  <2> QED BY <2>1, <2>2, <2>3, Zenon DEF RecordsTypeOK, RequestSet, RecordSet
<1>2. /\ PanelShowsSelected /\ TrackCoversRow
      /\ data.flight # None => data.row <= written[data.flight]
  BY NoRequestIs DEF RecordsInit, PanelShowsSelected, TrackCoversRow
<1>3. \A s \in Slot : RequestOK(request[s])
  BY NoRequestOK DEF RecordsInit
<1> QED BY <1>1, <1>2, <1>3 DEF WebInv

RecordsInv == MigrateInv /\ WebInv

\* Every step of the writers, the API and the web client.
LEMMA RecordsStep == ASSUME RecordsInv, [RecordsNext]_recordsVars PROVE RecordsInv'
<1>1. CASE MigrateNext /\ UNCHANGED <<tableVars, durable, webVars>>
  <2>1. durable' \in BOOLEAN
    BY <1>1 DEF RecordsInv, WebInv, RecordsTypeOK
  <2> QED BY <1>1, <2>1, MigrateStep, WebFrame DEF RecordsInv
<1>2. CASE \/ \E f \in Flight, hasPosition \in BOOLEAN : RecordBatch(f, hasPosition)
           \/ \E f \in Flight : Retention(f) \/ Select(f)
  <2>1. UNCHANGED migrateVars
    BY <1>2 DEF RecordBatch, Retention, Select
  <2>2. WebInv'
    BY <1>2, RecordBatchInv, RetentionInv, SelectInv DEF RecordsInv
  <2> QED BY <2>1, <2>2, MigrateStutterInv DEF RecordsInv
<1>3. CASE \E s \in Slot : Serve(s) \/ RequestError(s)
  <2>1. PICK s \in Slot : Serve(s) \/ RequestError(s)
    BY <1>3
  <2>2. UNCHANGED migrateVars
    BY <2>1 DEF Serve, RequestError, QueryFlight, NotServed, QueryTrack, Answered, Rejected
  <2>3. WebInv'
    BY <2>1, EndedInv, QueryInv DEF RecordsInv, Serve, RequestError, NotServed
  <2> QED BY <2>2, <2>3, MigrateStutterInv DEF RecordsInv
<1>4. CASE Close
  BY <1>4, MigrateStutterInv, CloseInv DEF RecordsInv, Close
<1>5. CASE ApiRestart
  BY <1>5, MigrateStutterInv, WebFrame DEF RecordsInv, ApiRestart
<1>6. CASE UNCHANGED recordsVars
  <2>1. durable' \in BOOLEAN
    BY <1>6 DEF RecordsInv, WebInv, RecordsTypeOK, recordsVars
  <2> QED BY <1>6, <2>1, MigrateStutterInv, WebFrame DEF RecordsInv, recordsVars
<1> QED BY <1>1, <1>2, <1>3, <1>4, <1>5, <1>6 DEF RecordsNext

\* The invariants of the migrations and of the way to the screen hold together.
THEOREM RecordsInvHolds == RecordsSpec => []RecordsInv
<1>1. RecordsInit => RecordsInv
  BY MigrateInitInv, WebInitInv DEF RecordsInit, RecordsInv
<1>2. RecordsInv /\ [RecordsNext]_recordsVars => RecordsInv'
  BY RecordsStep
<1> QED BY <1>1, <1>2, PTL DEF RecordsSpec

\* migrate.Run keeps its invariant beside the writers' transactions and the API.
THEOREM RecordsMigrateInv == RecordsSpec => []MigrateInv
<1>1. RecordsInv => MigrateInv
  BY DEF RecordsInv
<1> QED BY <1>1, RecordsInvHolds, PTL

\* useFlightRecord shows the record of the flight that is selected, for any number of
\* requests under way and however their answers, failures and the clicks interleave.
THEOREM PanelShowsSelectedHolds == RecordsSpec => []PanelShowsSelected
<1>1. RecordsInv => PanelShowsSelected
  BY DEF RecordsInv, WebInv
<1> QED BY <1>1, RecordsInvHolds, PTL

\* The track that GetRecord answers lacks no position of an update that its row reflects,
\* but for those the table has no longer, whatever writers and retention do between the
\* two queries and after.
THEOREM TrackCoversRowHolds == RecordsSpec => []TrackCoversRow
<1>1. RecordsInv => TrackCoversRow
  BY DEF RecordsInv, WebInv
<1> QED BY <1>1, RecordsInvHolds, PTL
=============================================================================
