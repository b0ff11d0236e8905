--------------------------- MODULE LaddLifecycle ---------------------------
(***************************************************************************)
(* The life of a LADD list file on the filter's disk: an operator drops it *)
(* in staging, Promote moves it to active and what it supersedes to        *)
(* archived, LoadLatest reads the newest file of active and the store      *)
(* swaps it in.  Moving is a rename or, across file systems, copy and      *)
(* remove, whose steps can fail or be cut off by a crash.                  *)
(*                                                                         *)
(* A file is known by the date in its name.  Its content is "full", or     *)
(* "part" for the prefix an interrupted copy leaves.                       *)
(***************************************************************************)
EXTENDS Integers

CONSTANTS
    Dates,      \* publication dates, all after the zero date
    MaxDrops,   \* bound: files an operator drops
    MaxCrashes  \* bound: crashes of the filter

ASSUME LifecycleAssumption ==
    /\ Dates \subseteq Nat \ {0}
    /\ MaxDrops \in Nat /\ MaxCrashes \in Nat

VARIABLES
    staging,    \* dates of the files in staging; an operator renames them in
    active,     \* date -> content of the file in active, or "none"
    archived,   \* date -> contents of the files kept in archived
    current,    \* the store's list: date and content
    mode,       \* "down", "starting" (main before Run) or "running"
    step,       \* where Reload, or main's startup, is
    moving,     \* the date of the file being promoted
    failure,    \* Promote returned an error in this round
    drops,      \* files dropped so far
    crashes,    \* crashes so far
    delivered,  \* history: dates of the files dropped
    swept,      \* history: dates moved out of staging while newer than the file
                \* being promoted, and not dropped again since
    cutoff      \* history: dates whose copy into active was cut off

fsVars == <<staging, active, archived>>
countVars == <<drops, crashes, delivered, swept, cutoff>>
lifeVars == <<fsVars, current, mode, step, moving, failure, countVars>>

Steps == {"idle", "promote", "copying", "remove", "archive", "load"}
NoneLoaded == [date |-> 0, content |-> "none"]

LifeTypeOK ==
    /\ staging \subseteq Dates /\ delivered \subseteq Dates
    /\ swept \subseteq Dates /\ cutoff \subseteq Dates
    /\ active \in [Dates -> {"none", "part", "full"}]
    /\ archived \in [Dates -> SUBSET {"part", "full"}]
    /\ current \in [date : Dates \cup {0}, content : {"none", "part", "full"}]
    /\ mode \in {"down", "starting", "running"}
    /\ step \in Steps /\ moving \in Dates \cup {0} /\ failure \in BOOLEAN
    /\ drops \in 0..MaxDrops /\ crashes \in 0..MaxCrashes

\* newestDated of a directory that holds a list.
IsNewest(d, dir) == d \in dir /\ \A e \in dir : e <= d
InActive == {d \in Dates : active[d] # "none"}

\* The file to promote: the newest staged, newer than all of active.
Newer(s) == IsNewest(s, staging) /\ \A a \in InActive : a < s

\* The container's first start, on an empty volume.
LifeInit ==
    /\ staging = {} /\ delivered = {} /\ swept = {} /\ cutoff = {}
    /\ active = [d \in Dates |-> "none"]
    /\ archived = [d \in Dates |-> {}]
    /\ current = NoneLoaded
    /\ mode = "starting" /\ step = "promote" /\ moving = 0 /\ failure = FALSE
    /\ drops = 0 /\ crashes = 0

-----------------------------------------------------------------------------
(* The operator, external: write elsewhere, rename into staging.           *)
Drop(d) ==
    /\ drops < MaxDrops
    /\ drops' = drops + 1
    /\ d \notin staging
    /\ staging' = staging \cup {d}
    /\ delivered' = delivered \cup {d}
    /\ swept' = swept \ {d}
    /\ UNCHANGED <<active, archived, current, mode, step, moving, failure, crashes, cutoff>>

-----------------------------------------------------------------------------
(* Promote                                                                 *)

\* The reloader's ticker fires.
Tick ==
    /\ mode = "running" /\ step = "idle"
    /\ step' = "promote" /\ failure' = FALSE
    /\ UNCHANGED <<fsVars, current, mode, moving, countVars>>

\* moveInto(archived): what arrives there, by date.  uniquePath never overwrites
\* a file that is there.
Archive(arrived) == archived' = [d \in Dates |-> archived[d] \cup arrived[d]]

\* Nothing is staged.
PromoteNothing ==
    /\ step = "promote" /\ staging = {}
    /\ step' = "load"
    /\ UNCHANGED <<fsVars, current, mode, moving, failure, countVars>>

\* The newest staged file is not newer than the active one: archive it and go
\* on, whether or not that worked.  left is what an error leaves in archived:
\* nothing, a cut-off copy, or a whole copy of a file that cannot be removed.
PromoteStale(s, ok, left) ==
    /\ step = "promote"
    /\ IsNewest(s, staging) /\ ~Newer(s)
    /\ ok => left = {"full"}
    /\ Archive([d \in Dates |-> IF d = s THEN left ELSE {}])
    /\ staging' = IF ok THEN staging \ {s} ELSE staging
    /\ step' = "load"
    /\ UNCHANGED <<active, current, mode, moving, failure, countVars>>

\* It is newer.  os.Rename moves it at once.
PromoteRename(s) ==
    /\ step = "promote" /\ Newer(s)
    /\ staging' = staging \ {s}
    /\ active' = [active EXCEPT ![s] = "full"]
    /\ moving' = s
    /\ step' = "archive"
    /\ UNCHANGED <<archived, current, mode, failure, countVars>>

\* Mutant: the source is removed before the copy is written.
PromoteCopyRemovesFirst(s) ==
    /\ step = "promote" /\ Newer(s)
    /\ active' = [active EXCEPT ![s] = "part"]
    /\ staging' = staging \ {s}
    /\ moving' = s
    /\ step' = "copying"
    /\ UNCHANGED <<archived, current, mode, failure, countVars>>

\* Rename fails, copyFile creates the destination.
PromoteCopy(s) ==
    /\ step = "promote" /\ Newer(s)
    /\ active' = [active EXCEPT ![s] = "part"]
    /\ moving' = s
    /\ step' = "copying"
    /\ UNCHANGED <<staging, archived, current, mode, failure, countVars>>

\* Scanning a directory, MkdirAll, Open or Create fails: Promote returns an
\* error.
PromoteError ==
    /\ step = "promote"
    /\ failure' = TRUE
    /\ step' = "load"
    /\ UNCHANGED <<fsVars, current, mode, moving, countVars>>

\* io.Copy and Close: all of it, or an error that leaves what was written.
Copy(ok) ==
    /\ step = "copying"
    /\ active' = IF ok THEN [active EXCEPT ![moving] = "full"] ELSE active
    /\ step' = IF ok THEN "remove" ELSE "load"
    /\ failure' = ~ok
    /\ cutoff' = IF ok THEN cutoff ELSE cutoff \cup {moving}
    /\ UNCHANGED <<staging, archived, current, mode, moving, drops, crashes, delivered, swept>>

\* os.Remove of the source; an error is Promote's error.
Remove(ok) ==
    /\ step = "remove"
    /\ staging' = IF ok THEN staging \ {moving} ELSE staging
    /\ step' = IF ok THEN "archive" ELSE "load"
    /\ failure' = ~ok
    /\ UNCHANGED <<active, archived, current, mode, moving, countVars>>

\* Lists that came after Promote had chosen go too, the newer ones as well.
Sweep(gone) == swept' = swept \cup {d \in gone : d > moving}

\* Mutant: archiveLADD of active does not keep the promoted file.
ArchiveAll ==
    /\ step = "archive"
    /\ \E A \in SUBSET InActive, S \in SUBSET staging :
         /\ active' = [d \in Dates |-> IF d \in A THEN "none" ELSE active[d]]
         /\ staging' = staging \ S
         /\ Archive([d \in Dates |-> (IF d \in A THEN {active[d]} ELSE {})
                                     \cup (IF d \in S THEN {"full"} ELSE {})])
         /\ Sweep(S)
    /\ step' = "load"
    /\ UNCHANGED <<current, mode, moving, failure, drops, crashes, delivered, cutoff>>

\* archiveLADD of active, but for the promoted file, and of staging.  Each move
\* may fail: A and S arrive in archived, gone are those whose source is removed,
\* and a cut-off copy of the others may be left.
ArchiveOthers ==
    /\ step = "archive"
    /\ \E A \in SUBSET (InActive \ {moving}), S \in SUBSET staging :
       \E goneA \in SUBSET A, goneS \in SUBSET S,
          cut \in SUBSET ((InActive \ ({moving} \cup A)) \cup (staging \ S)) :
         /\ active' = [d \in Dates |-> IF d \in goneA THEN "none" ELSE active[d]]
         /\ staging' = staging \ goneS
         /\ Archive([d \in Dates |-> (IF d \in A THEN {active[d]} ELSE {})
                                     \cup (IF d \in S THEN {"full"} ELSE {})
                                     \cup (IF d \in cut THEN {"part"} ELSE {})])
         /\ Sweep(goneS)
    /\ step' = "load"
    /\ UNCHANGED <<current, mode, moving, failure, drops, crashes, delivered, cutoff>>

-----------------------------------------------------------------------------
(* LoadLatest and the store                                                *)

\* Mutant: the reloader promotes and never swaps.
LoadOnlyAtStart(d) ==
    /\ step = "load"
    /\ IsNewest(d, InActive)
    /\ current' = IF mode = "starting" THEN [date |-> d, content |-> active[d]]
                                       ELSE current
    /\ mode' = "running" /\ step' = "idle" /\ moving' = 0
    /\ UNCHANGED <<fsVars, failure, countVars>>

\* Reload swaps in the newest active file if its date is newer; main swaps it
\* in whatever its date is.
Load(d) ==
    /\ step = "load"
    /\ IsNewest(d, InActive)
    /\ current' = IF mode = "starting" \/ d > current.date
                  THEN [date |-> d, content |-> active[d]]
                  ELSE current
    /\ mode' = "running" /\ step' = "idle" /\ moving' = 0
    /\ UNCHANGED <<fsVars, failure, countVars>>

\* No list in active, or it cannot be read: keep the list there is.  Without
\* one the filter's gate stops the process.
LoadError ==
    /\ step = "load"
    /\ mode' = IF current = NoneLoaded THEN "down" ELSE "running"
    /\ step' = "idle" /\ moving' = 0
    /\ UNCHANGED <<fsVars, current, failure, countVars>>

-----------------------------------------------------------------------------
Kill ==
    /\ mode # "down"
    /\ crashes < MaxCrashes
    /\ crashes' = crashes + 1
    /\ mode' = "down" /\ step' = "idle" /\ moving' = 0 /\ failure' = FALSE
    /\ current' = NoneLoaded
    /\ cutoff' = IF step = "copying" THEN cutoff \cup {moving} ELSE cutoff
    /\ UNCHANGED <<fsVars, drops, delivered, swept>>

\* The container is started again.
Boot ==
    /\ mode = "down"
    /\ mode' = "starting" /\ step' = "promote" /\ failure' = FALSE
    /\ UNCHANGED <<fsVars, current, moving, countVars>>

Promote(s) ==
    \/ \E ok \in BOOLEAN, left \in {{}, {"part"}, {"full"}} : PromoteStale(s, ok, left)
    \/ PromoteRename(s) \/ PromoteCopy(s)

LifeNext ==
    \/ \E d \in Dates : Drop(d)
    \/ Tick \/ PromoteNothing \/ PromoteError
    \/ \E s \in Dates : Promote(s)
    \/ \E ok \in BOOLEAN : Copy(ok) \/ Remove(ok)
    \/ ArchiveOthers
    \/ \E d \in Dates : Load(d)
    \/ LoadError
    \/ Kill \/ Boot

\* The ticker keeps firing and the container is restarted; an operation that
\* is retried every tick is not assumed to fail for ever.
LifeFairness ==
    /\ WF_lifeVars(Tick \/ ArchiveOthers \/ Boot)
    /\ WF_lifeVars(PromoteNothing \/ PromoteError \/ \E s \in Dates : Promote(s))
    /\ WF_lifeVars(\E ok \in BOOLEAN : Copy(ok) \/ Remove(ok))
    /\ WF_lifeVars(LoadError \/ \E d \in Dates : Load(d))
    /\ SF_lifeVars(\E s \in Dates : PromoteRename(s) \/ PromoteCopy(s))
    /\ SF_lifeVars(\E d \in Dates : Load(d))

LifeSpec == LifeInit /\ [][LifeNext]_lifeVars /\ LifeFairness

-----------------------------------------------------------------------------
(* Properties                                                              *)

\* "superseded files are moved here and kept indefinitely for audit": a whole
\* copy of every delivered file is in one of the three directories, whatever
\* move failed or was cut off.
DeliveredKept ==
    \A d \in delivered :
        d \in staging \/ active[d] = "full" \/ "full" \in archived[d]

\* The newest date in active never goes back, through failed moves and
\* crashes, so a restart never loads an older list than was there before.
NewestNeverBack ==
    [][\A d \in InActive : \E e \in InActive' : d <= e]_lifeVars

\* What is in force is never newer than what a restart would load.
InForceOnDisk == current.date # 0 => \E d \in InActive : current.date <= d

\* A dropped list takes effect: eventually one at least as new is in force, and
\* whole.  There are two ways around it, and no others: the promotion of an older
\* list that was under way swept it into archived, and the prefix of a copy that
\* was cut off is in force in its place.
WholeOrCutOff == current.content = "full" \/ current.date \in cutoff
StagedTakesEffect ==
    \A d \in Dates : (d \in staging) ~> ((current.date >= d /\ WholeOrCutOff) \/ d \in swept)

\* What promote.go says of active: "the single directory the loader reads from;
\* newest date wins".  A dropped list or a newer one comes into force.
NewestWins == \A d \in Dates : (d \in staging) ~> (current.date >= d)

\* The inductive invariant: while a file is being promoted it is the newest of
\* active, and its source is removed only once the copy is whole.
MoveInProgress ==
    step \in {"copying", "remove", "archive"} =>
        /\ IsNewest(moving, InActive)
        /\ step # "copying" => active[moving] = "full"
LifeInv == LifeTypeOK /\ DeliveredKept /\ InForceOnDisk /\ MoveInProgress
=============================================================================
