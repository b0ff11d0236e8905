---------------------------- MODULE ListDelivery ----------------------------
(***************************************************************************)
(* How a LADD list gets into force in the cluster: the operator uploads it *)
(* to ladd-admin, whose handlers replace the Secret "ladd"; the kubelet    *)
(* brings the Secret to the directory mounted in the filter's pod; and the *)
(* filter's reloader picks it up from there.  The mount is read-only and   *)
(* has no staging directory, so Promote does nothing here.                 *)
(*                                                                         *)
(* An upload stands for the list it carries; the name of its file is       *)
(* abstracted to the date in it, so lists of equal date have equal names.  *)
(***************************************************************************)
EXTENDS Naturals, Sequences

CONSTANTS
    Upload,         \* the upload requests
    Date,           \* the date in the name of an upload's file, 0 if it is not named
                    \* LADD_Industry_Filter_..._YYYYMMDD.txt
    Entries,        \* the number of identifiers in its list
    Decodable, Signed, Readable, \* uploads that are JSON, signed by the operator,
                    \* and encrypted to the server
    MaxAge,         \* LADD_MAX_AGE in days; 0 is no limit
    MaxDay,         \* bound: days
    MaxApiErrors,   \* bound: failed API calls, lost clients, deaths of ladd-admin
    MaxStarts       \* bound: starts of the filter

ASSUME DeliveryAssumption ==
    /\ Date \in [Upload -> Nat] /\ Entries \in [Upload -> Nat]
    /\ Decodable \subseteq Upload /\ Signed \subseteq Upload /\ Readable \subseteq Upload
    /\ MaxAge \in Nat /\ MaxDay \in Nat \ {0} /\ MaxApiErrors \in Nat /\ MaxStarts \in Nat
    /\ 0 \notin Upload

VARIABLES
    today,      \* the wall clock, in days
    status,     \* per upload: where its handler is, or what it answered
    base,       \* per upload: the resourceVersion its Get returned
    history,    \* the lists the Secret held; its length is the resourceVersion
    mounted,    \* the list in the filter's directory, 0 for none
    chosen,     \* the name newestDated returned to the reloader, 0 for none
    force,      \* the list in force, 0 for none
    effective,  \* effectiveDate in the store
    apiErrors, starts

admin == <<status, base, history>>
filter == <<chosen, force, effective, starts>>
deliveryVars == <<today, admin, mounted, filter, apiErrors>>

StatusCode == {"OK", "BadRequest", "Unauthorized", "Unprocessable", "Error"}
Phase == {"unsent", "received", "valid", "got", "lost"}
Handling == {"received", "valid", "got"}

\* The Secret begins without a list.
DeliveryInit ==
    /\ today = 1
    /\ status = [u \in Upload |-> "unsent"] /\ base = [u \in Upload |-> 0]
    /\ history = <<>> /\ mounted = 0
    /\ chosen = 0 /\ force = 0 /\ effective = 0
    /\ apiErrors = 0 /\ starts = 0

\* What the Secret holds.
Current == IF history = <<>> THEN 0 ELSE history[Len(history)]

DeliveryTypeOK ==
    /\ today \in 1..MaxDay
    /\ status \in [Upload -> Phase \cup StatusCode]
    /\ base \in [Upload -> Nat] /\ history \in Seq(Upload)
    /\ mounted \in Upload \cup {0} /\ force \in Upload \cup {0}
    /\ {chosen, effective} \subseteq {0} \cup {Date[u] : u \in Upload}
    /\ apiErrors \in 0..MaxApiErrors /\ starts \in 0..MaxStarts

-----------------------------------------------------------------------------
(* ladd-admin: one goroutine per request. *)

Verify(u) == u \in Signed
Decrypt(u) == u \in Readable

\* validate.Check, in the order of its conditions: the name has a date, the date
\* is neither ahead nor too old, the list is not empty.
Check(u) ==
    /\ Date[u] > 0
    /\ Date[u] <= today
    /\ MaxAge > 0 => today - Date[u] <= MaxAge
    /\ Entries[u] > 0

\* The operator runs ladd-upload.
Post(u) ==
    /\ status[u] = "unsent"
    /\ status' = [status EXCEPT ![u] = "received"]
    /\ UNCHANGED <<today, base, history, mounted, filter, apiErrors>>

\* Replace: the Secret's data becomes this one file.
Put(u) == history' = Append(history, u)

\* upload up to the Secret: the first check that fails has its answer.
Reply(u) ==
    IF u \notin Decodable THEN "BadRequest"
    ELSE IF ~Verify(u) THEN "Unauthorized"
    ELSE IF ~Decrypt(u) THEN "BadRequest"
    ELSE IF ~Check(u) THEN "Unprocessable" ELSE "valid"

Validate(u) ==
    /\ status[u] = "received"
    /\ status' = [status EXCEPT ![u] = Reply(u)]
    /\ UNCHANGED <<today, base, history, mounted, filter, apiErrors>>

\* Replace: Get returns the Secret with its resourceVersion.
GetSecret(u) ==
    /\ status[u] = "valid"
    /\ status' = [status EXCEPT ![u] = "got"] /\ base' = [base EXCEPT ![u] = Len(history)]
    /\ UNCHANGED <<today, history, mounted, filter, apiErrors>>

\* Update is refused when the Secret has changed since Get.
UpdateSecret(u) ==
    /\ status[u] = "got"
    /\ IF base[u] = Len(history)
       THEN Put(u) /\ status' = [status EXCEPT ![u] = "OK"]
       ELSE UNCHANGED history /\ status' = [status EXCEPT ![u] = "Error"]
    /\ UNCHANGED <<today, base, mounted, filter, apiErrors>>

\* Get or Update fails, also because the client has given up after 30 seconds and
\* the request's context is cancelled; a failed Update may have been made.
ApiError(u) ==
    /\ apiErrors < MaxApiErrors /\ status[u] \in {"valid", "got"}
    /\ IF status[u] = "got" /\ base[u] = Len(history) THEN Put(u) \/ UNCHANGED history
                                                  ELSE UNCHANGED history
    /\ status' = [status EXCEPT ![u] = "Error"]
    /\ apiErrors' = apiErrors + 1
    /\ UNCHANGED <<today, base, mounted, filter>>

\* The server dies and takes the requests under way with it; an Update that was on
\* its way may still be made.
AdminCrash ==
    /\ apiErrors < MaxApiErrors
    /\ \E u \in Upload : status[u] \in Handling
    /\ status' = [u \in Upload |-> IF status[u] \in Handling THEN "lost" ELSE status[u]]
    /\ \/ UNCHANGED history
       \/ \E u \in Upload : status[u] = "got" /\ base[u] = Len(history) /\ Put(u)
    /\ apiErrors' = apiErrors + 1
    /\ UNCHANGED <<today, base, mounted, filter>>

-----------------------------------------------------------------------------
(* The kubelet and the filter. *)

\* The kubelet swaps the directory for the Secret's present content.
Sync ==
    /\ mounted # Current
    /\ mounted' = Current
    /\ UNCHANGED <<today, admin, filter, apiErrors>>

\* LoadLatest of the reloader: newestDated picks the name of the file.
Choose ==
    /\ chosen = 0
    /\ chosen' = IF mounted = 0 THEN 0 ELSE Date[mounted]
    /\ UNCHANGED <<today, admin, mounted, force, effective, starts, apiErrors>>

\* Mutant: whatever is in the directory now is loaded under the date chosen.
LoadWhateverIsThere ==
    /\ chosen # 0
    /\ IF mounted # 0 /\ chosen > effective
       THEN force' = mounted /\ effective' = chosen
       ELSE UNCHANGED <<force, effective>>
    /\ chosen' = 0
    /\ UNCHANGED <<today, admin, mounted, starts, apiErrors>>

\* Mutant: a list is loaded only by a start.
LoadNever ==
    /\ chosen # 0
    /\ chosen' = 0
    /\ UNCHANGED <<today, admin, mounted, force, effective, starts, apiErrors>>

\* loadFile opens it by that name.  If the directory has been swapped the file is
\* another of the same name, or it is gone and the current list is kept.  Reload
\* takes only a list that is newer than the one in force.
LoadList ==
    /\ chosen # 0
    /\ IF mounted # 0 /\ Date[mounted] = chosen /\ chosen > effective
       THEN force' = mounted /\ effective' = chosen
       ELSE UNCHANGED <<force, effective>>
    /\ chosen' = 0
    /\ UNCHANGED <<today, admin, mounted, starts, apiErrors>>

\* The pod is restarted; main loads what is mounted, whatever its date.  A file that
\* is swapped away in the middle leaves the filter without a list.
FilterStart ==
    /\ starts < MaxStarts
    /\ \/ force' = mounted /\ effective' = IF mounted = 0 THEN 0 ELSE Date[mounted]
       \/ force' = 0 /\ effective' = 0
    /\ chosen' = 0 /\ starts' = starts + 1
    /\ UNCHANGED <<today, admin, mounted, apiErrors>>

NextDay ==
    /\ today < MaxDay
    /\ today' = today + 1
    /\ UNCHANGED <<admin, mounted, filter, apiErrors>>

Handle(u) == Validate(u) \/ GetSecret(u) \/ UpdateSecret(u)
Reload == Choose \/ LoadList

DeliveryNext ==
    \/ \E u \in Upload : Post(u) \/ Handle(u) \/ ApiError(u)
    \/ AdminCrash \/ Sync \/ Choose \/ LoadList \/ FilterStart \/ NextDay

DeliverySafety == DeliveryInit /\ [][DeliveryNext]_deliveryVars

\* Handlers are scheduled, the kubelet syncs the mount and the ticker fires.
DeliverySpec ==
    /\ DeliverySafety
    /\ WF_deliveryVars(\E u \in Upload : Handle(u))
    /\ WF_deliveryVars(Sync) /\ WF_deliveryVars(Reload)

-----------------------------------------------------------------------------
\* The Secret, the mount and the filter only ever hold a list that the operator
\* signed and that passed validation: not empty, and not ahead of the clock, so
\* that it cannot shut out the lists that follow it.
OnlyGenuine ==
    \A u \in {history[i] : i \in DOMAIN history} \cup ({mounted, force} \ {0}) :
        u \in Signed \cap Readable /\ Entries[u] > 0 /\ Date[u] \in 1..today

\* A request that is answered with a rejection never touched the Secret.
RejectedUntouched ==
    \A i \in DOMAIN history : status[history[i]] \notin {"BadRequest", "Unauthorized", "Unprocessable"}

\* Of requests that read the same Secret at most one changes it, and only that
\* one is answered 200: no accepted upload is overwritten unseen.
AcceptedOnce ==
    /\ \A u \in Upload : status[u] = "OK" => \E i \in DOMAIN history : history[i] = u
    /\ \A i, j \in DOMAIN history : i # j => base[history[i]] # base[history[j]]

\* The date in force is the date of the list in force, although the file's name
\* and its content are read at different moments.
DateOfForce == effective = IF force = 0 THEN 0 ELSE Date[force]

\* Between rerestarts the filter only ever goes on to a newer list, although an older
\* one may be uploaded: a corrected list of the same date waits for a restart.
SwapsOnlyForward ==
    [][effective' # effective \/ force' # force
        => effective' > effective \/ starts' # starts]_deliveryVars

\* If the Secret keeps a list, the filter comes to have it in force, or has one of
\* the same or a later date in force.
StoredTakesEffect ==
    \A u \in Upload : <>[](Current = u) => <>[](force = u \/ effective >= Date[u])

\* From upload to filter only genuine lists get into force, rejected ones leave no trace,
\* accepted ones are not overwritten unseen, and the date in force is the list's own.
\* It is inductive with this: each version of the Secret was written by the one request
\* whose Get returned the version before, and a handler past validation has a genuine
\* upload.
DeliveryInv ==
    /\ DeliveryTypeOK /\ OnlyGenuine /\ RejectedUntouched /\ AcceptedOnce /\ DateOfForce
    /\ \A u \in Upload : base[u] <= Len(history)
    /\ \A i \in DOMAIN history : base[history[i]] = i - 1 /\ status[history[i]] \in {"OK", "Error", "lost"}
    /\ \A u \in Upload :
          status[u] \in {"valid", "got"} => u \in Signed \cap Readable /\ Entries[u] > 0
                                  /\ Date[u] \in 1..today
=============================================================================
