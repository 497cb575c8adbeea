---------------------------- MODULE RecurringReview ----------------------------
(***************************************************************************)
(* The recurring charges and incomes a household is asked about:           *)
(* recurring_suggestions, filled by POST /api/recurring/detect and         *)
(* POST /api/subscriptions/scan, answered by the routes under              *)
(* /api/recurring/suggestions.                                             *)
(*                                                                         *)
(* Both detections look at the rows there are and insert, one statement    *)
(* for each, what is missing; a scan then asks a model about what is       *)
(* pending, and the user may answer while it thinks.  A confirmation looks *)
(* at the row first and writes in a transaction that does not look again.  *)
(* All households share the table and its unique index.                    *)
(***************************************************************************)
EXTENDS Integers, Sequences, FiniteSets

CONSTANTS
    Houses, Keys,
    BillKeys,         \* keys of kind 'bill', the only ones a scan takes
    Patterns,         \* what detectRecurring finds in a household's transactions
    Requests,
    MaxRows,          \* bound: suggestions ever made
    MaxStarts         \* bound: requests ever started

NoJob == [house |-> "none", keys |-> {}, ids |-> {}, scan |-> FALSE]

ReviewOK ==
    /\ IsFiniteSet(Houses) /\ BillKeys \subseteq Keys
    /\ Patterns \in [Houses -> SUBSET Keys]
    /\ MaxRows \in Nat /\ MaxStarts \in Nat

VARIABLES
    rows,             \* recurring_suggestions; made counts the bills and
                      \* incomes inserted for a row
    pc, job,          \* of a request: the keys to insert, the rows in hand
    starts,
    stale,            \* history: household and key that two detections had
                      \* both found missing
    crossed,          \* history: rows that two confirmations had both read
    refused           \* history: for whom an INSERT failed, and whose row stood
                      \* in its way
vars == <<rows, pc, job, starts, stale, crossed, refused>>

Ids == 1..Len(rows)
Open == {"pending", "snoozed"}

TypeOK ==
    /\ Len(rows) <= MaxRows /\ starts \in 0..MaxStarts
    /\ \A i \in Ids : /\ rows[i].house \in Houses /\ rows[i].key \in Keys
                      /\ rows[i].status \in Open \cup {"confirmed", "rejected"}
    /\ \A r \in Requests :
         /\ pc[r] = "idle" => job[r] = NoJob
         /\ job[r].keys \subseteq Keys /\ job[r].ids \subseteq Ids

Init ==
    /\ rows = <<>> /\ pc = [r \in Requests |-> "idle"]
    /\ job = [r \in Requests |-> NoJob] /\ starts = 0
    /\ stale = {} /\ crossed = {} /\ refused = {}

Start(r, stage, j) ==
    /\ pc[r] = "idle" /\ starts < MaxStarts /\ starts' = starts + 1
    /\ pc' = [pc EXCEPT ![r] = stage] /\ job' = [job EXCEPT ![r] = j]
Become(r, stage, j) ==
    /\ pc' = [pc EXCEPT ![r] = stage] /\ job' = [job EXCEPT ![r] = j]
    /\ starts' = starts
Finish(r) == Become(r, "idle", NoJob)

\* recurring_suggestions_active_unique leaves the household out.
Conflicting(k) == {i \in Ids : rows[i].key = k /\ rows[i].status # "rejected"}

-----------------------------------------------------------------------------
(* Detection and the scan.                                                 *)

Detect(r, h, scan) ==
    /\ LET found == IF scan THEN Patterns[h] \cap BillKeys ELSE Patterns[h]
           seen == {rows[i].key : i \in {i \in Ids : rows[i].house = h}}
       IN Start(r, "insert", [NoJob EXCEPT !.house = h, !.keys = found \ seen,
                                           !.scan = scan])
    /\ UNCHANGED <<rows, stale, crossed, refused>>

Alike(r, k) == {q \in Requests \ {r} : /\ pc[q] = "insert" /\ k \in job[q].keys
                                       /\ job[q].house = job[r].house}

Insert(r, k) ==
    /\ pc[r] = "insert" /\ k \in job[r].keys /\ Conflicting(k) = {}
    /\ Len(rows) < MaxRows
    /\ rows' = Append(rows, [house |-> job[r].house, key |-> k, status |-> "pending",
                             refined |-> FALSE, made |-> 0])
    /\ Become(r, "insert", [job[r] EXCEPT !.keys = @ \ {k}])
    /\ stale' = IF Alike(r, k) = {} THEN stale ELSE stale \cup {<<job[r].house, k>>}
    /\ UNCHANGED <<crossed, refused>>

\* The unique index refuses the row: the request ends, and what it had still
\* to insert is not inserted.
InsertFails(r, k) ==
    /\ pc[r] = "insert" /\ k \in job[r].keys /\ Conflicting(k) # {}
    /\ Finish(r)
    /\ refused' = refused \cup {<<job[r].house, rows[i].house>> : i \in Conflicting(k)}
    /\ UNCHANGED <<rows, stale, crossed>>

\* The scan's list of rows for the model: none, and no model asked, if the
\* provider is not Claude.
Inserted(r) ==
    /\ pc[r] = "insert" /\ job[r].keys = {}
    /\ LET h == job[r].house
           asked == {i \in Ids : /\ rows[i].house = h /\ rows[i].key \in BillKeys
                                 /\ rows[i].status = "pending" /\ ~rows[i].refined}
       IN \/ Finish(r)
          \/ /\ job[r].scan /\ asked # {}
             /\ Become(r, "ask", [NoJob EXCEPT !.house = h, !.ids = asked])
    /\ UNCHANGED <<rows, stale, crossed, refused>>

\* A mutant of Waiting: the verdict is written to whatever the row has become.
InHand(i) == i \in Ids
Waiting(i) == rows[i].status = "pending"

\* The model keeps some; the others, those it says nothing about among them,
\* are rejected.  The writes are one transaction.
Verdicts(r) ==
    /\ pc[r] = "ask"
    /\ \E kept \in SUBSET job[r].ids :
         rows' = [i \in Ids |->
                    IF i \notin job[r].ids \/ ~Waiting(i) THEN rows[i]
                    ELSE [rows[i] EXCEPT !.refined = TRUE,
                            !.status = IF i \in kept THEN @ ELSE "rejected"]]
    /\ Finish(r)
    /\ UNCHANGED <<stale, crossed, refused>>

-----------------------------------------------------------------------------
(* The user's answers: to one suggestion or to several at once.            *)

\* The rows as they are read.  Some may not yield a date or a frequency.
ConfirmRead(r, h, S) ==
    /\ S # {} /\ \A i \in S : rows[i].house = h /\ rows[i].status \in Open
    /\ Start(r, "confirm", [NoJob EXCEPT !.house = h, !.ids = S])
    /\ UNCHANGED <<rows, stale, crossed, refused>>

\* One transaction for each row: the bill or income, and the row's status.
\* Of a row rejected meanwhile, another row may have taken the key.
Confirm(r, i) ==
    /\ pc[r] = "confirm" /\ i \in job[r].ids
    /\ IF Conflicting(rows[i].key) \subseteq {i}
       THEN /\ rows' = [rows EXCEPT ![i].status = "confirmed", ![i].made = @ + 1]
            /\ IF job[r].ids = {i} THEN Finish(r)
               ELSE Become(r, "confirm", [job[r] EXCEPT !.ids = @ \ {i}])
       ELSE rows' = rows /\ Finish(r)
    /\ crossed' = IF \E q \in Requests \ {r} : pc[q] = "confirm" /\ i \in job[q].ids
                  THEN crossed \cup {i} ELSE crossed
    /\ UNCHANGED <<stale, refused>>

\* One UPDATE that looks at the status itself.
Answer(h, S, status) ==
    /\ S # {} /\ \A i \in S : rows[i].house = h /\ rows[i].status \in Open
    /\ status = "snoozed" => \E i \in S : rows[i].status = "pending"
    /\ rows' = [i \in Ids |-> IF i \in S THEN [rows[i] EXCEPT !.status = status]
                                         ELSE rows[i]]
    /\ UNCHANGED <<pc, job, starts, stale, crossed, refused>>
Reject(h, S) == Answer(h, S, "rejected")
Snooze(h, S) == Answer(h, S, "snoozed")

\* The model fails, a statement fails or the process stops.
Fail(r) == pc[r] # "idle" /\ Finish(r) /\ UNCHANGED <<rows, stale, crossed, refused>>

Next ==
    \/ \E r \in Requests :
         \/ \E h \in Houses, scan \in BOOLEAN : Detect(r, h, scan)
         \/ \E k \in Keys : Insert(r, k) \/ InsertFails(r, k)
         \/ Inserted(r) \/ Verdicts(r) \/ Fail(r)
         \/ \E h \in Houses : \E S \in SUBSET Ids : ConfirmRead(r, h, S)
         \/ \E i \in Ids : Confirm(r, i)
    \/ \E h \in Houses : \E S \in SUBSET Ids : Reject(h, S) \/ Snooze(h, S)

Spec == Init /\ [][Next]_vars

-----------------------------------------------------------------------------

(***************************************************************************)
(* The user's answer stands.  A suggestion has a bill exactly when it is   *)
(* confirmed, and one only, whatever verdict of the model or rejection     *)
(* comes after it, unless two confirmations had read it; and a household   *)
(* is not asked again about what it has rejected, unless two detections    *)
(* were under way.  (recurring.ts:165 "Suggestion is already ...";         *)
(* migration 007: "Rejected entries are kept so the detector doesn't       *)
(* re-surface them".)                                                      *)
(***************************************************************************)
AnswersStand ==
    /\ \A i \in Ids : /\ rows[i].made > 0 <=> rows[i].status = "confirmed"
                      /\ rows[i].made > 1 => i \in crossed
    /\ \A i, j \in Ids :
         (i # j /\ rows[i].house = rows[j].house /\ rows[i].key = rows[j].key)
           => <<rows[i].house, rows[i].key>> \in stale

(***************************************************************************)
(* recurring.ts:63, of the look before the INSERT: "Other tenants' rows    *)
(* with the same key don't suppress this tenant's suggestions."            *)
(***************************************************************************)
OthersDontSuppress == \A p \in refused : p[1] = p[2]

=============================================================================
