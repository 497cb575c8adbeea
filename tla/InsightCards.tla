----------------------------- MODULE InsightCards -----------------------------
(***************************************************************************)
(* The "noticed this" cards: an hourly tick that sweeps the overdue bills  *)
(* and then scans the households, each at most once a day; the scan a user *)
(* asks for; and the user, who dismisses cards.                            *)
(*                                                                         *)
(* When a household was last scanned is not stored: it is when its newest  *)
(* card was made, by whomever.  A tick does not wait for the one before.   *)
(* The generator's limits (three alerts, five warranties) are left out:    *)
(* Signals are those it would propose.  Ages are in hours, up to Gap.      *)
(***************************************************************************)
EXTENDS Integers, FiniteSets

CONSTANTS
    Houses, Signals, HouseOf,
    Broken,           \* households whose generation always fails
    Ticks, Calls,     \* runs of tick() and of POST .../cards/regenerate
    Gap,              \* MIN_INTERVAL_HOURS
    MaxFailures       \* bound: failing statements and crashes

Runs == Ticks \cup Calls
NoJob == [left |-> {}, house |-> "none", batch |-> {}]

InsightsOK ==
    /\ HouseOf \in [Signals -> Houses] /\ Broken \subseteq Houses
    /\ Gap \in Nat \ {0} /\ MaxFailures \in Nat

VARIABLES
    live,             \* the signals the generator would find now
    open,             \* those with a card that is not dismissed
    overdue,          \* households with a bill past due that has no card yet
    age,              \* hours since the household's newest card
    pc, job,
    failures
vars == <<live, open, overdue, age, pc, job, failures>>

TypeOK ==
    /\ live \subseteq Signals /\ open \subseteq Signals /\ overdue \subseteq Houses
    /\ age \in [Houses -> 0..Gap]
    /\ \A r \in Runs :
         /\ pc[r] = "idle" => job[r] = NoJob
         /\ \A s \in job[r].batch : HouseOf[s] = job[r].house
    /\ failures \in 0..MaxFailures

Init ==
    /\ live = {} /\ open = {} /\ overdue = {} /\ age = [h \in Houses |-> Gap]
    /\ pc = [r \in Runs |-> "idle"] /\ job = [r \in Runs |-> NoJob] /\ failures = 0

Become(r, stage, j) ==
    pc' = [pc EXCEPT ![r] = stage] /\ job' = [job EXCEPT ![r] = j]
Finish(r) == Become(r, "idle", NoJob)

-----------------------------------------------------------------------------
(* Time, the bills and what there is to notice.                            *)

Hour ==
    /\ age' = [h \in Houses |-> IF age[h] < Gap THEN age[h] + 1 ELSE Gap]
    /\ UNCHANGED <<live, open, overdue, pc, job, failures>>

BillFalls(h) ==
    /\ overdue' = overdue \cup {h}
    /\ UNCHANGED <<live, open, age, pc, job, failures>>

Arise(s) ==
    /\ live' = live \cup {s} /\ UNCHANGED <<open, overdue, age, pc, job, failures>>
Pass(s) ==
    /\ live' = live \ {s} /\ UNCHANGED <<open, overdue, age, pc, job, failures>>

Dismiss(s) ==
    /\ open' = open \ {s} /\ UNCHANGED <<live, overdue, age, pc, job, failures>>

-----------------------------------------------------------------------------
(* A tick, and the scan of a household.                                    *)

Tick(r) ==
    /\ pc[r] = "idle" /\ Become(r, "sweep", NoJob)
    /\ UNCHANGED <<live, open, overdue, age, failures>>

\* The sweep's cards count for the gate.
Sweep(r) ==
    /\ pc[r] = "sweep" /\ Become(r, "tenants", [NoJob EXCEPT !.left = Houses])
    /\ overdue' = {} /\ age' = [h \in Houses |-> IF h \in overdue THEN 0 ELSE age[h]]
    /\ UNCHANGED <<live, open, failures>>

\* A sweep that fails does not stop the tick.
SweepFails(r) ==
    /\ pc[r] = "sweep" /\ failures < MaxFailures /\ failures' = failures + 1
    /\ Become(r, "tenants", [NoJob EXCEPT !.left = Houses])
    /\ UNCHANGED <<live, open, overdue, age>>

Found(h) == {s \in live : HouseOf[s] = h}

\* A mutant of Failed: one household's failure ends the tick.
FailedAll(r, h) == Finish(r)
Failed(r, h) == Become(r, "tenants", [job[r] EXCEPT !.left = @ \ {h}])

Scan(r, h) ==
    /\ pc[r] = "tenants" /\ h \in job[r].left
    /\ IF age[h] < Gap THEN Become(r, "tenants", [job[r] EXCEPT !.left = @ \ {h}])
       ELSE IF h \in Broken THEN Failed(r, h)
       ELSE Become(r, "insert", [left |-> job[r].left \ {h}, house |-> h,
                                 batch |-> Found(h)])
    /\ UNCHANGED <<live, open, overdue, age, failures>>

\* ON CONFLICT DO NOTHING: one open card for each signal.
Insert(r, s) ==
    /\ pc[r] = "insert" /\ s \in job[r].batch
    /\ Become(r, "insert", [job[r] EXCEPT !.batch = @ \ {s}])
    /\ open' = open \cup {s}
    /\ age' = IF s \in open THEN age ELSE [age EXCEPT ![HouseOf[s]] = 0]
    /\ UNCHANGED <<live, overdue, failures>>

InsertFails(r, s) ==
    /\ pc[r] = "insert" /\ s \in job[r].batch
    /\ failures < MaxFailures /\ failures' = failures + 1
    /\ Become(r, "insert", [job[r] EXCEPT !.batch = @ \ {s}])
    /\ UNCHANGED <<live, open, overdue, age>>

Inserted(r) ==
    /\ pc[r] = "insert" /\ job[r].batch = {}
    /\ IF r \in Ticks THEN Become(r, "tenants", [NoJob EXCEPT !.left = job[r].left])
       ELSE Finish(r)
    /\ UNCHANGED <<live, open, overdue, age, failures>>

TickEnds(r) ==
    /\ pc[r] = "tenants" /\ job[r].left = {} /\ Finish(r)
    /\ UNCHANGED <<live, open, overdue, age, failures>>

\* The user's scan has no gate.
Regenerate(r, h) ==
    /\ pc[r] = "idle" /\ h \notin Broken
    /\ Become(r, "insert", [NoJob EXCEPT !.house = h, !.batch = Found(h)])
    /\ UNCHANGED <<live, open, overdue, age, failures>>

\* A statement of the tick outside the households' scans fails, or the process
\* stops and another one takes its place.
Crash(r) ==
    /\ pc[r] # "idle" /\ failures < MaxFailures /\ failures' = failures + 1
    /\ Finish(r)
    /\ UNCHANGED <<live, open, overdue, age>>

-----------------------------------------------------------------------------

\* What a run does by itself; a tick's interval fires again.
Continue(r) ==
    \/ r \in Ticks /\ Tick(r)
    \/ Sweep(r) \/ \E h \in Houses : Scan(r, h)
    \/ \E s \in Signals : Insert(r, s)
    \/ Inserted(r) \/ TickEnds(r)

Next ==
    \/ Hour \/ \E h \in Houses : BillFalls(h)
    \/ \E s \in Signals : Arise(s) \/ Pass(s) \/ Dismiss(s)
    \/ \E r \in Calls, h \in Houses : Regenerate(r, h)
    \/ \E r \in Runs : \/ Continue(r) \/ SweepFails(r) \/ Crash(r)
                       \/ \E s \in Signals : InsertFails(r, s)

\* The clock runs, the interval fires, and what a run awaits is answered.
FairSpec ==
    /\ Init /\ [][Next]_vars
    /\ WF_vars(Hour)
    /\ \A r \in Runs : WF_vars(Continue(r))

-----------------------------------------------------------------------------

(***************************************************************************)
(* A signal that lasts has an open card again and again, however often it  *)
(* is dismissed, whatever other households' scans do (insights-scheduler   *)
(* .ts:67 "Per-tenant failure shouldn't take down the whole tick") and     *)
(* whatever resets the household's age; but for a household with bills     *)
(* falling due without end, whose own cards put its scan off.              *)
(***************************************************************************)
Settled(s) == s \in live /\ HouseOf[s] \notin Broken \cup overdue
SignalSurfaces == \A s \in Signals : <>[]Settled(s) => []<>(s \in open)

=============================================================================
