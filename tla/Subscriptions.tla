----------------------------- MODULE Subscriptions -----------------------------
(***************************************************************************)
(* What a household has paid for and what it has used: the Stripe webhook  *)
(* (routes/billing.ts, billing/webhook-handlers.ts), the plan in force and *)
(* the metered features (auth/entitlements.ts), and the bank connections   *)
(* (routes/plaid.ts, routes/ofx-dc.ts), for one household.                 *)
(*                                                                         *)
(* Stripe delivers an event again until it is answered with 200: in any    *)
(* order, several times, two at once.                                      *)
(***************************************************************************)
EXTENDS Integers, Sequences, FiniteSets

CONSTANTS
    Requests,
    Script,           \* the events Stripe sends, in this order
    Quota,            \* of each plan: calls in a period, or Unlimited
    Connections,      \* of each plan: bankConnectionCap
    Amounts,          \* calls a metered request may ask for at once
    Grants,           \* plans the operator may give away
    MaxTime,          \* bound: the clock
    MaxStarts,        \* bound: requests ever started
    MaxFailures       \* bound: crashes, lost replies, handlers that throw, calls
                      \* of Stripe that fail

Unlimited == 99
NoEnd == 0
Month == 2            \* in units of GRACE_DAYS_AFTER_PAST_DUE
Grace == 1
NoSub == [plan |-> "none", status |-> "none", ends |-> NoEnd, atEnd |-> FALSE,
          known |-> FALSE]     \* known: there is a stripe_subscription_id
Events == 1..Len(Script)
NoJob == [event |-> 0, n |-> 0, cap |-> 0, period |-> 0, raced |-> FALSE]

Event == [kind : {"upsert", "deleted", "invoice"}, plan : DOMAIN Quota,
          status : {"trialing", "active", "past_due", "canceled"},
          ends : NoEnd..(MaxTime + 2 * Month), atEnd : BOOLEAN,
          fit : BOOLEAN]    \* a household, a plan and a status we know; of an
                            \* invoice, a customer with an address
Plans == Grants \cup {Script[e].plan : e \in Events}

SubscriptionsOK ==
    /\ IsFiniteSet(Requests)
    /\ MaxTime \in Nat /\ MaxStarts \in Nat /\ MaxFailures \in Nat
    /\ Script \in Seq(Event) /\ Grants \subseteq DOMAIN Quota /\ Plans # {}
    /\ \A q \in DOMAIN Quota : Quota[q] \in Nat /\ Connections[q] \in Nat
    /\ Amounts \subseteq Nat \ {0}

VARIABLES
    now,          \* the clock, in units of Grace
    sent,         \* how many events Stripe has sent
    claimed,      \* stripe_processed_events
    acked,        \* events answered with 200
    sub,          \* subscriptions
    counter,      \* usage_counters of one feature, by period_start
    links,        \* ofx_dc_connections and plaid_items
    pc, job,
    starts, failures,
    (***********************************************************************)
    (* History: nothing in the code reads these.                           *)
    (***********************************************************************)
    applied,      \* events in the order their rows were written
    doubted,      \* events whose write was done and answered with an error
    lost,         \* events that died after the claim, or whose claim was
                  \* withdrawn after another delivery was told it is known
    granted,      \* units granted, by period
    leaked,       \* units refused whose request died before giving them back
    raced,        \* connections counted before another one was inserted
    declined      \* events whose handler wrote nothing and did not throw

stripe == <<sent, claimed, acked, sub>>
usage == <<counter, granted, leaked>>
bank == <<links, raced>>
bounds == <<starts, failures>>
trail == <<applied, doubted, lost, declined>>
vars == <<now, stripe, usage, bank, pc, job, bounds, trail>>

Periods == (1 - Month)..(MaxTime + Month)
Stages == {"idle", "handle", "answer", "unclaim", "resync", "period", "bump", "unbump", "link"}

TypeOK ==
    /\ sent \in 0..Len(Script) /\ acked \subseteq 1..sent
    /\ claimed \subseteq 1..sent
    /\ sub = NoSub \/ sub.plan \in Grants \cup {Script[i].plan : i \in 1..sent}
    /\ counter \in [Periods -> Nat]
    /\ pc \in [Requests -> Stages]
    /\ \A r \in Requests : pc[r] = "idle" <=> job[r] = NoJob
    /\ \A r \in Requests :     \* who handles an event holds its claim, alone
         pc[r] \in {"handle", "answer", "unclaim"} =>
           /\ job[r].event \in claimed
           /\ \A q \in Requests \ {r} : pc[q] = "resync" \/ job[q].event # job[r].event

Init ==
    /\ now = 0 /\ sent = 0 /\ claimed = {} /\ acked = {} /\ sub = NoSub
    /\ counter = [p \in Periods |-> 0] /\ links = 0
    /\ pc = [r \in Requests |-> "idle"] /\ job = [r \in Requests |-> NoJob]
    /\ starts = 0 /\ failures = 0
    /\ applied = <<>> /\ doubted = {} /\ lost = {}
    /\ granted = [p \in Periods |-> 0] /\ leaked = [p \in Periods |-> 0] /\ raced = 0
    /\ declined = {}

-----------------------------------------------------------------------------

\* effectivePlan: a trial or a paid plan, a late payment within its grace, a
\* cancellation that is to take effect at the end of the period.
Entitled ==
    \/ sub.status \in {"trialing", "active"}
    \/ sub.status = "past_due" /\ (sub.ends = NoEnd \/ now < sub.ends + Grace)
    \/ sub.status = "canceled" /\ sub.atEnd /\ sub.ends # NoEnd /\ sub.ends > now

\* currentPeriod: a month back from the end of the subscription's period, or
\* the calendar month.
PeriodStart == IF sub.ends = NoEnd THEN (now \div Month) * Month ELSE sub.ends - Month

Begin(r, stage, j) == pc' = [pc EXCEPT ![r] = stage] /\ job' = [job EXCEPT ![r] = j]
Goto(r, stage) == pc' = [pc EXCEPT ![r] = stage] /\ UNCHANGED job
End(r) == Begin(r, "idle", NoJob)
Times(e) == Cardinality({i \in DOMAIN applied : applied[i] = e})

Tick ==
    /\ now < MaxTime /\ now' = now + 1
    /\ UNCHANGED <<stripe, usage, bank, pc, job, bounds, trail>>

-----------------------------------------------------------------------------
(* POST /api/billing/webhook.                                              *)

StripeSends ==
    /\ sent < Len(Script) /\ sent' = sent + 1
    /\ UNCHANGED <<now, claimed, acked, sub, usage, bank, pc, job, bounds, trail>>

\* A mutant of Deliver: the event is noted and handled all the same.
DeliverAll(r, e) ==
    /\ pc[r] = "idle" /\ e \in 1..sent
    /\ starts < MaxStarts /\ starts' = starts + 1
    /\ claimed' = claimed \cup {e}
    /\ Begin(r, "handle", [NoJob EXCEPT !.event = e])
    /\ UNCHANGED <<now, sent, acked, sub, usage, bank, failures, trail>>

\* INSERT ... ON CONFLICT DO NOTHING: a known event is answered at once.
Deliver(r, e) ==
    /\ pc[r] = "idle" /\ e \in 1..sent
    /\ starts < MaxStarts /\ starts' = starts + 1
    /\ IF e \in claimed
       THEN acked' = acked \cup {e} /\ UNCHANGED <<claimed, pc, job>>
       ELSE /\ claimed' = claimed \cup {e} /\ UNCHANGED acked
            /\ Begin(r, "handle", [NoJob EXCEPT !.event = e])
    /\ UNCHANGED <<now, sent, sub, usage, bank, failures, trail>>

\* handleSubscriptionUpsert writes the whole row, handleSubscriptionDeleted
\* three columns of a row that is there, handleInvoiceEvent nothing.
Row(e) == LET ev == Script[e] IN
    [plan |-> ev.plan, status |-> ev.status, ends |-> ev.ends, atEnd |-> ev.atEnd, known |-> TRUE]
Written(e) ==
    CASE Script[e].kind = "upsert" -> Row(e)
      [] Script[e].kind = "deleted" /\ sub # NoSub ->
           [Row(e) EXCEPT !.plan = sub.plan, !.status = "canceled", !.known = sub.known]
      [] OTHER -> sub

\* The handler; a reply that is lost makes it throw although it has written.
Handle(r, replied) ==
    /\ pc[r] = "handle" /\ Script[job[r].event].fit
    /\ sub' = Written(job[r].event)
    /\ applied' = Append(applied, job[r].event)
    /\ \/ replied /\ Goto(r, "answer") /\ UNCHANGED <<doubted, failures>>
       \/ /\ ~replied /\ failures < MaxFailures /\ failures' = failures + 1
          /\ Goto(r, "unclaim") /\ doubted' = doubted \cup {job[r].event}
    /\ UNCHANGED <<now, sent, claimed, acked, usage, bank, starts, lost, declined>>

\* {applied: false}: the event lacks something, or Stripe can not be asked for
\* the invoice's customer.  It is answered with 200 and its claim stays.
HandlerDeclines(r) ==
    /\ pc[r] = "handle"
    /\ \/ ~Script[job[r].event].fit /\ UNCHANGED failures
       \/ /\ Script[job[r].event].kind = "invoice"
          /\ failures < MaxFailures /\ failures' = failures + 1
    /\ declined' = declined \cup {job[r].event} /\ Goto(r, "answer")
    /\ UNCHANGED <<now, stripe, usage, bank, starts, applied, doubted, lost>>

HandlerThrows(r) ==
    /\ pc[r] = "handle" /\ failures < MaxFailures /\ failures' = failures + 1
    /\ Goto(r, "unclaim")
    /\ UNCHANGED <<now, stripe, usage, bank, starts, trail>>

Answer(r) ==
    /\ pc[r] = "answer" /\ acked' = acked \cup {job[r].event} /\ End(r)
    /\ UNCHANGED <<now, sent, claimed, sub, usage, bank, bounds, trail>>

\* A mutant of Unclaim: the claim stays.
KeepClaim(r) ==
    /\ pc[r] = "unclaim" /\ End(r)
    /\ lost' = IF job[r].event \in acked THEN lost \cup {job[r].event} ELSE lost
    /\ UNCHANGED <<now, stripe, usage, bank, bounds, applied, doubted, declined>>

\* The claim is withdrawn and Stripe is told to try again.
Unclaim(r) ==
    /\ pc[r] = "unclaim" /\ claimed' = claimed \ {job[r].event} /\ End(r)
    /\ lost' = IF job[r].event \in acked THEN lost \cup {job[r].event} ELSE lost
    /\ UNCHANGED <<now, sent, acked, sub, usage, bank, bounds, applied, doubted, declined>>

-----------------------------------------------------------------------------
(* The operator's /api/system/subscriptions.                               *)

Grant(plan) ==
    /\ starts < MaxStarts /\ starts' = starts + 1
    /\ sub' = [plan |-> plan, status |-> "active", ends |-> now + Month, atEnd |-> FALSE,
               known |-> sub.known]
    /\ UNCHANGED <<now, sent, claimed, acked, usage, bank, pc, job, failures, trail>>

ForceCancel ==
    /\ starts < MaxStarts /\ starts' = starts + 1
    /\ sub # NoSub /\ sub' = NoSub
    /\ UNCHANGED <<now, sent, claimed, acked, usage, bank, pc, job, failures, trail>>

\* .../sync: what Stripe has at the moment is fetched ...
Resync(r) ==
    /\ pc[r] = "idle" /\ starts < MaxStarts /\ starts' = starts + 1
    /\ sub.known
    /\ \E e \in 1..sent :
         /\ Script[e].kind # "invoice"
         /\ \A d \in (e + 1)..sent : Script[d].kind = "invoice"
         /\ Begin(r, "resync", [NoJob EXCEPT !.event = e])
    /\ UNCHANGED <<now, stripe, usage, bank, failures, trail>>

\* ... and written as an update would be, whatever came in meanwhile.
ResyncWrite(r) ==
    /\ pc[r] = "resync" /\ End(r)
    /\ sub' = IF Script[job[r].event].fit THEN Row(job[r].event) ELSE sub
    /\ UNCHANGED <<now, sent, claimed, acked, usage, bank, bounds, trail>>

-----------------------------------------------------------------------------
(* checkAndIncrementQuota.                                                 *)

Ask(r, n) ==
    /\ pc[r] = "idle" /\ starts < MaxStarts /\ starts' = starts + 1
    /\ Entitled /\ Quota[sub.plan] > 0
    /\ Begin(r, "period", [NoJob EXCEPT !.n = n, !.cap = Quota[sub.plan]])
    /\ UNCHANGED <<now, stripe, usage, bank, failures, trail>>

ReadPeriod(r) ==
    /\ pc[r] = "period"
    /\ Begin(r, "bump", [job[r] EXCEPT !.period = PeriodStart])
    /\ UNCHANGED <<now, stripe, usage, bank, bounds, trail>>

\* A mutant of Bump: what was there before is compared with the quota.
BumpLate(r) ==
    /\ pc[r] = "bump"
    /\ LET p == job[r].period IN
         /\ counter' = [counter EXCEPT ![p] = @ + job[r].n]
         /\ IF counter[p] > job[r].cap
            THEN Goto(r, "unbump") /\ UNCHANGED granted
            ELSE End(r) /\ granted' = [granted EXCEPT ![p] = @ + job[r].n]
    /\ UNCHANGED <<now, stripe, leaked, bank, bounds, trail>>

\* One statement raises the counter and returns the total.
Bump(r) ==
    /\ pc[r] = "bump"
    /\ LET p == job[r].period IN
         /\ counter' = [counter EXCEPT ![p] = @ + job[r].n]
         /\ IF job[r].cap # Unlimited /\ counter'[p] > job[r].cap
            THEN Goto(r, "unbump") /\ UNCHANGED granted
            ELSE End(r) /\ granted' = [granted EXCEPT ![p] = @ + job[r].n]
    /\ UNCHANGED <<now, stripe, leaked, bank, bounds, trail>>

\* A mutant of Unbump: the period is asked for again.
UnbumpNow(r) ==
    /\ pc[r] = "unbump" /\ End(r)
    /\ counter' = [counter EXCEPT ![PeriodStart] = @ - job[r].n]
    /\ UNCHANGED <<now, stripe, granted, leaked, bank, bounds, trail>>

Unbump(r) ==
    /\ pc[r] = "unbump" /\ End(r)
    /\ counter' = [counter EXCEPT ![job[r].period] = @ - job[r].n]
    /\ UNCHANGED <<now, stripe, granted, leaked, bank, bounds, trail>>

-----------------------------------------------------------------------------
(* requireBankConnectionSlot and the INSERT that follows it.               *)

\* A mutant of LinkLook: one more than the plan has is let through.
LinkLookLoose(r) ==
    /\ pc[r] = "idle" /\ starts < MaxStarts /\ starts' = starts + 1
    /\ Entitled /\ Connections[sub.plan] > 0 /\ links <= Connections[sub.plan]
    /\ Begin(r, "link", [NoJob EXCEPT !.n = 1])
    /\ UNCHANGED <<now, stripe, usage, bank, failures, trail>>

LinkLook(r) ==
    /\ pc[r] = "idle" /\ starts < MaxStarts /\ starts' = starts + 1
    /\ Entitled /\ Connections[sub.plan] > 0 /\ links < Connections[sub.plan]
    /\ Begin(r, "link", [NoJob EXCEPT !.n = 1])
    /\ UNCHANGED <<now, stripe, usage, bank, failures, trail>>

LinkInsert(r) ==
    /\ pc[r] = "link" /\ links' = links + 1
    /\ raced' = IF job[r].raced THEN raced + 1 ELSE raced
    /\ pc' = [pc EXCEPT ![r] = "idle"]
    /\ job' = [q \in Requests |-> IF q = r THEN NoJob
                                  ELSE IF pc[q] = "link" THEN [job[q] EXCEPT !.raced = TRUE]
                                  ELSE job[q]]
    /\ UNCHANGED <<now, stripe, usage, bounds, trail>>

UnlinkOne ==
    /\ links > 0 /\ links' = links - 1
    /\ UNCHANGED <<now, stripe, usage, raced, pc, job, bounds, trail>>

-----------------------------------------------------------------------------

\* The server dies, or the last statement of a request fails.
Crash(r) ==
    /\ pc[r] # "idle" /\ failures < MaxFailures /\ failures' = failures + 1
    /\ lost' = IF pc[r] \in {"handle", "unclaim"} THEN lost \cup {job[r].event} ELSE lost
    /\ leaked' = IF pc[r] = "unbump"
                 THEN [leaked EXCEPT ![job[r].period] = @ + job[r].n] ELSE leaked
    /\ End(r)
    /\ UNCHANGED <<now, stripe, counter, granted, bank, starts, applied, doubted, declined>>

Next ==
    \/ Tick \/ StripeSends \/ UnlinkOne \/ ForceCancel
    \/ \E plan \in Grants : Grant(plan)
    \/ \E r \in Requests :
         \/ \E e \in Events : Deliver(r, e)
         \/ \E replied \in BOOLEAN : Handle(r, replied)
         \/ HandlerDeclines(r) \/ HandlerThrows(r) \/ Answer(r) \/ Unclaim(r) \/ Resync(r) \/ ResyncWrite(r)
         \/ \E n \in Amounts : Ask(r, n)
         \/ ReadPeriod(r) \/ Bump(r) \/ Unbump(r)
         \/ LinkLook(r) \/ LinkInsert(r) \/ Crash(r)

Spec == Init /\ [][Next]_vars

-----------------------------------------------------------------------------
(* Properties.                                                             *)

\* What Stripe has been told is received has been written or is being
\* handled, but for an event whose request died with the claim or whose handler
\* declined it.
AckedApplied ==
    \A e \in acked \ (lost \cup declined) :
      \/ Times(e) > 0
      \/ \E r \in Requests : pc[r] \in {"handle", "unclaim"} /\ job[r].event = e

\* webhook-handlers.ts says an event is never applied twice; it is when the
\* reply to the write is lost, and only then.
AppliedOnce == \A e \in Events \ doubted : Times(e) <= 1

\* However many requests ask at once, no period's grants exceed the largest
\* quota the household has had.
QuotaHeld ==
    \A p \in Periods :
      \E q \in Plans : Quota[q] = Unlimited \/ granted[p] <= Quota[q]

\* The units of period p that the requests are about to give back.
Refusing(p) == {r \in Requests : pc[r] = "unbump" /\ job[r].period = p}
Owed(p) == UNION {{r} \X (1..job[r].n) : r \in Refusing(p)}

\* The counter of a period is what was granted in it, and what is about to be
\* given back or never will be because its request died.
CounterExact ==
    \A p \in Periods : counter[p] = granted[p] + leaked[p] + Cardinality(Owed(p))

\* There are no more bank connections than a plan the household has had
\* allows, but for those counted while another was being inserted.
SlotsHeld == \E q \in Plans : links <= Connections[q] + raced

=============================================================================
