-------------------------- MODULE SubscriptionsProofs --------------------------
(***************************************************************************)
(* Proofs about Subscriptions: AckedApplied, AppliedOnce, CounterExact,    *)
(* QuotaHeld and SlotsHeld, for any script of events, plans and number of  *)
(* requests; and about StagedBatches: UndoIsInverse, for any plans and     *)
(* number of batches and requests.  The two share nothing: G is the second *)
(* with variables of its own.                                              *)
(***************************************************************************)
EXTENDS Subscriptions, FiniteSetTheorems, SequenceTheorems, WellFoundedInduction, TLAPS

CONSTANTS Txns, Categories, Batches, Proposed, Pool, MaxGoals, MaxEdits
VARIABLES data, standing, planned, inverses, edits, before, clean

G == INSTANCE StagedBatches WITH Plans <- Proposed, Connections <- Pool,
                                status <- standing, plan <- planned

Handling == {"handle", "answer", "unclaim"}    \* stages that hold a claim
Elsewhere == {"idle", "period", "bump", "unbump", "link"}

Job == [event : 0..Len(Script), n : Nat, cap : Nat, period : Periods, raced : BOOLEAN]
Statuses == {"none", "trialing", "active", "past_due", "canceled"}
Sub == [plan : Plans \cup {"none"}, status : Statuses, ends : NoEnd..(MaxTime + 2 * Month),
        atEnd : BOOLEAN, known : BOOLEAN]

Had == Grants \cup {Script[e].plan : e \in 1..sent}    \* plans the household may have had

\* What each variable may hold, and what a request holds at each stage.
TypeInv ==
    /\ now \in 0..MaxTime /\ sent \in 0..Len(Script)
    /\ claimed \subseteq 1..sent /\ acked \subseteq 1..sent
    /\ sub \in Sub /\ (sub = NoSub \/ sub.plan \in Had)
    /\ counter \in [Periods -> Int]
    /\ granted \in [Periods -> Nat] /\ leaked \in [Periods -> Nat]
    /\ links \in Nat /\ raced \in Nat /\ starts \in Nat /\ failures \in Nat
    /\ applied \in Seq(Events)
    /\ pc \in [Requests -> Stages] /\ job \in [Requests -> Job]
    /\ \A r \in Requests :
         /\ pc[r] \in Handling => job[r].event \in claimed
         /\ pc[r] = "resync" => job[r].event \in 1..sent
         /\ pc[r] \in Elsewhere => job[r].event = 0
         /\ pc[r] = "idle" => job[r] = NoJob
         /\ pc[r] \in Elsewhere \ {"idle"} => job[r].n > 0

\* How often e is in s: Times(e) is Count(applied, e).
Count(s, e) == Cardinality({i \in DOMAIN s : s[i] = e})

\* A claimed event is handled by one request.
ClaimedOnce ==
    \A r, q \in Requests :
      pc[r] \in Handling /\ pc[q] \in Handling /\ job[r].event = job[q].event => r = q

\* Behind each claim there is a write, a request that has yet to write, one that
\* died, or one that declined.
ClaimKept ==
    /\ \A e \in (claimed \cup acked) \ (lost \cup declined) :
         \/ Count(applied, e) > 0
         \/ \E r \in Requests : pc[r] \in {"handle", "unclaim"} /\ job[r].event = e
    /\ \A r \in Requests : pc[r] = "answer" =>
         Count(applied, job[r].event) > 0 \/ job[r].event \in declined

\* What is not claimed, or not written yet, has not been written before.
WrittenOnce ==
    /\ \A e \in Events \ doubted : Count(applied, e) <= 1
    /\ \A e \in Events \ (doubted \cup claimed) : Count(applied, e) = 0
    /\ \A r \in Requests :
         pc[r] \in {"handle", "unclaim"} /\ job[r].event \notin doubted
         => Count(applied, job[r].event) = 0

\* The quota a request compares with is that of a plan the household had.
QuotaOfPlan ==
    \A r \in Requests :
      pc[r] \in {"period", "bump"} => \E q \in Plans : job[r].cap = Quota[q]

\* A connection that nobody overtook still fits.
SlotLeft ==
    \A r \in Requests : pc[r] = "link" /\ ~job[r].raced =>
      \E q \in Plans : links + 1 <= Connections[q]

OwedFinite == \A p \in Periods : IsFiniteSet(Owed(p))

-----------------------------------------------------------------------------
(* Constants, and the two shapes of a step on pc and job.                  *)

LEMMA ScriptType ==
  ASSUME SubscriptionsOK
  PROVE  /\ Len(Script) \in Nat
         /\ \A e \in Events : Script[e] \in Event /\ Script[e].plan \in Plans
<1>1. Script \in Seq(Event)
  BY DEF SubscriptionsOK
<1> HIDE DEF Event
<1>2. Len(Script) \in Nat /\ \A e \in 1..Len(Script) : Script[e] \in Event
  BY <1>1
<1>3. QED BY <1>2 DEF Events, Plans

LEMMA HadType ==
  ASSUME SubscriptionsOK, TypeInv
  PROVE  /\ Had \subseteq Plans
         /\ \A e \in 1..sent : e \in Events /\ Script[e].plan \in Had
  BY ScriptType DEF TypeInv, Had, Plans, Events

LEMMA BeginType ==
  ASSUME TypeInv, NEW r \in Requests, NEW stage \in Stages, NEW j \in Job, Begin(r, stage, j)
  PROVE  /\ pc' \in [Requests -> Stages] /\ job' \in [Requests -> Job]
         /\ pc'[r] = stage /\ job'[r] = j
         /\ \A q \in Requests \ {r} : pc'[q] = pc[q] /\ job'[q] = job[q]
<1>1. pc \in [Requests -> Stages] /\ job \in [Requests -> Job]
  BY DEF TypeInv
<1> HIDE DEF Job
<1>2. QED BY <1>1 DEF Begin

LEMMA GotoType ==
  ASSUME TypeInv, NEW r \in Requests, NEW stage \in Stages, Goto(r, stage)
  PROVE  /\ pc' \in [Requests -> Stages] /\ job' \in [Requests -> Job]
         /\ pc'[r] = stage /\ job'[r] = job[r]
         /\ \A q \in Requests \ {r} : pc'[q] = pc[q] /\ job'[q] = job[q]
<1>1. pc \in [Requests -> Stages] /\ job \in [Requests -> Job]
  BY DEF TypeInv
<1> HIDE DEF Job
<1>2. QED BY <1>1 DEF Goto

LEMMA NoJobType == ASSUME SubscriptionsOK PROVE NoJob \in Job /\ NoJob.event = 0
  BY ScriptType DEF SubscriptionsOK, NoJob, Job, Periods, Month

LEMMA ChangedJob ==
  ASSUME NEW j \in Job
  PROVE  /\ \A p \in Periods : LET k == [j EXCEPT !.period = p] IN
              k \in Job /\ k.event = j.event /\ k.n = j.n
         /\ \A e \in 0..Len(Script) : LET k == [j EXCEPT !.event = e] IN
              k \in Job /\ k.event = e
         /\ \A n \in Nat : LET k == [j EXCEPT !.n = n] IN
              k \in Job /\ k.event = j.event /\ k.n = n
  BY DEF Job

LEMMA EndType ==
  ASSUME SubscriptionsOK, TypeInv, NEW r \in Requests, End(r)
  PROVE  /\ pc' \in [Requests -> Stages] /\ job' \in [Requests -> Job]
         /\ pc'[r] = "idle" /\ job'[r] = NoJob /\ job'[r].event = 0
         /\ \A q \in Requests \ {r} : pc'[q] = pc[q] /\ job'[q] = job[q]
<1>1. "idle" \in Stages
  BY DEF Stages
<1>2. QED BY <1>1, NoJobType, BeginType DEF End

LEMMA PeriodType ==
  ASSUME SubscriptionsOK, TypeInv
  PROVE  PeriodStart \in Periods
<1>1. CASE sub.ends = NoEnd
  <2>1. (now \div 2) * 2 \in 0..now
    BY <1>1 DEF TypeInv
  <2>2. QED BY <1>1, <2>1 DEF PeriodStart, Periods, Month, TypeInv, SubscriptionsOK
<1>2. CASE sub.ends # NoEnd
  <2>1. sub.ends \in 1..(MaxTime + 2 * Month)
    BY <1>2 DEF TypeInv, Sub, NoEnd, SubscriptionsOK, Month
  <2>2. QED BY <1>2, <2>1 DEF PeriodStart, Periods, Month, SubscriptionsOK
<1>3. QED BY <1>1, <1>2

LEMMA RowType ==
  ASSUME SubscriptionsOK, TypeInv, NEW e \in 1..sent
  PROVE  Row(e) \in Sub /\ Row(e).plan \in Had
<1>1. Script[e] \in Event /\ Script[e].plan \in Plans /\ Script[e].plan \in Had
  BY ScriptType, HadType
<1>2. QED BY <1>1 DEF Row, Sub, Statuses, Event

LEMMA WrittenType ==
  ASSUME SubscriptionsOK, TypeInv, NEW e \in 1..sent
  PROVE  Written(e) \in Sub /\ (Written(e) = NoSub \/ Written(e).plan \in Had)
<1>1. CASE Script[e].kind = "upsert"
  BY <1>1, RowType DEF Written
<1>2. CASE Script[e].kind = "deleted" /\ sub # NoSub
  <2>1. PICK x \in Sub : x = Row(e)
    BY RowType
  <2>2. PICK y \in Sub : y = sub /\ y.plan \in Had
    BY <1>2 DEF TypeInv
  <2>3. [x EXCEPT !.plan = y.plan, !.status = "canceled", !.known = y.known] \in Sub
    BY <2>1, <2>2 DEF Sub, Statuses
  <2>4. [x EXCEPT !.plan = y.plan, !.status = "canceled", !.known = y.known].plan \in Had
    BY <2>1, <2>2 DEF Sub, Statuses
  <2>5. QED BY <1>2, <2>1, <2>2, <2>3, <2>4 DEF Written
<1>3. CASE Script[e].kind # "upsert" /\ ~(Script[e].kind = "deleted" /\ sub # NoSub)
  BY <1>3 DEF Written, TypeInv
<1>4. QED BY <1>1, <1>2, <1>3

-----------------------------------------------------------------------------
(* Types.                                                                  *)

LEMMA QuietTypes ==     \* the steps that no request takes
  ASSUME SubscriptionsOK, TypeInv,
         Tick \/ StripeSends \/ UnlinkOne \/ ForceCancel \/ \E plan \in Grants : Grant(plan)
  PROVE  TypeInv'
<1> USE DEF TypeInv, stripe, usage, bank, bounds, trail
<1>1. CASE Tick
  <2>1. now' \in 0..MaxTime
    BY <1>1 DEF Tick, SubscriptionsOK
  <2>2. QED BY <1>1, <2>1 DEF Had, Tick
<1>2. CASE StripeSends
  <2>1. sent' \in 0..Len(Script) /\ 1..sent \subseteq 1..sent'
    BY <1>2, ScriptType DEF StripeSends
  <2>2. QED BY <1>2, <2>1 DEF Had, StripeSends
<1>3. CASE UnlinkOne
  <2>1. links' \in Nat
    BY <1>3 DEF UnlinkOne
  <2>2. QED BY <1>3, <2>1 DEF Had, UnlinkOne
<1>4. CASE ForceCancel
  <2>1. NoSub \in Sub
    BY DEF NoSub, Sub, Statuses, NoEnd, Month, SubscriptionsOK
  <2>2. QED BY <1>4, <2>1 DEF ForceCancel
<1>5. ASSUME NEW plan \in Grants, Grant(plan) PROVE TypeInv'
  <2>1. now + Month \in NoEnd..(MaxTime + 2 * Month)
    BY DEF NoEnd, Month, SubscriptionsOK
  <2>2. sub' \in Sub /\ sub'.plan \in Had
    <3>1. plan \in Plans /\ plan \in Had /\ sub.known \in BOOLEAN
      BY DEF Plans, Had, TypeInv, Sub
    <3>2. QED BY <1>5, <2>1, <3>1 DEF Grant, Sub, Statuses
  <2>3. QED BY <1>5, <2>2 DEF Had, Grant
<1>6. QED BY <1>1, <1>2, <1>3, <1>4, <1>5

LEMMA DeliverType ==
  ASSUME SubscriptionsOK, TypeInv, NEW r \in Requests, NEW e \in Events, Deliver(r, e)
  PROVE  TypeInv'
<1>1. e \in 1..sent /\ starts' \in Nat
  BY DEF Deliver, TypeInv
<1>2. CASE e \in claimed
  BY <1>1, <1>2 DEF Had, Deliver, TypeInv, usage, bank, trail
<1>3. CASE e \notin claimed
  <2> DEFINE j == [NoJob EXCEPT !.event = e]
  <2>1. j \in Job /\ j.event = e
    BY NoJobType, ScriptType DEF Job, Events
  <2>2. "handle" \in Stages
    BY DEF Stages
  <2>3. Begin(r, "handle", j) /\ claimed' = claimed \cup {e} /\ acked' = acked
    BY <1>3 DEF Deliver
  <2> HIDE DEF j
  <2>4. /\ pc' \in [Requests -> Stages] /\ job' \in [Requests -> Job]
        /\ pc'[r] = "handle" /\ job'[r].event = e
        /\ \A q \in Requests \ {r} : pc'[q] = pc[q] /\ job'[q] = job[q]
    BY <2>1, <2>2, <2>3, BeginType
  <2>5. \A q \in Requests :
          /\ pc'[q] \in Handling => job'[q].event \in claimed'
          /\ pc'[q] = "resync" => job'[q].event \in 1..sent
          /\ pc'[q] \in Elsewhere => job'[q].event = 0
          /\ pc'[q] = "idle" => job'[q] = NoJob
          /\ pc'[q] \in Elsewhere \ {"idle"} => job'[q].n > 0
    BY <2>3, <2>4 DEF TypeInv, Elsewhere
  <2>6. QED BY <1>1, <2>3, <2>4, <2>5 DEF Had, Deliver, TypeInv, usage, bank, trail
<1>4. QED BY <1>2, <1>3

\* The steps after which a request goes on with what it holds, or ends.
LEMMA WebhookTypes ==
  ASSUME SubscriptionsOK, TypeInv, ClaimedOnce, NEW r \in Requests,
         \/ \E replied \in BOOLEAN : Handle(r, replied)
         \/ HandlerDeclines(r) \/ HandlerThrows(r) \/ Answer(r) \/ Unclaim(r) \/ ResyncWrite(r)
  PROVE  TypeInv'
<1> USE DEF Handling, Elsewhere
<1>1. {"answer", "unclaim"} \subseteq Stages
  BY DEF Stages
<1>2. 1..sent \subseteq Events
  BY ScriptType DEF TypeInv, Events
<1>3. ASSUME NEW replied \in BOOLEAN, Handle(r, replied) PROVE TypeInv'
  <2>1. /\ job[r].event \in claimed /\ job[r].event \in Events
        /\ job[r].event \in 1..sent
    BY <1>2, <1>3 DEF Handle, TypeInv
  <2>2. applied' \in Seq(Events)
    BY <1>3, <2>1 DEF Handle, TypeInv
  <2>3. sub' \in Sub /\ (sub' = NoSub \/ sub'.plan \in Had)
    BY <1>3, <2>1, WrittenType DEF Handle
  <2>4. PICK stage \in {"answer", "unclaim"} : Goto(r, stage)
    BY <1>3 DEF Handle
  <2>5. /\ pc' \in [Requests -> Stages] /\ job' \in [Requests -> Job]
        /\ pc'[r] = stage /\ job'[r] = job[r]
        /\ \A q \in Requests \ {r} : pc'[q] = pc[q] /\ job'[q] = job[q]
    BY <1>1, <2>4, GotoType
  <2>6. failures' \in Nat
    BY <1>3 DEF Handle, TypeInv
  <2>7. QED BY <1>3, <2>1, <2>2, <2>3, <2>5, <2>6 DEF Had, Handle, TypeInv, usage, bank
<1>9. CASE HandlerDeclines(r)
  <2>1. /\ pc' \in [Requests -> Stages] /\ job' \in [Requests -> Job]
        /\ pc'[r] = "answer" /\ job'[r] = job[r]
        /\ \A q \in Requests \ {r} : pc'[q] = pc[q] /\ job'[q] = job[q]
    BY <1>1, <1>9, GotoType DEF HandlerDeclines
  <2>2. /\ failures' \in Nat
        /\ UNCHANGED <<now, stripe, usage, bank, starts, applied, doubted, lost>>
    BY <1>9 DEF HandlerDeclines, TypeInv
  <2>3. pc[r] = "handle"
    BY <1>9 DEF HandlerDeclines
  <2>4. QED BY <2>1, <2>2, <2>3 DEF Had, TypeInv, stripe, usage, bank
<1>4. CASE HandlerThrows(r)
  <2>1. /\ pc' \in [Requests -> Stages] /\ job' \in [Requests -> Job]
        /\ pc'[r] = "unclaim" /\ job'[r] = job[r]
        /\ \A q \in Requests \ {r} : pc'[q] = pc[q] /\ job'[q] = job[q]
    BY <1>1, <1>4, GotoType DEF HandlerThrows
  <2>2. failures' \in Nat /\ UNCHANGED <<now, stripe, usage, bank, starts, trail>>
    BY <1>4 DEF HandlerThrows, TypeInv
  <2>3. pc[r] = "handle"
    BY <1>4 DEF HandlerThrows
  <2>4. QED BY <2>1, <2>2, <2>3 DEF Had, TypeInv, stripe, usage, bank, trail
<1>5. CASE Answer(r)
  <2>1. job[r].event \in claimed
    BY <1>5 DEF Answer, TypeInv
  <2>2. End(r) /\ acked' = acked \cup {job[r].event}
        /\ UNCHANGED <<now, sent, claimed, sub, usage, bank, bounds, trail>>
    BY <1>5 DEF Answer
  <2>3. /\ pc' \in [Requests -> Stages] /\ job' \in [Requests -> Job]
        /\ pc'[r] = "idle" /\ job'[r] = NoJob /\ job'[r].event = 0
        /\ \A q \in Requests \ {r} : pc'[q] = pc[q] /\ job'[q] = job[q]
    BY <2>2, EndType
  <2>4. QED BY <2>1, <2>2, <2>3 DEF Had, TypeInv, usage, bank, bounds, trail
<1>6. CASE Unclaim(r)
  <2>1. \A q \in Requests \ {r} : pc[q] \in Handling => job[q].event # job[r].event
    BY <1>6 DEF Unclaim, ClaimedOnce
  <2>2. /\ End(r) /\ claimed' = claimed \ {job[r].event}
        /\ UNCHANGED <<now, sent, acked, sub, usage, bank, bounds, applied, doubted>>
    BY <1>6 DEF Unclaim
  <2>3. /\ pc' \in [Requests -> Stages] /\ job' \in [Requests -> Job]
        /\ pc'[r] = "idle" /\ job'[r] = NoJob /\ job'[r].event = 0
        /\ \A q \in Requests \ {r} : pc'[q] = pc[q] /\ job'[q] = job[q]
    BY <2>2, EndType
  <2>4. QED BY <2>1, <2>2, <2>3 DEF Had, TypeInv, usage, bank, bounds
<1>7. CASE ResyncWrite(r)
  <2>1. sub' \in Sub /\ (sub' = NoSub \/ sub'.plan \in Had)
    BY <1>2, <1>7, RowType DEF ResyncWrite, TypeInv
  <2>2. End(r) /\ UNCHANGED <<now, sent, claimed, acked, usage, bank, bounds, trail>>
    BY <1>7 DEF ResyncWrite
  <2>3. /\ pc' \in [Requests -> Stages] /\ job' \in [Requests -> Job]
        /\ pc'[r] = "idle" /\ job'[r] = NoJob /\ job'[r].event = 0
        /\ \A q \in Requests \ {r} : pc'[q] = pc[q] /\ job'[q] = job[q]
    BY <2>2, EndType
  <2>4. QED BY <2>1, <2>2, <2>3 DEF Had, TypeInv, usage, bank, bounds, trail
<1>8. QED BY <1>3, <1>4, <1>5, <1>6, <1>7, <1>9

LEMMA QuotaTypes ==
  ASSUME SubscriptionsOK, TypeInv, NEW r \in Requests,
         (\E n \in Amounts : Ask(r, n)) \/ ReadPeriod(r) \/ Bump(r) \/ Unbump(r)
  PROVE  TypeInv'
<1> USE DEF Handling, Elsewhere
<1>1. {"period", "bump", "unbump"} \subseteq Stages
  BY DEF Stages
<1>2. ASSUME NEW n \in Amounts, Ask(r, n) PROVE TypeInv'
  <2> DEFINE j == [NoJob EXCEPT !.n = n, !.cap = Quota[sub.plan]]
  <2>1. sub.plan \in DOMAIN Quota /\ n \in Nat
    <3>1. sub # NoSub
      <4>1. sub.status # "none"
        BY <1>2 DEF Ask, Entitled
      <4>2. QED BY <4>1 DEF NoSub
    <3>2. Plans \subseteq DOMAIN Quota
      BY ScriptType DEF Plans, SubscriptionsOK, Event
    <3>3. n \in Nat
      BY DEF SubscriptionsOK
    <3>4. sub.plan \in Had
      BY <3>1 DEF TypeInv
    <3>5. QED BY <3>2, <3>3, <3>4, HadType
  <2>2. j \in Job /\ j.event = 0 /\ j.n > 0
    <3>1. n \in Nat /\ n > 0 /\ Quota[sub.plan] \in Nat
      BY <2>1 DEF SubscriptionsOK
    <3>2. QED BY <3>1, NoJobType DEF Job
  <2>3. Begin(r, "period", j) /\ starts' \in Nat
    <3>1. Begin(r, "period", j)
      BY <1>2 DEF Ask
    <3>2. starts' = starts + 1
      BY <1>2 DEF Ask
    <3>3. QED BY <3>1, <3>2 DEF TypeInv
  <2> HIDE DEF j
  <2>4. /\ pc' \in [Requests -> Stages] /\ job' \in [Requests -> Job]
        /\ pc'[r] = "period" /\ job'[r].event = 0 /\ job'[r].n > 0
        /\ \A q \in Requests \ {r} : pc'[q] = pc[q] /\ job'[q] = job[q]
    BY <1>1, <2>2, <2>3, BeginType
  <2>5. QED BY <1>2, <2>3, <2>4 DEF Had, Ask, TypeInv, stripe, usage, bank, trail
<1>3. CASE ReadPeriod(r)
  <2>1. PICK j \in Job : j = job[r]
    BY DEF TypeInv
  <2> DEFINE k == [j EXCEPT !.period = PeriodStart]
  <2>2. k \in Job /\ k.event = j.event /\ k.n = j.n
    BY <2>1, PeriodType, ChangedJob
  <2>3. Begin(r, "bump", k) /\ pc[r] = "period"
    BY <1>3, <2>1 DEF ReadPeriod
  <2> HIDE DEF k
  <2>4. /\ pc' \in [Requests -> Stages] /\ job' \in [Requests -> Job]
        /\ pc'[r] = "bump" /\ job'[r].event = job[r].event /\ job'[r].n = job[r].n
        /\ \A q \in Requests \ {r} : pc'[q] = pc[q] /\ job'[q] = job[q]
    BY <1>1, <2>1, <2>2, <2>3, BeginType
  <2>5. QED BY <1>3, <2>3, <2>4 DEF Had, ReadPeriod, TypeInv, stripe, usage, bank, bounds, trail
<1>4. CASE Bump(r)
  <2>1. PICK j \in Job : j = job[r]
    BY DEF TypeInv
  <2>2. /\ pc' \in [Requests -> Stages] /\ job' \in [Requests -> Job]
        /\ job'[r].event = 0
        /\ \/ pc'[r] = "idle" /\ job'[r] = NoJob
           \/ pc'[r] = "unbump" /\ job'[r].n > 0
        /\ \A q \in Requests \ {r} : pc'[q] = pc[q] /\ job'[q] = job[q]
    <3>1. job[r].event = 0 /\ job[r].n > 0
      BY <1>4 DEF Bump, TypeInv
    <3>2. CASE Goto(r, "unbump")
      BY <1>1, <3>1, <3>2, GotoType
    <3>3. CASE End(r)
      <4>1. /\ pc' \in [Requests -> Stages] /\ job' \in [Requests -> Job]
            /\ pc'[r] = "idle" /\ job'[r] = NoJob /\ job'[r].event = 0
            /\ \A q \in Requests \ {r} : pc'[q] = pc[q] /\ job'[q] = job[q]
        BY <3>3, EndType
      <4>2. QED BY <4>1
    <3>4. QED BY <1>4, <3>2, <3>3 DEF Bump
  <2>3. counter' \in [Periods -> Int] /\ granted' \in [Periods -> Nat]
    <3>1. j.n \in Nat /\ j.period \in Periods
      BY DEF Job
    <3>2. /\ counter' = [counter EXCEPT ![j.period] = @ + j.n]
          /\ \/ granted' = granted
             \/ granted' = [granted EXCEPT ![j.period] = @ + j.n]
      BY <1>4, <2>1 DEF Bump
    <3>3. counter \in [Periods -> Int] /\ granted \in [Periods -> Nat]
      BY DEF TypeInv
    <3> HIDE DEF Job
    <3>4. QED BY <3>1, <3>2, <3>3
  <2>4. UNCHANGED <<now, stripe, leaked, bank, bounds, trail>>
    BY <1>4 DEF Bump
  <2>5. QED BY <2>2, <2>3, <2>4 DEF Had, TypeInv, stripe, bank, bounds, trail
<1>5. CASE Unbump(r)
  <2>1. PICK j \in Job : j = job[r]
    BY DEF TypeInv
  <2>2. counter' \in [Periods -> Int]
    <3>1. j.n \in Nat /\ j.period \in Periods
      BY DEF Job
    <3>2. counter' = [counter EXCEPT ![j.period] = @ - j.n]
      BY <1>5, <2>1 DEF Unbump
    <3>3. counter \in [Periods -> Int]
      BY DEF TypeInv
    <3>4. QED BY <3>1, <3>2, <3>3
  <2>3. /\ pc' \in [Requests -> Stages] /\ job' \in [Requests -> Job]
        /\ pc'[r] = "idle" /\ job'[r].event = 0 /\ job'[r] = NoJob
        /\ \A q \in Requests \ {r} : pc'[q] = pc[q] /\ job'[q] = job[q]
    BY <1>5, EndType DEF Unbump
  <2>4. QED BY <1>5, <2>2, <2>3 DEF Had, Unbump, TypeInv, stripe, bank, bounds, trail
<1>6. QED BY <1>2, <1>3, <1>4, <1>5

LEMMA OtherTypes ==
  ASSUME SubscriptionsOK, TypeInv, NEW r \in Requests,
         Resync(r) \/ LinkLook(r) \/ LinkInsert(r) \/ Crash(r)
  PROVE  TypeInv'
<1> USE DEF Handling, Elsewhere
<1>1. {"resync", "link", "idle"} \subseteq Stages
  BY DEF Stages
<1>2. CASE Resync(r)
  <2>1. PICK e \in 1..sent : Begin(r, "resync", [NoJob EXCEPT !.event = e])
    BY <1>2 DEF Resync
  <2> DEFINE j == [NoJob EXCEPT !.event = e]
  <2>2. j \in Job /\ j.event = e
    <3>1. e \in 0..Len(Script)
      BY ScriptType DEF TypeInv
    <3>2. QED BY <3>1, NoJobType, ChangedJob
  <2>3. /\ pc' \in [Requests -> Stages] /\ job' \in [Requests -> Job]
        /\ pc'[r] = "resync" /\ job'[r].event = e
        /\ \A q \in Requests \ {r} : pc'[q] = pc[q] /\ job'[q] = job[q]
    <3>1. Begin(r, "resync", j)
      BY <2>1
    <3> HIDE DEF j
    <3>2. QED BY <1>1, <2>2, <3>1, BeginType
  <2>4. starts' \in Nat /\ UNCHANGED <<now, stripe, usage, bank, failures, trail>>
    BY <1>2 DEF Resync, TypeInv
  <2>5. QED BY <2>3, <2>4 DEF Had, TypeInv, stripe, usage, bank, trail
<1>3. CASE LinkLook(r)
  <2> DEFINE j == [NoJob EXCEPT !.n = 1]
  <2>1. j \in Job /\ j.event = 0 /\ j.n > 0
    <3>1. /\ NoJob \in Job /\ NoJob.event = 0
          /\ \A n \in Nat : LET k == [NoJob EXCEPT !.n = n] IN
               k \in Job /\ k.event = NoJob.event /\ k.n = n
      BY NoJobType, ChangedJob
    <3>2. QED BY <3>1
  <2>2. /\ pc' \in [Requests -> Stages] /\ job' \in [Requests -> Job]
        /\ pc'[r] = "link" /\ job'[r].event = 0 /\ job'[r].n > 0
        /\ \A q \in Requests \ {r} : pc'[q] = pc[q] /\ job'[q] = job[q]
    <3>1. Begin(r, "link", j)
      BY <1>3 DEF LinkLook
    <3> HIDE DEF j
    <3>2. QED BY <1>1, <2>1, <3>1, BeginType
  <2>3. starts' \in Nat /\ UNCHANGED <<now, stripe, usage, bank, failures, trail>>
    BY <1>3 DEF LinkLook, TypeInv
  <2>4. QED BY <2>2, <2>3 DEF Had, TypeInv, stripe, usage, bank, trail
<1>4. CASE LinkInsert(r)
  <2>1. pc' \in [Requests -> Stages]
    BY <1>1, <1>4 DEF LinkInsert, TypeInv
  <2>2. \A j \in Job : [j EXCEPT !.raced = TRUE] \in Job /\ [j EXCEPT !.raced = TRUE].event = j.event
                   /\ [j EXCEPT !.raced = TRUE].n = j.n
    BY DEF Job
  <2>3. \A q \in Requests : job[q] \in Job
    BY DEF TypeInv
  <2>4. job' \in [Requests -> Job]
    BY <1>4, <2>2, <2>3, NoJobType DEF LinkInsert
  <2>5. \A q \in Requests :
          /\ q = r => pc'[q] = "idle" /\ job'[q].event = 0 /\ job'[q] = NoJob
          /\ q # r => /\ pc'[q] = pc[q] /\ job'[q].event = job[q].event
                      /\ job'[q].n = job[q].n
                      /\ (pc[q] = "idle" => job'[q] = job[q])
    BY <1>4, <2>2, <2>3, NoJobType DEF LinkInsert, TypeInv
  <2>6. links' \in Nat /\ raced' \in Nat /\ UNCHANGED <<now, stripe, usage, bounds, trail>>
    BY <1>4 DEF LinkInsert, TypeInv
  <2> HIDE DEF Handling, Elsewhere
  <2>7. "idle" \in Elsewhere /\ "idle" \notin Handling /\ "idle" # "resync"
    BY DEF Handling, Elsewhere
  <2>8. \A q \in Requests :
          /\ pc'[q] \in Handling => job'[q].event \in claimed
          /\ pc'[q] = "resync" => job'[q].event \in 1..sent
          /\ pc'[q] \in Elsewhere => job'[q].event = 0
          /\ pc'[q] = "idle" => job'[q] = NoJob
          /\ pc'[q] \in Elsewhere \ {"idle"} => job'[q].n > 0
    <3> TAKE q \in Requests
    <3>1. CASE q = r
      BY <2>5, <2>7, <3>1
    <3>2. CASE q # r
      BY <2>5, <3>2 DEF TypeInv
    <3>3. QED BY <3>1, <3>2
  <2>9. QED BY <2>1, <2>4, <2>6, <2>8 DEF Had, TypeInv, stripe, usage, bounds, trail
<1>5. CASE Crash(r)
  <2>1. PICK j \in Job : j = job[r]
    BY DEF TypeInv
  <2>2. leaked' \in [Periods -> Nat]
    <3>1. j.n \in Nat /\ j.period \in Periods
      BY DEF Job
    <3>2. leaked' = leaked \/ leaked' = [leaked EXCEPT ![j.period] = @ + j.n]
      BY <1>5, <2>1 DEF Crash
    <3>3. leaked \in [Periods -> Nat]
      BY DEF TypeInv
    <3>4. QED BY <3>1, <3>2, <3>3
  <2>3. /\ pc' \in [Requests -> Stages] /\ job' \in [Requests -> Job]
        /\ pc'[r] = "idle" /\ job'[r].event = 0 /\ job'[r] = NoJob
        /\ \A q \in Requests \ {r} : pc'[q] = pc[q] /\ job'[q] = job[q]
    BY <1>5, EndType DEF Crash
  <2>4. failures' \in Nat /\ UNCHANGED <<now, stripe, counter, granted, bank, starts, applied, doubted>>
    BY <1>5 DEF Crash, TypeInv
  <2>5. QED BY <2>2, <2>3, <2>4 DEF Had, TypeInv, stripe, bank
<1>6. QED BY <1>2, <1>3, <1>4, <1>5

LEMMA InitTypes == ASSUME SubscriptionsOK, Init PROVE TypeInv
<1>1. 0 \in 0..MaxTime /\ 0 \in 0..Len(Script)
  BY ScriptType DEF SubscriptionsOK
<1>2. NoSub \in Sub
  BY DEF NoSub, Sub, Statuses, NoEnd, Month, SubscriptionsOK
<1>3. "idle" \in Stages /\ "idle" \notin Handling
  BY DEF Stages, Handling
<1>4. <<>> \in Seq(Events)
  OBVIOUS
<1>5. QED BY <1>1, <1>2, <1>3, <1>4, NoJobType DEF Init, TypeInv

-----------------------------------------------------------------------------
(* Events: AckedApplied and AppliedOnce.                                   *)

\* One more write of x is one more for x and none for the others.
LEMMA OneMore ==
  ASSUME NEW s \in Seq(Events), NEW x \in Events, NEW e
  PROVE  /\ Count(s, e) \in Nat
         /\ Count(Append(s, x), e) = IF e = x THEN Count(s, e) + 1 ELSE Count(s, e)
<1> DEFINE At(t) == {i \in DOMAIN t : t[i] = e}
<1>1. /\ Len(s) \in Nat /\ DOMAIN s = 1..Len(s)
      /\ DOMAIN Append(s, x) = 1..(Len(s) + 1)
      /\ \A i \in 1..Len(s) : Append(s, x)[i] = s[i]
      /\ Append(s, x)[Len(s) + 1] = x
  OBVIOUS
<1>2. IsFiniteSet(At(s)) /\ Cardinality(At(s)) \in Nat
  <2>1. IsFiniteSet(1..Len(s)) /\ At(s) \in SUBSET (1..Len(s))
    BY <1>1, FS_Interval
  <2>2. QED BY <2>1, FS_Subset, FS_CardinalityType
<1>3. CASE e = x
  <2>1. At(Append(s, x)) = At(s) \cup {Len(s) + 1}
    BY <1>1, <1>3
  <2>2. Len(s) + 1 \notin At(s)
    BY <1>1
  <2>3. QED BY <1>2, <1>3, <2>1, <2>2, FS_AddElement DEF Count
<1>4. CASE e # x
  <2>1. At(Append(s, x)) = At(s)
    BY <1>1, <1>4
  <2>2. QED BY <1>2, <1>4, <2>1 DEF Count
<1>5. QED BY <1>3, <1>4

LEMMA CountType == ASSUME TypeInv PROVE \A e : Count(applied, e) \in Nat
<1> TAKE e
<1>1. IsFiniteSet(1..Len(applied)) /\ DOMAIN applied = 1..Len(applied)
  BY FS_Interval DEF TypeInv
<1>2. {i \in DOMAIN applied : applied[i] = e} \in SUBSET (1..Len(applied))
  BY <1>1
<1>3. QED BY <1>1, <1>2, FS_Subset, FS_CardinalityType DEF Count

\* The steps that neither handle nor answer an event.
EventQuiet ==
    /\ UNCHANGED <<claimed, acked, applied, doubted, lost, declined>>
    /\ \A q \in Requests :
         \/ pc'[q] = pc[q] /\ job'[q].event = job[q].event
         \/ pc[q] \notin Handling /\ pc'[q] \notin Handling

LEMMA QuietEvents ==
  ASSUME SubscriptionsOK, TypeInv,
         \/ Tick \/ StripeSends \/ UnlinkOne \/ ForceCancel \/ \E plan \in Grants : Grant(plan)
         \/ \E r \in Requests :
              \/ Resync(r) \/ ResyncWrite(r) \/ \E n \in Amounts : Ask(r, n)
              \/ ReadPeriod(r) \/ Bump(r) \/ Unbump(r) \/ LinkLook(r) \/ LinkInsert(r)
  PROVE  EventQuiet
<1> USE DEF EventQuiet, stripe, trail, Handling
<1>1. CASE Tick \/ StripeSends \/ UnlinkOne \/ ForceCancel \/ \E plan \in Grants : Grant(plan)
  BY <1>1 DEF Tick, StripeSends, UnlinkOne, ForceCancel, Grant
<1>2. ASSUME NEW r \in Requests,
             \/ Resync(r) \/ ResyncWrite(r) \/ \E n \in Amounts : Ask(r, n)
             \/ ReadPeriod(r) \/ Bump(r) \/ Unbump(r) \/ LinkLook(r)
      PROVE  EventQuiet
  <2>1. pc \in [Requests -> Stages] /\ job \in [Requests -> Job]
    BY DEF TypeInv
  <2>2. UNCHANGED <<claimed, acked, applied, doubted, lost, declined>>
    BY <1>2 DEF Resync, ResyncWrite, Ask, ReadPeriod, Bump, Unbump, LinkLook
  <2>3. PICK stage \in {"idle", "resync", "period", "bump", "unbump", "link"} :
          pc' = [pc EXCEPT ![r] = stage]
    BY <1>2 DEF Resync, ResyncWrite, Ask, ReadPeriod, Bump, Unbump, LinkLook, Begin, Goto, End
  <2>4. pc[r] \notin Handling
    BY <1>2 DEF Resync, ResyncWrite, Ask, ReadPeriod, Bump, Unbump, LinkLook
  <2>5. \A q \in Requests \ {r} : pc'[q] = pc[q] /\ job'[q] = job[q]
    BY <1>2, <2>1 DEF Resync, ResyncWrite, Ask, ReadPeriod, Bump, Unbump, LinkLook, Begin, Goto, End
  <2>6. pc'[r] = stage
    BY <2>1, <2>3
  <2>7. QED BY <2>2, <2>4, <2>5, <2>6
<1>3. ASSUME NEW r \in Requests, LinkInsert(r) PROVE EventQuiet
  <2>1. \A j \in Job : [j EXCEPT !.raced = TRUE].event = j.event
    BY DEF Job
  <2>2. \A q \in Requests : job[q] \in Job
    BY DEF TypeInv
  <2>3. QED BY <1>3, <2>1, <2>2 DEF LinkInsert, TypeInv
<1>4. QED BY <1>1, <1>2, <1>3

LEMMA EventInit ==
  ASSUME SubscriptionsOK, Init
  PROVE  ClaimedOnce /\ ClaimKept /\ WrittenOnce
<1>1. \A e : Count(applied, e) = 0
  <2>1. \A e : {i \in DOMAIN applied : applied[i] = e} = {}
    BY DEF Init
  <2>2. QED BY <2>1, FS_EmptySet DEF Count
<1>2. QED BY <1>1 DEF Init, ClaimedOnce, ClaimKept, WrittenOnce, Handling

\* What the handling of events keeps.
EventInv == ClaimedOnce /\ ClaimKept /\ WrittenOnce

LEMMA EventQuietStep ==
  ASSUME TypeInv, EventInv, EventQuiet
  PROVE  EventInv'
<1>1. \A e : Count(applied', e) = Count(applied, e)
  BY DEF EventQuiet
<1>2. ClaimedOnce'
  BY DEF EventInv, EventQuiet, ClaimedOnce
<1>3. ClaimKept'
  BY <1>1 DEF EventInv, EventQuiet, ClaimKept, Handling
<1>4. WrittenOnce'
  BY <1>1 DEF EventInv, EventQuiet, WrittenOnce, Handling
<1>5. QED BY <1>2, <1>3, <1>4 DEF EventInv

LEMMA DeliverEvents ==
  ASSUME SubscriptionsOK, TypeInv, EventInv, NEW r \in Requests, NEW e \in Events, Deliver(r, e)
  PROVE  EventInv'
<1>1. \A x : Count(applied', x) = Count(applied, x)
  BY DEF Deliver, trail
<1>2. CASE e \in claimed
  BY <1>1, <1>2 DEF Deliver, trail, EventInv, ClaimedOnce, ClaimKept, WrittenOnce
<1>3. CASE e \notin claimed
  <2>1. /\ claimed' = claimed \cup {e} /\ acked' = acked /\ pc[r] = "idle"
        /\ UNCHANGED <<lost, doubted, declined>>
    BY <1>3 DEF Deliver, trail
  <2>2. /\ pc'[r] = "handle" /\ job'[r].event = e
        /\ \A q \in Requests \ {r} : pc'[q] = pc[q] /\ job'[q] = job[q]
    BY <1>3 DEF Deliver, Begin, TypeInv, NoJob
  <2>3. \A q \in Requests : pc[q] \in Handling => job[q].event # e
    BY <1>3 DEF TypeInv
  <2>4. ClaimedOnce'
    BY <2>2, <2>3 DEF EventInv, ClaimedOnce
  <2>5. ClaimKept'
    <3>1. ASSUME NEW x \in (claimed' \cup acked') \ (lost' \cup declined'), x # e
          PROVE  \/ Count(applied, x) > 0
                 \/ \E q \in Requests : pc'[q] \in {"handle", "unclaim"} /\ job'[q].event = x
      BY <2>1, <2>2, <3>1 DEF EventInv, ClaimKept
    <3>2. \A q \in Requests : pc'[q] = "answer" =>
            Count(applied, job'[q].event) > 0 \/ job'[q].event \in declined'
      BY <2>1, <2>2 DEF EventInv, ClaimKept
    <3>3. QED BY <1>1, <2>2, <3>1, <3>2 DEF ClaimKept
  <2>6. WrittenOnce'
    BY <1>1, <1>3, <2>1, <2>2 DEF EventInv, WrittenOnce
  <2>7. QED BY <2>4, <2>5, <2>6 DEF EventInv
<1>4. QED BY <1>2, <1>3

LEMMA HandleEvents ==
  ASSUME SubscriptionsOK, TypeInv, EventInv, NEW r \in Requests, NEW replied \in BOOLEAN,
         Handle(r, replied)
  PROVE  EventInv'
<1> DEFINE e == job[r].event
<1>1. e \in claimed /\ e \in Events
  <2>1. e \in claimed
    BY DEF Handle, TypeInv, Handling
  <2>2. claimed \subseteq Events
    BY ScriptType DEF TypeInv, Events
  <2>3. QED BY <2>1, <2>2
<1>2. /\ pc[r] = "handle" /\ UNCHANGED <<claimed, acked, lost, declined>>
      /\ applied' = Append(applied, e)
  BY DEF Handle
<1>3. \A x : Count(applied, x) \in Nat /\ Count(applied', x) = IF x = e THEN Count(applied, x) + 1 ELSE Count(applied, x)
  BY <1>1, <1>2, CountType, OneMore DEF TypeInv
<1>4. /\ job'[r].event = e /\ \A q \in Requests \ {r} : pc'[q] = pc[q] /\ job'[q] = job[q]
      /\ \/ pc'[r] = "answer" /\ doubted' = doubted
         \/ pc'[r] = "unclaim" /\ doubted' = doubted \cup {e}
  BY DEF Handle, Goto, TypeInv
<1>5. \A q \in Requests \ {r} : pc[q] \in Handling => job[q].event # e
  BY <1>2 DEF EventInv, ClaimedOnce, Handling
<1> HIDE DEF e
<1>6. ClaimedOnce'
  BY <1>2, <1>4 DEF e, EventInv, ClaimedOnce, Handling
<1>7. ClaimKept'
  <2>1. ASSUME NEW x \in (claimed' \cup acked') \ (lost' \cup declined')
        PROVE  \/ Count(applied', x) > 0
               \/ \E q \in Requests : pc'[q] \in {"handle", "unclaim"} /\ job'[q].event = x
    <3>1. CASE x = e
      BY <1>3, <3>1
    <3>2. CASE x # e
      BY <1>2, <1>3, <1>4, <3>2 DEF e, EventInv, ClaimKept
    <3>3. QED BY <3>1, <3>2
  <2>2. \A q \in Requests : pc'[q] = "answer" =>
          Count(applied', job'[q].event) > 0 \/ job'[q].event \in declined'
    <3> TAKE q \in Requests
    <3>1. CASE q = r
      BY <1>3, <1>4, <3>1
    <3>2. CASE q # r
      BY <1>2, <1>3, <1>4, <3>2 DEF EventInv, ClaimKept
    <3>3. QED BY <3>1, <3>2
  <2>3. QED BY <2>1, <2>2 DEF ClaimKept
<1>8. WrittenOnce'
  <2>1. e \notin doubted => Count(applied, e) = 0
    BY <1>2 DEF e, EventInv, WrittenOnce
  <2>2. (\A x \in Events \ doubted' : Count(applied', x) <= 1) /\ \A x \in Events \ (doubted' \cup claimed') : Count(applied', x) = 0
    BY <1>1, <1>2, <1>3, <1>4, <2>1 DEF EventInv, WrittenOnce
  <2>3. ASSUME NEW q \in Requests, pc'[q] \in {"handle", "unclaim"},
               job'[q].event \notin doubted'
        PROVE  Count(applied', job'[q].event) = 0
    <3>1. q # r
      BY <1>4, <2>3
    <3>2. job'[q].event # e /\ pc[q] = pc'[q] /\ job'[q] = job[q]
      BY <1>4, <1>5, <2>3, <3>1 DEF Handling
    <3>3. QED BY <1>3, <1>4, <2>3, <3>2 DEF EventInv, WrittenOnce
  <2>4. QED BY <2>2, <2>3 DEF WrittenOnce
<1>9. QED BY <1>6, <1>7, <1>8 DEF EventInv

LEMMA AnswerEvents ==
  ASSUME SubscriptionsOK, TypeInv, EventInv, NEW r \in Requests,
         HandlerDeclines(r) \/ HandlerThrows(r) \/ Answer(r) \/ Unclaim(r)
  PROVE  EventInv'
<1> USE DEF Handling
<1>1. applied' = applied /\ doubted' = doubted /\ declined \subseteq declined'
  BY DEF HandlerDeclines, HandlerThrows, Answer, Unclaim, trail
<1>7. CASE HandlerDeclines(r)
  <2>1. /\ pc[r] = "handle" /\ pc'[r] = "answer" /\ job' = job
        /\ \A q \in Requests \ {r} : pc'[q] = pc[q]
        /\ UNCHANGED <<claimed, acked, lost>> /\ declined' = declined \cup {job[r].event}
    BY <1>7 DEF HandlerDeclines, Goto, TypeInv, stripe
  <2>2. ClaimedOnce'
    BY <2>1 DEF EventInv, ClaimedOnce
  <2>3. ClaimKept'
    BY <1>1, <2>1 DEF EventInv, ClaimKept
  <2>4. WrittenOnce'
    BY <1>1, <2>1 DEF EventInv, WrittenOnce
  <2>5. QED BY <2>2, <2>3, <2>4 DEF EventInv
<1>2. CASE HandlerThrows(r)
  <2>1. /\ pc[r] = "handle" /\ pc'[r] = "unclaim" /\ job' = job
        /\ \A q \in Requests \ {r} : pc'[q] = pc[q]
        /\ UNCHANGED <<claimed, acked, lost, declined>>
    BY <1>2 DEF HandlerThrows, Goto, TypeInv, stripe, trail
  <2>2. ClaimedOnce'
    BY <2>1 DEF EventInv, ClaimedOnce
  <2>3. ClaimKept'
    BY <1>1, <2>1 DEF EventInv, ClaimKept
  <2>4. WrittenOnce'
    BY <1>1, <2>1 DEF EventInv, WrittenOnce
  <2>5. QED BY <2>2, <2>3, <2>4 DEF EventInv
<1>3. ASSUME End(r)
      PROVE  /\ pc'[r] = "idle" /\ \A q \in Requests \ {r} : pc'[q] = pc[q] /\ job'[q] = job[q]
             /\ ClaimedOnce'
  BY <1>3, EndType DEF EventInv, ClaimedOnce
<1>4. CASE Answer(r)
  <2>1. /\ pc[r] = "answer" /\ acked' = acked \cup {job[r].event}
        /\ UNCHANGED <<claimed, lost, declined>> /\ End(r)
    BY <1>4 DEF Answer, trail
  <2>2. Count(applied, job[r].event) > 0 \/ job[r].event \in declined
    BY <2>1 DEF EventInv, ClaimKept
  <2>3. ClaimKept'
    BY <1>1, <1>3, <2>1, <2>2 DEF EventInv, ClaimKept
  <2>4. WrittenOnce'
    BY <1>1, <1>3, <2>1 DEF EventInv, WrittenOnce
  <2>5. QED BY <1>3, <2>1, <2>3, <2>4 DEF EventInv
<1>5. CASE Unclaim(r)
  <2> DEFINE e == job[r].event
  <2>1. /\ pc[r] = "unclaim" /\ acked' = acked /\ claimed' = claimed \ {e} /\ End(r)
        /\ lost' = (IF e \in acked THEN lost \cup {e} ELSE lost) /\ declined' = declined
    BY <1>5 DEF Unclaim
  <2>2. \A q \in Requests \ {r} : pc[q] \in Handling => job[q].event # e
    BY <2>1 DEF EventInv, ClaimedOnce
  <2>3. e \notin doubted => Count(applied, e) = 0
    BY <2>1 DEF EventInv, WrittenOnce
  <2> HIDE DEF e
  <2>4. ClaimKept'
    <3>1. e \notin (claimed' \cup acked') \ (lost' \cup declined')
      BY <2>1
    <3>2. (claimed' \cup acked') \ (lost' \cup declined') \subseteq (claimed \cup acked) \ (lost \cup declined)
      BY <2>1
    <3>3. ASSUME NEW x \in (claimed' \cup acked') \ (lost' \cup declined')
          PROVE  \/ Count(applied, x) > 0
                 \/ \E q \in Requests : pc'[q] \in {"handle", "unclaim"} /\ job'[q].event = x
      BY <1>3, <2>1, <3>1, <3>2 DEF e, EventInv, ClaimKept
    <3>4. QED BY <1>1, <1>3, <2>1, <3>3 DEF EventInv, ClaimKept
  <2>5. WrittenOnce'
    BY <1>1, <1>3, <2>1, <2>3 DEF EventInv, WrittenOnce
  <2>6. QED BY <1>3, <2>1, <2>4, <2>5 DEF EventInv
<1>6. QED BY <1>2, <1>4, <1>5, <1>7

LEMMA CrashEvents ==
  ASSUME SubscriptionsOK, TypeInv, EventInv, NEW r \in Requests, Crash(r)
  PROVE  EventInv'
<1> USE DEF Handling
<1>1. /\ UNCHANGED <<claimed, acked, applied, doubted, declined>>
      /\ lost' = IF pc[r] \in {"handle", "unclaim"} THEN lost \cup {job[r].event} ELSE lost
  BY DEF Crash, stripe
<1>2. pc'[r] = "idle" /\ \A q \in Requests \ {r} : pc'[q] = pc[q] /\ job'[q] = job[q]
  BY EndType DEF Crash
<1>3. ClaimedOnce'
  BY <1>2 DEF EventInv, ClaimedOnce
<1>4. ClaimKept'
  <2>1. ASSUME NEW x \in (claimed \cup acked) \ (lost' \cup declined)
        PROVE  \/ Count(applied, x) > 0
               \/ \E q \in Requests : pc'[q] \in {"handle", "unclaim"} /\ job'[q].event = x
    <3>1. x \in (claimed \cup acked) \ (lost \cup declined)
      BY <1>1, <2>1
    <3>2. CASE Count(applied, x) > 0
      BY <3>2
    <3>3. ASSUME NEW q \in Requests, pc[q] \in {"handle", "unclaim"}, job[q].event = x
          PROVE  pc'[q] \in {"handle", "unclaim"} /\ job'[q].event = x
      BY <1>1, <1>2, <2>1, <3>3
    <3>4. QED BY <3>1, <3>2, <3>3 DEF EventInv, ClaimKept
  <2>2. QED BY <1>1, <1>2, <2>1 DEF EventInv, ClaimKept
<1>5. WrittenOnce'
  BY <1>1, <1>2 DEF EventInv, WrittenOnce
<1>6. QED BY <1>3, <1>4, <1>5 DEF EventInv

LEMMA EventNext ==
  ASSUME SubscriptionsOK, TypeInv, EventInv, [Next]_vars
  PROVE  TypeInv' /\ EventInv'
<1>1. CASE Tick \/ StripeSends \/ UnlinkOne \/ ForceCancel \/ \E plan \in Grants : Grant(plan)
  BY <1>1, QuietTypes, QuietEvents, EventQuietStep
<1>2. ASSUME NEW r \in Requests,
             \/ Resync(r) \/ ResyncWrite(r) \/ \E n \in Amounts : Ask(r, n)
             \/ ReadPeriod(r) \/ Bump(r) \/ Unbump(r) \/ LinkLook(r) \/ LinkInsert(r)
      PROVE  TypeInv' /\ EventInv'
  <2>1. EventInv'
    BY <1>2, QuietEvents, EventQuietStep
  <2>2. TypeInv'
    BY <1>2, WebhookTypes, QuotaTypes, OtherTypes DEF EventInv
  <2>3. QED BY <2>1, <2>2
<1>3. ASSUME NEW r \in Requests, NEW e \in Events, Deliver(r, e)
      PROVE  TypeInv' /\ EventInv'
  BY <1>3, DeliverType, DeliverEvents
<1>4. ASSUME NEW r \in Requests, NEW replied \in BOOLEAN, Handle(r, replied)
      PROVE  TypeInv' /\ EventInv'
  BY <1>4, WebhookTypes, HandleEvents DEF EventInv
<1>5. ASSUME NEW r \in Requests, HandlerDeclines(r) \/ HandlerThrows(r) \/ Answer(r) \/ Unclaim(r)
      PROVE  TypeInv' /\ EventInv'
  BY <1>5, WebhookTypes, AnswerEvents DEF EventInv
<1>6. ASSUME NEW r \in Requests, Crash(r) PROVE TypeInv' /\ EventInv'
  BY <1>6, OtherTypes, CrashEvents
<1>7. CASE UNCHANGED vars
  BY <1>7 DEF Had, vars, stripe, usage, bank, bounds, trail, TypeInv, EventInv, ClaimedOnce,
              ClaimKept, WrittenOnce
<1>8. QED BY <1>1, <1>2, <1>3, <1>4, <1>5, <1>6, <1>7 DEF Next

-----------------------------------------------------------------------------
(* Usage: CounterExact and QuotaHeld.                                      *)

\* A request that is to give back n units, beside others, has n in the sum.
LEMMA UnitsAdd ==
  ASSUME NEW O, IsFiniteSet(O), NEW r, NEW n \in Nat, NEW N, N = {r} \X (1..n), O \cap N = {}
  PROVE  IsFiniteSet(O \cup N) /\ Cardinality(O \cup N) = Cardinality(O) + n
<1>1. IsFiniteSet(1..n) /\ Cardinality(1..n) = n
  BY FS_Interval
<1>2. IsFiniteSet({r}) /\ Cardinality({r}) = 1
  BY FS_Singleton
<1>3. IsFiniteSet(N) /\ Cardinality(N) = Cardinality({r}) * Cardinality(1..n)
  BY <1>1, <1>2, FS_Product, Zenon
<1>4. Cardinality(N) = n
  BY <1>1, <1>2, <1>3
<1>5. Cardinality(O) \in Nat /\ Cardinality({}) = 0
  BY FS_CardinalityType, FS_EmptySet
<1>6. /\ IsFiniteSet(O \cup N)
      /\ Cardinality(O \cup N) = Cardinality(O) + Cardinality(N) - Cardinality(O \cap N)
  BY <1>3, FS_Union
<1>7. QED BY <1>4, <1>5, <1>6

LEMMA OwedMember ==
  ASSUME NEW p
  PROVE  \A x : x \in Owed(p) <=>
           \E r \in Refusing(p) : \E k \in 1..job[r].n : x = <<r, k>>
  BY DEF Owed

\* A request joins, or leaves, those that are to give units of p back.
LEMMA OwedJoins ==
  ASSUME TypeInv, OwedFinite, NEW p \in Periods, NEW r \in Requests, r \notin Refusing(p),
         Refusing(p)' = Refusing(p) \cup {r}, \A q \in Requests : job'[q].n = job[q].n
  PROVE  IsFiniteSet(Owed(p)') /\ Cardinality(Owed(p)') = Cardinality(Owed(p)) + job[r].n
<1>1. IsFiniteSet(Owed(p)) /\ job[r].n \in Nat
  BY DEF OwedFinite, TypeInv, Job
<1> DEFINE N == {r} \X (1..job[r].n)
<1>2. Owed(p)' = Owed(p) \cup N
  <2>1. Refusing(p) \subseteq Requests
    BY DEF Refusing
  <2>2. Owed(p)' = UNION {{q} \X (1..job'[q].n) : q \in Refusing(p) \cup {r}}
    BY DEF Owed
  <2>3. \A q \in Refusing(p) \cup {r} : {q} \X (1..job'[q].n) = {q} \X (1..job[q].n)
    BY <2>1
  <2>4. QED BY <2>2, <2>3 DEF Owed
<1>3. Owed(p) \cap N = {}
  BY OwedMember
<1>4. N = {r} \X (1..job[r].n)
  OBVIOUS
<1> HIDE DEF N
<1>5. IsFiniteSet(Owed(p) \cup N) /\ Cardinality(Owed(p) \cup N) = Cardinality(Owed(p)) + job[r].n
  <2>1. PICK n \in Nat : n = job[r].n
    BY <1>1
  <2>2. PICK O : O = Owed(p)
    OBVIOUS
  <2>3. IsFiniteSet(O) /\ N = {r} \X (1..n) /\ O \cap N = {}
    BY <1>1, <1>3, <1>4, <2>1, <2>2
  <2>4. IsFiniteSet(O \cup N) /\ Cardinality(O \cup N) = Cardinality(O) + n
    BY <2>3, UnitsAdd
  <2>5. QED BY <2>1, <2>2, <2>4
<1>6. QED BY <1>2, <1>5

LEMMA OwedLeaves ==
  ASSUME TypeInv, OwedFinite, NEW p \in Periods, NEW r \in Refusing(p),
         Refusing(p)' = Refusing(p) \ {r}, \A q \in Requests \ {r} : job'[q].n = job[q].n
  PROVE  /\ job[r].n \in Nat /\ IsFiniteSet(Owed(p)')
         /\ Cardinality(Owed(p)) = Cardinality(Owed(p)') + job[r].n
<1>1. IsFiniteSet(Owed(p)) /\ r \in Requests /\ job[r].n \in Nat
  BY DEF OwedFinite, TypeInv, Job, Refusing
<1> DEFINE Rest == UNION {{q} \X (1..job[q].n) : q \in Refusing(p) \ {r}}
<1>2. Owed(p)' = Rest
  <2>1. Refusing(p) \subseteq Requests
    BY DEF Refusing
  <2>2. Owed(p)' = UNION {{q} \X (1..job'[q].n) : q \in Refusing(p) \ {r}}
    BY DEF Owed
  <2>3. \A q \in Refusing(p) \ {r} : {q} \X (1..job'[q].n) = {q} \X (1..job[q].n)
    BY <2>1
  <2>4. QED BY <2>2, <2>3
<1> DEFINE N == {r} \X (1..job[r].n)
<1>3. Owed(p) = Rest \cup N /\ Rest \subseteq Owed(p)
  BY DEF Owed
<1>4. Rest \cap N = {} /\ N = {r} \X (1..job[r].n)
  OBVIOUS
<1>5. IsFiniteSet(Rest)
  BY <1>1, <1>3, FS_Subset
<1> HIDE DEF Rest, N
<1>6. Cardinality(Rest \cup N) = Cardinality(Rest) + job[r].n
  <2>1. PICK n \in Nat : n = job[r].n
    BY <1>1
  <2>2. PICK O : O = Rest
    OBVIOUS
  <2>3. IsFiniteSet(O) /\ N = {r} \X (1..n) /\ O \cap N = {}
    BY <1>4, <1>5, <2>1, <2>2
  <2>4. Cardinality(O \cup N) = Cardinality(O) + n
    BY <2>3, UnitsAdd
  <2>5. QED BY <2>1, <2>2, <2>4
<1>7. QED BY <1>1, <1>2, <1>3, <1>5, <1>6

LEMMA OwedStays ==
  ASSUME TypeInv, NEW p, Refusing(p)' = Refusing(p),
         \A q \in Refusing(p) : job'[q].n = job[q].n
  PROVE  Owed(p)' = Owed(p)
<1>1. Owed(p)' = UNION {{q} \X (1..job'[q].n) : q \in Refusing(p)}
  BY DEF Owed
<1>2. \A q \in Refusing(p) : {q} \X (1..job'[q].n) = {q} \X (1..job[q].n)
  OBVIOUS
<1>3. QED BY <1>1, <1>2 DEF Owed

\* What the counting of usage keeps.
UsageInv == QuotaOfPlan /\ OwedFinite /\ CounterExact /\ QuotaHeld

Metering == {"period", "bump", "unbump"}
\* The steps that count nothing.
UsageQuiet ==
    /\ UNCHANGED usage
    /\ \A q \in Requests :
         \/ /\ pc'[q] = pc[q] /\ job'[q].n = job[q].n
            /\ job'[q].cap = job[q].cap /\ job'[q].period = job[q].period
         \/ pc[q] \notin Metering /\ pc'[q] \notin Metering

LEMMA UsageQuietStep ==
  ASSUME TypeInv, UsageInv, UsageQuiet
  PROVE  UsageInv'
<1> USE DEF Metering
<1>1. \A p : Refusing(p)' = Refusing(p) /\ \A q \in Refusing(p) : job'[q].n = job[q].n
  BY DEF UsageQuiet, Refusing
<1>2. \A p : Owed(p)' = Owed(p)
  BY <1>1, OwedStays
<1>3. QuotaOfPlan'
  BY DEF UsageInv, UsageQuiet, QuotaOfPlan
<1>4. OwedFinite' /\ CounterExact' /\ QuotaHeld'
  BY <1>2 DEF UsageInv, UsageQuiet, OwedFinite, CounterExact, QuotaHeld, usage
<1>5. QED BY <1>3, <1>4 DEF UsageInv

\* In particular no more is granted than counted.
LEMMA GrantedCounted ==
  ASSUME TypeInv, UsageInv, NEW p \in Periods
  PROVE  granted[p] <= counter[p]
<1>1. Cardinality(Owed(p)) \in Nat
  BY FS_CardinalityType DEF UsageInv, OwedFinite
<1>2. counter[p] = granted[p] + leaked[p] + Cardinality(Owed(p))
  BY DEF UsageInv, CounterExact
<1>3. granted[p] \in Nat /\ leaked[p] \in Nat
  BY DEF TypeInv
<1>4. QED BY <1>1, <1>2, <1>3

LEMMA QuietUsage ==
  ASSUME SubscriptionsOK, TypeInv,
         \/ Tick \/ StripeSends \/ UnlinkOne \/ ForceCancel \/ \E plan \in Grants : Grant(plan)
         \/ \E r \in Requests :
              \/ \E e \in Events : Deliver(r, e)
              \/ \E replied \in BOOLEAN : Handle(r, replied)
              \/ HandlerDeclines(r) \/ HandlerThrows(r) \/ Answer(r) \/ Unclaim(r)
              \/ Resync(r) \/ ResyncWrite(r)
              \/ LinkLook(r) \/ LinkInsert(r)
  PROVE  UsageQuiet
<1> USE DEF UsageQuiet, Metering
<1>1. CASE Tick \/ StripeSends \/ UnlinkOne \/ ForceCancel \/ \E plan \in Grants : Grant(plan)
  BY <1>1 DEF Tick, StripeSends, UnlinkOne, ForceCancel, Grant
<1>2. ASSUME NEW r \in Requests,
             \/ \E replied \in BOOLEAN : Handle(r, replied)
             \/ HandlerDeclines(r) \/ HandlerThrows(r) \/ Answer(r) \/ Unclaim(r)
             \/ Resync(r) \/ ResyncWrite(r)
             \/ LinkLook(r)
      PROVE  UsageQuiet
  <2>1. pc \in [Requests -> Stages] /\ job \in [Requests -> Job]
    BY DEF TypeInv
  <2>2. UNCHANGED usage /\ pc[r] \notin Metering
    BY <1>2 DEF Handle, HandlerDeclines, HandlerThrows, Answer, Unclaim, Resync,
                ResyncWrite, LinkLook
  <2>3. PICK stage \in {"idle", "answer", "unclaim", "resync", "link"} :
          pc' = [pc EXCEPT ![r] = stage]
    BY <1>2 DEF Handle, HandlerDeclines, HandlerThrows, Answer, Unclaim, Resync,
                ResyncWrite, LinkLook, Begin, Goto, End
  <2>4. \A q \in Requests \ {r} : job'[q] = job[q]
    BY <1>2, <2>1 DEF Handle, HandlerDeclines, HandlerThrows, Answer, Unclaim, Resync,
                ResyncWrite, LinkLook, Begin, Goto, End
  <2>5. pc'[r] = stage /\ \A q \in Requests \ {r} : pc'[q] = pc[q]
    BY <2>1, <2>3
  <2>6. QED BY <2>2, <2>4, <2>5
<1>3. ASSUME NEW r \in Requests, NEW e \in Events, Deliver(r, e) PROVE UsageQuiet
  <2>1. CASE e \in claimed
    BY <1>3, <2>1 DEF Deliver
  <2>2. CASE e \notin claimed
    BY <1>3, <2>2 DEF Deliver, Begin, TypeInv
  <2>3. QED BY <2>1, <2>2
<1>4. ASSUME NEW r \in Requests, LinkInsert(r) PROVE UsageQuiet
  <2>1. \A j \in Job : LET i == [j EXCEPT !.raced = TRUE] IN
          i.n = j.n /\ i.cap = j.cap /\ i.period = j.period
    BY DEF Job
  <2>2. \A q \in Requests : job[q] \in Job
    BY DEF TypeInv
  <2>3. QED BY <1>4, <2>1, <2>2 DEF LinkInsert, TypeInv
<1>5. QED BY <1>1, <1>2, <1>3, <1>4

LEMMA AskUsage ==
  ASSUME SubscriptionsOK, TypeInv, UsageInv, NEW r \in Requests,
         (\E n \in Amounts : Ask(r, n)) \/ ReadPeriod(r)
  PROVE  UsageInv'
<1>1. \A p : Refusing(p)' = Refusing(p) /\ \A q \in Refusing(p) : job'[q].n = job[q].n
  BY DEF Ask, ReadPeriod, Begin, TypeInv, Refusing
<1>2. \A p : Owed(p)' = Owed(p)
  BY <1>1, OwedStays
<1>3. QuotaOfPlan'
  <2>1. CASE ReadPeriod(r)
    <3>1. PICK j \in Job : j = job[r]
      BY DEF TypeInv
    <3>2. [j EXCEPT !.period = PeriodStart].cap = j.cap
      BY DEF Job
    <3>3. pc[r] = "period" /\ job'[r].cap = job[r].cap
      BY <2>1, <3>1, <3>2 DEF ReadPeriod, Begin, TypeInv
    <3>4. \A q \in Requests \ {r} : pc'[q] = pc[q] /\ job'[q] = job[q]
      BY <2>1 DEF ReadPeriod, Begin, TypeInv
    <3>5. QED BY <3>3, <3>4 DEF UsageInv, QuotaOfPlan
  <2>2. ASSUME NEW n \in Amounts, Ask(r, n) PROVE QuotaOfPlan'
    <3>1. sub.plan \in Plans
      <4>1. sub.status # "none"
        BY <2>2 DEF Ask, Entitled
      <4>2. QED BY <4>1, HadType DEF NoSub, TypeInv
    <3>2. job'[r].cap = Quota[sub.plan]
      BY <2>2 DEF Ask, Begin, TypeInv, NoJob
    <3>3. \A q \in Requests \ {r} : pc'[q] = pc[q] /\ job'[q] = job[q]
      BY <2>2 DEF Ask, Begin, TypeInv
    <3>4. QED BY <3>1, <3>2, <3>3 DEF UsageInv, QuotaOfPlan
  <2>3. QED BY <2>1, <2>2
<1>4. UNCHANGED usage
  BY DEF Ask, ReadPeriod
<1>5. OwedFinite' /\ CounterExact' /\ QuotaHeld'
  BY <1>2, <1>4 DEF UsageInv, OwedFinite, CounterExact, QuotaHeld, usage
<1>6. QED BY <1>3, <1>5 DEF UsageInv

LEMMA BumpUsage ==
  ASSUME SubscriptionsOK, TypeInv, UsageInv, NEW r \in Requests, Bump(r)
  PROVE  UsageInv'
<1>0. job[r].period \in Periods /\ job[r].n \in Nat /\ job[r].cap \in Nat
  BY DEF TypeInv, Job
<1>1. PICK p \in Periods, n \in Nat, cap \in Nat :
        p = job[r].period /\ n = job[r].n /\ cap = job[r].cap
  BY <1>0
<1>2. /\ pc[r] = "bump" /\ leaked' = leaked /\ counter'[p] = counter[p] + n
      /\ \A x \in Periods \ {p} : counter'[x] = counter[x]
  BY <1>1 DEF Bump, TypeInv
<1>3. \A q \in Requests \ {r} : pc'[q] = pc[q] /\ job'[q] = job[q]
  BY DEF Bump, TypeInv, Goto, End, Begin
<1>4. PICK plan \in Plans : cap = Quota[plan]
  BY <1>1, <1>2 DEF UsageInv, QuotaOfPlan
<1>5. CASE cap # Unlimited /\ counter'[p] > cap
  <2>1. pc'[r] = "unbump" /\ job' = job /\ granted' = granted
    BY <1>1, <1>5 DEF Bump, Goto, TypeInv
  <2>2. r \notin Refusing(p) /\ Refusing(p)' = Refusing(p) \cup {r}
    BY <1>1, <1>2, <1>3, <2>1 DEF Refusing
  <2>3. IsFiniteSet(Owed(p)') /\ Cardinality(Owed(p)') = Cardinality(Owed(p)) + n
    BY <1>1, <2>1, <2>2, OwedJoins DEF UsageInv
  <2>4. \A x \in Periods \ {p} : Refusing(x)' = Refusing(x)
    BY <1>1, <1>2, <1>3, <2>1 DEF Refusing
  <2>5. \A x \in Periods \ {p} : Owed(x)' = Owed(x)
    BY <2>1, <2>4, OwedStays
  <2>6. CounterExact'
    <3> SUFFICES ASSUME NEW x \in Periods
                 PROVE  counter'[x] = granted'[x] + leaked'[x] + Cardinality(Owed(x)')
      BY DEF CounterExact
    <3>1. counter[x] = granted[x] + leaked[x] + Cardinality(Owed(x))
      BY DEF UsageInv, CounterExact
    <3>2. granted[x] \in Nat /\ leaked[x] \in Nat /\ Cardinality(Owed(x)) \in Nat
      BY FS_CardinalityType DEF TypeInv, UsageInv, OwedFinite
    <3>3. CASE x = p
      BY <1>1, <1>2, <2>1, <2>3, <3>1, <3>2, <3>3
    <3>4. CASE x # p
      BY <1>2, <2>1, <2>5, <3>1, <3>4
    <3>5. QED BY <3>3, <3>4
  <2>7. OwedFinite' /\ QuotaHeld'
    BY <2>1, <2>3, <2>5 DEF UsageInv, OwedFinite, QuotaHeld
  <2>8. QuotaOfPlan'
    BY <1>3, <2>1 DEF UsageInv, QuotaOfPlan
  <2>9. QED BY <2>6, <2>7, <2>8 DEF UsageInv
<1>6. CASE ~(cap # Unlimited /\ counter'[p] > cap)
  <2>1. /\ pc'[r] = "idle" /\ granted'[p] = granted[p] + n
        /\ \A x \in Periods \ {p} : granted'[x] = granted[x]
    BY <1>1, <1>6 DEF Bump, End, Begin, TypeInv
  <2>2. \A x \in Periods : Refusing(x)' = Refusing(x) /\ r \notin Refusing(x)
    BY <1>2, <1>3, <2>1 DEF Refusing
  <2>3. \A x \in Periods : \A q \in Refusing(x) : job'[q].n = job[q].n
    BY <1>3, <2>2 DEF Refusing
  <2>4. \A x \in Periods : Owed(x)' = Owed(x)
    BY <2>2, <2>3, OwedStays
  <2>5. granted[p] <= counter[p] /\ granted[p] \in Nat /\ counter[p] \in Int
    BY <1>1, GrantedCounted DEF TypeInv
  <2>6. cap = Unlimited \/ granted'[p] <= cap
    BY <1>1, <1>2, <1>6, <2>1, <2>5
  <2>7. QuotaHeld'
    BY <1>4, <2>1, <2>6 DEF UsageInv, QuotaHeld
  <2>8. CounterExact'
    <3> SUFFICES ASSUME NEW x \in Periods
                 PROVE  counter'[x] = granted'[x] + leaked'[x] + Cardinality(Owed(x)')
      BY DEF CounterExact
    <3>1. counter[x] = granted[x] + leaked[x] + Cardinality(Owed(x))
      BY DEF UsageInv, CounterExact
    <3>2. granted[x] \in Nat /\ leaked[x] \in Nat /\ Cardinality(Owed(x)) \in Nat
      BY FS_CardinalityType DEF TypeInv, UsageInv, OwedFinite
    <3>3. CASE x = p
      BY <1>1, <1>2, <2>1, <2>4, <3>1, <3>2, <3>3
    <3>4. CASE x # p
      BY <1>2, <2>1, <2>4, <3>1, <3>4
    <3>5. QED BY <3>3, <3>4
  <2>9. OwedFinite' /\ QuotaOfPlan'
    BY <1>3, <2>1, <2>4 DEF UsageInv, OwedFinite, QuotaOfPlan
  <2>10. QED BY <2>7, <2>8, <2>9 DEF UsageInv
<1>7. QED BY <1>5, <1>6

\* The units are given back, or the request dies before it could.
LEMMA RefusalEnds ==
  ASSUME SubscriptionsOK, TypeInv, UsageInv, NEW r \in Requests,
         pc[r] = "unbump", Unbump(r) \/ Crash(r)
  PROVE  UsageInv'
<1>0. job[r].period \in Periods /\ job[r].n \in Nat
  BY DEF TypeInv, Job
<1>1. PICK p \in Periods, n \in Nat : p = job[r].period /\ n = job[r].n
  BY <1>0
<1>2. pc'[r] = "idle" /\ \A q \in Requests \ {r} : pc'[q] = pc[q] /\ job'[q] = job[q]
  BY EndType DEF Unbump, Crash
<1>3. /\ granted' = granted
      /\ counter'[p] - leaked'[p] = counter[p] - leaked[p] - n
      /\ \A x \in Periods \ {p} : counter'[x] = counter[x] /\ leaked'[x] = leaked[x]
  <2>1. CASE Unbump(r)
    BY <1>1, <2>1 DEF Unbump, TypeInv
  <2>2. CASE Crash(r)
    BY <1>1, <2>2 DEF Crash, TypeInv
  <2>3. QED BY <2>1, <2>2
<1>4. r \in Refusing(p) /\ Refusing(p)' = Refusing(p) \ {r}
  BY <1>1, <1>2 DEF Refusing
<1>5. IsFiniteSet(Owed(p)') /\ Cardinality(Owed(p)) = Cardinality(Owed(p)') + n
  BY <1>1, <1>2, <1>4, OwedLeaves DEF UsageInv
<1>6. \A x \in Periods \ {p} : Refusing(x)' = Refusing(x) /\ r \notin Refusing(x)
  BY <1>1, <1>2 DEF Refusing
<1>7. \A x \in Periods \ {p} : Owed(x)' = Owed(x)
  <2>1. \A x \in Periods \ {p} : \A q \in Refusing(x) : job'[q].n = job[q].n
    BY <1>2, <1>6 DEF Refusing
  <2>2. QED BY <1>6, <2>1, OwedStays
<1>8. counter'[p] \in Int /\ leaked'[p] \in Nat
  BY <1>1, QuotaTypes, OtherTypes DEF TypeInv
<1>9. CounterExact'
  <2> SUFFICES ASSUME NEW x \in Periods
               PROVE  counter'[x] = granted'[x] + leaked'[x] + Cardinality(Owed(x)')
    BY DEF CounterExact
  <2>1. counter[x] = granted[x] + leaked[x] + Cardinality(Owed(x))
    BY DEF UsageInv, CounterExact
  <2>2. granted[x] \in Nat /\ leaked[x] \in Nat /\ Cardinality(Owed(x)) \in Nat
    BY FS_CardinalityType DEF TypeInv, UsageInv, OwedFinite
  <2>3. CASE x = p
    <3>1. Cardinality(Owed(p)') \in Nat
      BY <1>5, FS_CardinalityType
    <3>2. QED BY <1>1, <1>3, <1>5, <1>8, <2>1, <2>2, <2>3, <3>1
  <2>4. CASE x # p
    BY <1>3, <1>7, <2>1, <2>4
  <2>5. QED BY <2>3, <2>4
<1>10. OwedFinite' /\ QuotaHeld' /\ QuotaOfPlan'
  BY <1>2, <1>3, <1>5, <1>7 DEF UsageInv, OwedFinite, QuotaHeld, QuotaOfPlan
<1>11. QED BY <1>9, <1>10 DEF UsageInv

LEMMA CrashUsage ==
  ASSUME SubscriptionsOK, TypeInv, UsageInv, NEW r \in Requests, Crash(r), pc[r] # "unbump"
  PROVE  UsageInv'
<1>1. pc'[r] = "idle" /\ \A q \in Requests \ {r} : pc'[q] = pc[q] /\ job'[q] = job[q]
  BY EndType DEF Crash
<1>2. UNCHANGED usage
  BY DEF Crash, usage
<1>3. \A p : Refusing(p)' = Refusing(p) /\ \A q \in Refusing(p) : job'[q].n = job[q].n
  BY <1>1 DEF Refusing
<1>4. \A p : Owed(p)' = Owed(p)
  BY <1>3, OwedStays
<1>5. QED BY <1>1, <1>2, <1>4
          DEF UsageInv, OwedFinite, CounterExact, QuotaHeld, QuotaOfPlan, usage

LEMMA UsageInit == ASSUME SubscriptionsOK, Init PROVE UsageInv
<1>1. \A p : Owed(p) = {}
  BY DEF Init, Owed, Refusing
<1>2. IsFiniteSet({}) /\ Cardinality({}) = 0
  BY FS_EmptySet
<1>3. \A p \in Periods : counter[p] = 0 /\ granted[p] = 0 /\ leaked[p] = 0
  BY DEF Init
<1>4. OwedFinite /\ CounterExact
  <2> SUFFICES ASSUME NEW p \in Periods
               PROVE  /\ IsFiniteSet(Owed(p))
                      /\ counter[p] = granted[p] + leaked[p] + Cardinality(Owed(p))
    BY DEF OwedFinite, CounterExact
  <2>1. Owed(p) = {} /\ Cardinality(Owed(p)) = 0
    BY <1>1, <1>2
  <2>2. QED BY <1>2, <1>3, <2>1
<1>5. QuotaHeld
  <2>1. \A q \in Plans : Quota[q] \in Nat
    BY ScriptType DEF Plans, SubscriptionsOK, Event
  <2>2. PICK q \in Plans : TRUE
    BY DEF SubscriptionsOK
  <2>3. QED BY <2>1, <2>2 DEF Init, QuotaHeld
<1>6. QuotaOfPlan
  BY DEF Init, QuotaOfPlan
<1>7. QED BY <1>4, <1>5, <1>6 DEF UsageInv

LEMMA UsageNext ==
  ASSUME SubscriptionsOK, TypeInv, UsageInv, [Next]_vars
  PROVE  UsageInv'
<1>1. CASE Tick \/ StripeSends \/ UnlinkOne \/ ForceCancel \/ \E plan \in Grants : Grant(plan)
  BY <1>1, QuietUsage, UsageQuietStep
<1>2. ASSUME NEW r \in Requests,
             \/ \E e \in Events : Deliver(r, e)
             \/ \E replied \in BOOLEAN : Handle(r, replied)
             \/ HandlerDeclines(r) \/ HandlerThrows(r) \/ Answer(r) \/ Unclaim(r)
             \/ Resync(r) \/ ResyncWrite(r)
             \/ LinkLook(r) \/ LinkInsert(r)
      PROVE  UsageInv'
  BY <1>2, QuietUsage, UsageQuietStep
<1>3. ASSUME NEW r \in Requests,
             \/ \E n \in Amounts : Ask(r, n)
             \/ ReadPeriod(r) \/ Bump(r) \/ Unbump(r) \/ Crash(r)
      PROVE  UsageInv'
  <2>1. Unbump(r) => pc[r] = "unbump"
    BY DEF Unbump
  <2>2. QED BY <1>3, <2>1, AskUsage, BumpUsage, RefusalEnds, CrashUsage
<1>4. CASE UNCHANGED vars
  BY <1>4, UsageQuietStep DEF vars, usage, UsageQuiet
<1>5. QED BY <1>1, <1>2, <1>3, <1>4 DEF Next

-----------------------------------------------------------------------------
(* Connections: SlotsHeld.                                                 *)

\* What the counting of connections keeps.
SlotsInv == SlotLeft /\ SlotsHeld

\* The steps that neither look for a slot nor take one.
BankQuiet ==
    /\ links' <= links /\ raced' = raced
    /\ \A q \in Requests :
         pc'[q] = "link" => pc[q] = "link" /\ job'[q].raced = job[q].raced

LEMMA BankQuietStep ==
  ASSUME SubscriptionsOK, TypeInv, SlotsInv, BankQuiet, links' \in Nat
  PROVE  SlotsInv'
<1>1. \A q \in Plans : Connections[q] \in Nat
  BY ScriptType DEF Plans, SubscriptionsOK, Event
<1>2. links \in Nat /\ raced \in Nat
  BY DEF TypeInv
<1>3. SlotLeft'
  <2> SUFFICES ASSUME NEW r \in Requests, pc'[r] = "link", ~job'[r].raced
               PROVE  \E q \in Plans : links' + 1 <= Connections[q]
    BY DEF SlotLeft
  <2>1. PICK q \in Plans : links + 1 <= Connections[q]
    BY DEF SlotsInv, SlotLeft, BankQuiet
  <2>2. QED BY <1>1, <1>2, <2>1 DEF BankQuiet
<1>4. SlotsHeld'
  <2>1. PICK q \in Plans : links <= Connections[q] + raced
    BY DEF SlotsInv, SlotsHeld
  <2>2. QED BY <1>1, <1>2, <2>1 DEF BankQuiet, SlotsHeld
<1>5. QED BY <1>3, <1>4 DEF SlotsInv

LEMMA QuietBank ==
  ASSUME SubscriptionsOK, TypeInv,
         \/ Tick \/ StripeSends \/ UnlinkOne \/ ForceCancel \/ \E plan \in Grants : Grant(plan)
         \/ \E r \in Requests :
              \/ \E e \in Events : Deliver(r, e)
              \/ \E replied \in BOOLEAN : Handle(r, replied)
              \/ HandlerDeclines(r) \/ HandlerThrows(r) \/ Answer(r) \/ Unclaim(r)
              \/ Resync(r) \/ ResyncWrite(r)
              \/ \E n \in Amounts : Ask(r, n)
              \/ ReadPeriod(r) \/ Bump(r) \/ Unbump(r) \/ Crash(r)
  PROVE  BankQuiet
<1>1. links \in Nat
  BY DEF TypeInv
<1>2. CASE Tick \/ StripeSends \/ UnlinkOne \/ ForceCancel \/ \E plan \in Grants : Grant(plan)
  BY <1>1, <1>2 DEF Tick, StripeSends, UnlinkOne, ForceCancel, Grant, bank, BankQuiet
<1>3. ASSUME NEW r \in Requests,
             \/ \E replied \in BOOLEAN : Handle(r, replied)
             \/ HandlerDeclines(r) \/ HandlerThrows(r) \/ Answer(r) \/ Unclaim(r)
             \/ Resync(r) \/ ResyncWrite(r)
             \/ \E n \in Amounts : Ask(r, n)
             \/ ReadPeriod(r) \/ Bump(r) \/ Unbump(r) \/ Crash(r)
      PROVE  BankQuiet
  <2>1. pc \in [Requests -> Stages] /\ job \in [Requests -> Job]
    BY DEF TypeInv
  <2>2. UNCHANGED bank
    BY <1>3 DEF Handle, HandlerDeclines, HandlerThrows, Answer, Unclaim, Resync, ResyncWrite, Ask, ReadPeriod,
                Bump, Unbump, Crash
  <2>3. PICK stage \in Stages \ {"link"} : pc' = [pc EXCEPT ![r] = stage]
    BY <1>3 DEF Handle, HandlerDeclines, HandlerThrows, Answer, Unclaim, Resync, ResyncWrite, Ask, ReadPeriod,
                Bump, Unbump, Crash, Begin, Goto, End, Stages
  <2>4. \A q \in Requests \ {r} : job'[q] = job[q]
    <3>1. job' = job \/ \E j : job' = [job EXCEPT ![r] = j]
      BY <1>3 DEF Handle, HandlerDeclines, HandlerThrows, Answer, Unclaim, Resync, ResyncWrite, Ask,
                  ReadPeriod, Bump, Unbump, Crash, Begin, Goto, End
    <3>2. QED BY <2>1, <3>1
  <2>5. pc'[r] # "link" /\ \A q \in Requests \ {r} : pc'[q] = pc[q]
    BY <2>1, <2>3
  <2>6. QED BY <1>1, <2>2, <2>4, <2>5 DEF BankQuiet, bank
<1>4. ASSUME NEW r \in Requests, NEW e \in Events, Deliver(r, e) PROVE BankQuiet
  <2>1. CASE e \in claimed
    BY <1>1, <1>4, <2>1 DEF Deliver, BankQuiet, bank
  <2>2. CASE e \notin claimed
    BY <1>1, <1>4, <2>2 DEF Deliver, Begin, TypeInv, BankQuiet, bank
  <2>3. QED BY <2>1, <2>2
<1>5. QED BY <1>2, <1>3, <1>4

LEMMA LinkLookSlots ==
  ASSUME SubscriptionsOK, TypeInv, SlotsInv, NEW r \in Requests, LinkLook(r)
  PROVE  SlotsInv'
<1>1. sub.plan \in Plans
  <2>1. sub.status # "none"
    BY DEF LinkLook, Entitled
  <2>2. QED BY <2>1, HadType DEF NoSub, TypeInv
<1>2. Connections[sub.plan] \in Nat /\ links \in Nat
  BY <1>1, ScriptType DEF Plans, SubscriptionsOK, Event, TypeInv
<1>3. links + 1 <= Connections[sub.plan] /\ links' = links /\ raced' = raced
  BY <1>2 DEF LinkLook, bank
<1>4. \A q \in Requests \ {r} : pc'[q] = pc[q] /\ job'[q] = job[q]
  BY DEF LinkLook, Begin, TypeInv
<1>5. QED BY <1>1, <1>3, <1>4 DEF SlotsInv, SlotLeft, SlotsHeld

LEMMA LinkInsertSlots ==
  ASSUME SubscriptionsOK, TypeInv, SlotsInv, NEW r \in Requests, LinkInsert(r)
  PROVE  SlotsInv'
<1>1. \A q \in Plans : Connections[q] \in Nat
  BY ScriptType DEF Plans, SubscriptionsOK, Event
<1>2. links \in Nat /\ raced \in Nat /\ links' = links + 1
  BY DEF TypeInv, LinkInsert
<1>3. SlotsHeld'
  <2>1. CASE job[r].raced
    <3>1. PICK q \in Plans : links <= Connections[q] + raced
      BY DEF SlotsInv, SlotsHeld
    <3>2. raced' = raced + 1
      BY <2>1 DEF LinkInsert
    <3>3. QED BY <1>1, <1>2, <3>1, <3>2 DEF SlotsHeld
  <2>2. CASE ~job[r].raced
    <3>1. PICK q \in Plans : links + 1 <= Connections[q]
      BY <2>2 DEF SlotsInv, SlotLeft, LinkInsert
    <3>2. raced' = raced
      BY <2>2 DEF LinkInsert
    <3>3. QED BY <1>1, <1>2, <3>1, <3>2 DEF SlotsHeld
  <2>3. QED BY <2>1, <2>2
<1>4. SlotLeft'
  <2>1. \A j \in Job : [j EXCEPT !.raced = TRUE].raced
    BY DEF Job
  <2>2. \A q \in Requests : pc'[q] = "link" => q # r /\ job'[q].raced
    BY <2>1 DEF LinkInsert, TypeInv
  <2>3. QED BY <2>2 DEF SlotLeft
<1>5. QED BY <1>3, <1>4 DEF SlotsInv

LEMMA SlotsInit == ASSUME SubscriptionsOK, Init PROVE SlotsInv
<1>1. \A q \in Plans : Connections[q] \in Nat
  BY ScriptType DEF Plans, SubscriptionsOK, Event
<1>2. PICK q \in Plans : TRUE
  BY DEF SubscriptionsOK
<1>3. QED BY <1>1, <1>2 DEF Init, SlotsInv, SlotLeft, SlotsHeld

LEMMA SlotsNext ==
  ASSUME SubscriptionsOK, TypeInv, EventInv, SlotsInv, [Next]_vars
  PROVE  SlotsInv'
<1>1. links' \in Nat
  BY EventNext DEF TypeInv
<1>2. CASE Tick \/ StripeSends \/ UnlinkOne \/ ForceCancel \/ \E plan \in Grants : Grant(plan)
  BY <1>1, <1>2, QuietBank, BankQuietStep
<1>3. ASSUME NEW r \in Requests,
             \/ \E e \in Events : Deliver(r, e)
             \/ \E replied \in BOOLEAN : Handle(r, replied)
             \/ HandlerDeclines(r) \/ HandlerThrows(r) \/ Answer(r) \/ Unclaim(r)
             \/ Resync(r) \/ ResyncWrite(r)
             \/ \E n \in Amounts : Ask(r, n)
             \/ ReadPeriod(r) \/ Bump(r) \/ Unbump(r) \/ Crash(r)
      PROVE  SlotsInv'
  BY <1>1, <1>3, QuietBank, BankQuietStep
<1>4. ASSUME NEW r \in Requests, LinkLook(r) \/ LinkInsert(r) PROVE SlotsInv'
  BY <1>4, LinkLookSlots, LinkInsertSlots
<1>5. CASE UNCHANGED vars
  BY <1>5 DEF vars, bank, SlotsInv, SlotLeft, SlotsHeld
<1>6. QED BY <1>2, <1>3, <1>4, <1>5 DEF Next

-----------------------------------------------------------------------------
(* The theorems.                                                           *)

LEMMA Invariant ==
  ASSUME SubscriptionsOK
  PROVE  Spec => [](TypeInv /\ EventInv /\ UsageInv /\ SlotsInv)
<1>1. Init => TypeInv /\ EventInv /\ UsageInv /\ SlotsInv
  BY InitTypes, EventInit, UsageInit, SlotsInit DEF EventInv
<1>2. TypeInv /\ EventInv /\ UsageInv /\ SlotsInv /\ [Next]_vars
        => (TypeInv /\ EventInv /\ UsageInv /\ SlotsInv)'
  BY EventNext, UsageNext, SlotsNext
<1>3. QED BY <1>1, <1>2, PTL DEF Spec

\* Every variable keeps its type, and whoever handles an event holds its claim
\* alone, however often and in whatever order Stripe delivers.
THEOREM SubscriptionTypes == ASSUME SubscriptionsOK PROVE Spec => []TypeOK
<1>1. ASSUME TypeInv, EventInv, UsageInv PROVE TypeOK
  <2>1. counter \in [Periods -> Nat]
    <3>1. \A p \in Periods : counter[p] \in Nat
      BY <1>1, GrantedCounted DEF TypeInv
    <3>2. QED BY <1>1, <3>1 DEF TypeInv
  <2>2. \A r \in Requests : pc[r] = "idle" <=> job[r] = NoJob
    <3> TAKE r \in Requests
    <3>1. NoJob.event = 0 /\ NoJob.n = 0
      BY DEF NoJob
    <3>2. pc[r] \in Stages /\ 0 \notin 1..sent
      BY <1>1 DEF TypeInv
    <3>3. pc[r] # "idle" => job[r].event # 0 \/ job[r].n # 0
      BY <1>1, <3>2 DEF TypeInv, Stages, Handling, Elsewhere
    <3>4. QED BY <1>1, <3>1, <3>3 DEF TypeInv
  <2>3. ASSUME NEW r \in Requests, pc[r] \in Handling
        PROVE  /\ job[r].event \in claimed
               /\ \A q \in Requests \ {r} : pc[q] = "resync" \/ job[q].event # job[r].event
    <3>1. job[r].event \in claimed /\ job[r].event # 0
      BY <1>1, <2>3 DEF TypeInv
    <3>2. ASSUME NEW q \in Requests \ {r}, pc[q] # "resync" PROVE job[q].event # job[r].event
      BY <1>1, <2>3, <3>1, <3>2 DEF TypeInv, EventInv, ClaimedOnce, Stages, Handling, Elsewhere
    <3>3. QED BY <3>1, <3>2
  <2>4. sub = NoSub \/ sub.plan \in Grants \cup {Script[i].plan : i \in 1..sent}
    BY <1>1 DEF TypeInv, Had
  <2>5. QED BY <1>1, <2>1, <2>2, <2>3, <2>4 DEF TypeOK, TypeInv, Handling
<1>2. QED BY <1>1, Invariant, PTL

\* However deliveries overlap, fail, die and come again: what Stripe has been
\* told is received has been written or is being handled.
THEOREM AcksHold == ASSUME SubscriptionsOK PROVE Spec => []AckedApplied
<1>1. EventInv => AckedApplied
  BY DEF EventInv, ClaimKept, AckedApplied, Times, Count
<1>2. QED BY <1>1, Invariant, PTL

\* No event is written twice, unless the reply to its write was lost.
THEOREM WritesOnce == ASSUME SubscriptionsOK PROVE Spec => []AppliedOnce
<1>1. EventInv => AppliedOnce
  BY DEF EventInv, WrittenOnce, AppliedOnce, Times, Count
<1>2. QED BY <1>1, Invariant, PTL

\* For any number of requests, amounts and crashes the counter of a period is
\* the sum of what was granted, what died refused and what is being given back.
THEOREM CounterIsExact == ASSUME SubscriptionsOK PROVE Spec => []CounterExact
<1>1. UsageInv => CounterExact
  BY DEF UsageInv
<1>2. QED BY <1>1, Invariant, PTL

\* For any number of requests at once no period's grants exceed the largest
\* quota the household has had, whatever plans come and go while they run.
THEOREM QuotaIsHeld == ASSUME SubscriptionsOK PROVE Spec => []QuotaHeld
<1>1. UsageInv => QuotaHeld
  BY DEF UsageInv
<1>2. QED BY <1>1, Invariant, PTL

\* For any number of requests there are no more connections than a plan the
\* household has had allows, but for those counted while another came in.
THEOREM SlotsAreHeld == ASSUME SubscriptionsOK PROVE Spec => []SlotsHeld
<1>1. SlotsInv => SlotsHeld
  BY DEF SlotsInv
<1>2. QED BY <1>1, Invariant, PTL

-----------------------------------------------------------------------------
(* Staged batches.  The inverses of a batch run backwards: a recursion over *)
(* their number, about which the lemmas of this part argue by induction.    *)

\* The library's theorem on well-founded orders, as an induction over Nat for
\* a set of numbers.
LEMMA Induct ==
  ASSUME NEW S, 0 \in S, \A n \in Nat : n \in S => n + 1 \in S
  PROVE  \A n \in Nat : n \in S
<1> DEFINE R == OpToRel(<, Nat)
           T == Nat \ S
<1>1. SUFFICES ASSUME T # {} PROVE FALSE
  OBVIOUS
<1>2. IsWellFoundedOn(R, Nat)
  BY NatLessThanWellFounded
<1>3. \E t \in T : \A u \in T : ~(<<u, t>> \in R)
  <2>1. T \subseteq Nat
    OBVIOUS
  <2> HIDE DEF R, T
  <2> QED BY <1>1, <1>2, <2>1, WFMin
<1>4. PICK t \in T : \A u \in T : ~(u < t)
  <2>1. PICK t \in T : \A u \in T : ~(<<u, t>> \in R)
    BY <1>3
  <2> QED BY <2>1 DEF OpToRel
<1>5. t # 0 /\ t - 1 \in Nat
  BY <1>4
<1>6. t - 1 \in S
  BY <1>4, <1>5
<1> QED BY <1>4, <1>5, <1>6

\* The n-th inverse to run, on x.
Back(is, n, x) == G!ApplyInverse(is[Len(is) + 1 - n], x)
Chain(is, d, f) ==
    f = [n \in 0 .. Len(is) |-> IF n = 0 THEN d ELSE Back(is, n, f[n - 1])]

LEMMA ReversedIsChosen ==
  ASSUME NEW is, NEW d
  PROVE  G!Reversed(is, d) = (CHOOSE f : Chain(is, d, f))[Len(is)]
BY DEF G!Reversed, Chain, Back

LEMMA ChainExists ==
  ASSUME NEW I, NEW is \in Seq(I), NEW d
  PROVE  \E f : Chain(is, d, f)
<1> DEFINE F(m, f) == f = [n \in 0 .. m |-> IF n = 0 THEN d ELSE Back(is, n, f[n - 1])]
           S == {m \in Nat : \E f : F(m, f)}
<1>1. 0 \in S
  <2> DEFINE f == [n \in 0 .. 0 |-> d]
  <2>1. F(0, f)
    OBVIOUS
  <2> QED BY <2>1
<1>2. ASSUME NEW m \in Nat, m \in S PROVE m + 1 \in S
  <2>1. PICK f : F(m, f)
    BY <1>2
  <2> DEFINE g == [n \in 0 .. m + 1 |-> IF n <= m THEN f[n] ELSE Back(is, m + 1, f[m])]
  <2>2. \A n \in 0 .. m : f[n] = IF n = 0 THEN d ELSE Back(is, n, f[n - 1])
    <3> HIDE DEF S
    <3> QED BY <2>1
  <2>3. \A n \in 0 .. m + 1 : g[n] = IF n = 0 THEN d ELSE Back(is, n, g[n - 1])
    <3> SUFFICES ASSUME NEW n \in 0 .. m + 1
                 PROVE  g[n] = IF n = 0 THEN d ELSE Back(is, n, g[n - 1])
      OBVIOUS
    <3>1. CASE n = 0
      BY <3>1, <2>2
    <3>2. CASE n \in 1 .. m
      <4>1. g[n] = f[n] /\ g[n - 1] = f[n - 1] /\ n \in 0 .. m /\ n # 0
        BY <3>2
      <4> QED BY <4>1, <2>2
    <3>3. CASE n = m + 1
      <4>1. g[n] = Back(is, m + 1, f[m]) /\ g[n - 1] = f[m] /\ n # 0
        BY <3>3
      <4> QED BY <4>1, <3>3
    <3> QED BY <3>1, <3>2, <3>3
  <2>4. g = [n \in 0 .. m + 1 |-> g[n]]
    OBVIOUS
  <2>5. F(m + 1, g)
    <3> DEFINE h == [n \in 0 .. m + 1 |-> IF n = 0 THEN d ELSE Back(is, n, g[n - 1])]
    <3>1. \A n \in 0 .. m + 1 : g[n] = h[n]
      BY <2>3
    <3>2. g = h
      BY <3>1, <2>4
    <3> QED BY <3>2
  <2> HIDE DEF g
  <2> QED BY <2>5
<1>3. \A m \in Nat : m \in S
  <2> HIDE DEF S
  <2> QED BY <1>1, <1>2, Induct
<1>4. Len(is) \in Nat
  OBVIOUS
<1> QED BY <1>3, <1>4 DEF Chain

\* What running the inverses backwards is: a chain of states.
LEMMA Walked ==
  ASSUME NEW I, NEW is \in Seq(I), NEW d
  PROVE  \E f : /\ f[0] = d /\ f[Len(is)] = G!Reversed(is, d)
                /\ \A n \in 1 .. Len(is) : f[n] = Back(is, n, f[n - 1])
<1> DEFINE f == CHOOSE f : Chain(is, d, f)
<1>1. Chain(is, d, f)
  BY ChainExists
<1>2. f[Len(is)] = G!Reversed(is, d)
  BY ReversedIsChosen
<1>3. Len(is) \in Nat
  OBVIOUS
<1> HIDE DEF f
<1>4. f[0] = d /\ \A n \in 1 .. Len(is) : f[n] = Back(is, n, f[n - 1])
  <2>1. \A n \in 0 .. Len(is) : f[n] = IF n = 0 THEN d ELSE Back(is, n, f[n - 1])
    BY <1>1 DEF Chain
  <2> QED BY <2>1, <1>3
<1> QED BY <1>2, <1>4

LEMMA ReversedNone ==
  ASSUME NEW I, NEW is \in Seq(I), NEW d
  PROVE  Len(is) = 0 => G!Reversed(is, d) = d
<1>1. PICK f : /\ f[0] = d /\ f[Len(is)] = G!Reversed(is, d)
               /\ \A n \in 1 .. Len(is) : f[n] = Back(is, n, f[n - 1])
  BY Walked, SMTT(30)
<1> QED BY <1>1

\* The last inverse runs first.
LEMMA ReversedAppend ==
  ASSUME NEW I, NEW is \in Seq(I), NEW i \in I, NEW d
  PROVE  G!Reversed(Append(is, i), d) = G!Reversed(is, G!ApplyInverse(i, d))
<1> DEFINE js == Append(is, i)
           L == Len(is)
<1>1. /\ js \in Seq(I) /\ Len(js) = L + 1 /\ L \in Nat /\ js[L + 1] = i
      /\ \A n \in 1 .. L : js[n] = is[n]
  OBVIOUS
<1> HIDE DEF js
<1>2. PICK f : /\ f[0] = d /\ f[Len(js)] = G!Reversed(js, d)
               /\ \A n \in 1 .. Len(js) : f[n] = Back(js, n, f[n - 1])
  BY <1>1, Walked
<1>3. PICK g : /\ g[0] = G!ApplyInverse(i, d) /\ g[L] = G!Reversed(is, G!ApplyInverse(i, d))
               /\ \A n \in 1 .. L : g[n] = Back(is, n, g[n - 1])
  BY Walked
<1> HIDE DEF L
<1> DEFINE S == {n \in Nat : n <= L => g[n] = f[n + 1]}
<1>4. 0 \in S
  <2>1. f[1] = Back(js, 1, f[0])
    BY <1>1, <1>2
  <2>2. Back(js, 1, d) = G!ApplyInverse(i, d)
    BY <1>1 DEF Back
  <2> QED BY <2>1, <2>2, <1>2, <1>3
<1>5. ASSUME NEW n \in Nat, n \in S PROVE n + 1 \in S
  <2>1. SUFFICES ASSUME n + 1 <= L PROVE g[n + 1] = f[n + 2]
    OBVIOUS
  <2>2. g[n + 1] = Back(is, n + 1, g[n]) /\ f[n + 2] = Back(js, n + 2, f[n + 1])
    <3>1. n + 1 \in 1 .. L /\ n + 2 \in 1 .. Len(js) /\ (n + 1) - 1 = n /\ (n + 2) - 1 = n + 1
      BY <2>1, <1>1
    <3> QED BY <3>1, <1>2, <1>3
  <2>3. g[n] = f[n + 1]
    BY <1>5, <2>1, <1>1
  <2>4. js[Len(js) + 1 - (n + 2)] = is[L + 1 - (n + 1)]
    <3>1. L - n \in 1 .. L /\ Len(js) + 1 - (n + 2) = L - n /\ L + 1 - (n + 1) = L - n
      BY <2>1, <1>1
    <3> QED BY <3>1, <1>1
  <2> QED BY <2>2, <2>3, <2>4 DEF Back, L
<1>6. \A n \in Nat : n \in S
  <2> HIDE DEF S
  <2> QED BY <1>4, <1>5, Induct
<1>7. g[L] = f[L + 1]
  BY <1>6, <1>1
<1> QED BY <1>7, <1>1, <1>2, <1>3 DEF js

\* Of the goals there are, one is the newest.
LEMMA GreatestOf ==
  ASSUME NEW N \in Nat, NEW S, S \subseteq 0 .. N, S # {}
  PROVE  \E m \in S : \A x \in S : x <= m
<1> DEFINE M == \E m \in S : \A x \in S : x <= m
           T == {k \in Nat : (\E x \in S : x >= N - k) => M}
<1>1. 0 \in T
  OBVIOUS
<1>2. ASSUME NEW k \in Nat, k \in T PROVE k + 1 \in T
  <2>1. SUFFICES ASSUME NEW x \in S, x >= N - (k + 1), ~ \E y \in S : y >= N - k PROVE M
    BY <1>2
  <2>2. \A y \in S : y <= x
    BY <2>1
  <2> QED BY <2>2
<1>3. N \in T
  <2> HIDE DEF T
  <2> QED BY <1>1, <1>2, Induct
<1>4. PICK x \in S : TRUE
  OBVIOUS
<1>5. x >= N - N
  OBVIOUS
<1> QED BY <1>3, <1>5

-----------------------------------------------------------------------------
(* What tools and inverses make of the rows.                                *)

GoodData ==
    {d \in G!Data :
       /\ d.created >= 1
       /\ \A g \in 1 .. MaxGoals : d.goals[g] >= G!Gone
       /\ \A g \in 1 .. MaxGoals : g > d.created => d.goals[g] = G!Gone}
GoodInverse ==
    {i \in G!Inverse : i.amount >= 0 /\ (i.kind = "category" => i.on \in Txns)}
GoodCall ==
    {a \in G!Call : a.tool \in {"update_transaction_category", "split_transaction"}
                    => a.on \in Txns}

LEMMA DataFacts ==
  ASSUME G!StagingOK, NEW d \in GoodData
  PROVE  /\ d = [category |-> d.category, goals |-> d.goals, created |-> d.created,
                 due |-> d.due, shares |-> d.shares, sharer |-> d.sharer]
         /\ d.category \in [Txns -> Categories \cup {G!NoCategory, G!Deleted}]
         /\ d.goals \in [1 .. MaxGoals -> Int]
         /\ \A g \in 1 .. MaxGoals : d.goals[g] >= -1
         /\ \A g \in 1 .. MaxGoals : g > d.created => d.goals[g] = -1
         /\ d.created \in 1 .. MaxGoals
         /\ d.due \in Nat /\ d.shares \in [Txns -> Nat] /\ d.sharer \in BOOLEAN
BY DEF G!StagingOK, GoodData, G!Data, G!GoalIds, G!Gone

LEMMA GoodDataIf ==
  ASSUME G!StagingOK, NEW c \in [Txns -> Categories \cup {G!NoCategory, G!Deleted}],
         NEW g \in [1 .. MaxGoals -> Int], NEW n \in 1 .. MaxGoals, NEW m \in Nat,
         NEW s \in [Txns -> Nat], NEW w \in BOOLEAN,
         \A h \in 1 .. MaxGoals : g[h] >= -1 /\ (h > n => g[h] = -1)
  PROVE  [category |-> c, goals |-> g, created |-> n, due |-> m, shares |-> s,
           sharer |-> w] \in GoodData
BY DEF G!StagingOK, GoodData, G!Data, G!GoalIds, G!Gone

LEMMA NewestIsOne ==
  ASSUME G!StagingOK, NEW d \in GoodData, G!Goals(d) # {}
  PROVE  /\ G!Newest(d) \in G!Goals(d) /\ G!Newest(d) \in 1 .. MaxGoals
         /\ \A h \in G!Goals(d) : h <= G!Newest(d)
<1>1. G!Goals(d) \subseteq 0 .. MaxGoals /\ G!Goals(d) \subseteq 1 .. MaxGoals /\ MaxGoals \in Nat
  BY DEF G!Goals, G!GoalIds, G!StagingOK
<1>2. \E m \in G!Goals(d) : \A x \in G!Goals(d) : x <= m
  <2> DEFINE S == G!Goals(d)
  <2>1. S \subseteq 0 .. MaxGoals /\ S # {} /\ MaxGoals \in Nat
    BY <1>1
  <2> HIDE DEF S
  <2>2. \E m \in S : \A x \in S : x <= m
    BY <2>1, GreatestOf
  <2> QED BY <2>2 DEF S
<1> QED BY <1>1, <1>2 DEF G!Newest

\* What an inverse makes of the goals depends on the goals, and so with the
\* categories.
LEMMA InverseApplied ==
  ASSUME G!StagingOK, NEW d \in GoodData, NEW i \in GoodInverse
  PROVE  /\ G!ApplyInverse(i, d) \in GoodData
         /\ G!ApplyInverse(i, d).category =
              IF i.kind = "category" /\ d.category[i.on] # G!Deleted
              THEN [d.category EXCEPT ![i.on] = i.to] ELSE d.category
         /\ G!ApplyInverse(i, d).goals =
              CASE i.kind = "delete_goal" /\ ~i.padded /\ G!Goals(d) # {} ->
                     [d.goals EXCEPT ![G!Newest(d)] = -1]
                [] i.kind = "goal" /\ d.goals[1] # G!Gone -> [d.goals EXCEPT ![1] = i.amount]
                [] OTHER -> d.goals
<1> DEFINE e == G!ApplyInverse(i, d)
<1>0. /\ d = [category |-> d.category, goals |-> d.goals, created |-> d.created,
               due |-> d.due, shares |-> d.shares, sharer |-> d.sharer]
      /\ d.category \in [Txns -> Categories \cup {G!NoCategory, G!Deleted}]
      /\ d.goals \in [1 .. MaxGoals -> Int]
      /\ \A g \in 1 .. MaxGoals : d.goals[g] >= -1
      /\ \A g \in 1 .. MaxGoals : g > d.created => d.goals[g] = -1
      /\ d.created \in 1 .. MaxGoals
      /\ d.due \in Nat /\ d.shares \in [Txns -> Nat] /\ d.sharer \in BOOLEAN
  BY DataFacts
<1>1. i.kind \in {"noop", "category", "delete_goal", "goal"} /\ i.amount \in Nat
      /\ i.to \in Categories \cup {G!NoCategory}
  BY DEF GoodInverse, G!Inverse
<1>2. CASE i.kind = "category" /\ d.category[i.on] # G!Deleted
  <2>1. i.on \in Txns
    BY <1>2 DEF GoodInverse
  <2>2. e = [category |-> [d.category EXCEPT ![i.on] = i.to], goals |-> d.goals,
             created |-> d.created, due |-> d.due, shares |-> d.shares, sharer |-> d.sharer]
    BY <1>0, <1>2, <2>1 DEF G!ApplyInverse
  <2> DEFINE c == [d.category EXCEPT ![i.on] = i.to]
  <2>3. c \in [Txns -> Categories \cup {G!NoCategory, G!Deleted}]
    BY <1>0, <1>1, <2>1
  <2>4. e \in GoodData
    <3> HIDE DEF c
    <3>1. e = [category |-> c, goals |-> d.goals,
               created |-> d.created, due |-> d.due, shares |-> d.shares, sharer |-> d.sharer]
      BY <2>2 DEF c
    <3> HIDE DEF e
    <3> QED BY <3>1, <2>3, <1>0, GoodDataIf
  <2> QED BY <1>0, <2>2, <2>4, <1>2
<1>3. CASE i.kind = "delete_goal" /\ ~i.padded /\ G!Goals(d) # {}
  <2>1. G!Newest(d) \in 1 .. MaxGoals
    BY <1>3, NewestIsOne
  <2>2. e = [category |-> d.category, goals |-> [d.goals EXCEPT ![G!Newest(d)] = -1],
             created |-> d.created, due |-> d.due, shares |-> d.shares, sharer |-> d.sharer]
    BY <1>0, <1>3, <2>1 DEF G!ApplyInverse, G!Gone
  <2> DEFINE g == [d.goals EXCEPT ![G!Newest(d)] = -1]
  <2>3. /\ g \in [1 .. MaxGoals -> Int]
        /\ \A h \in 1 .. MaxGoals : g[h] >= -1 /\ (h > d.created => g[h] = -1)
    BY <1>0, <2>1
  <2>4. e \in GoodData
    <3> HIDE DEF g
    <3>1. e = [category |-> d.category, goals |-> g,
               created |-> d.created, due |-> d.due, shares |-> d.shares, sharer |-> d.sharer]
      BY <2>2 DEF g
    <3> HIDE DEF e
    <3> QED BY <3>1, <2>3, <1>0, GoodDataIf
  <2> QED BY <2>2, <2>4, <1>3
<1>4. CASE i.kind = "goal" /\ d.goals[1] # G!Gone
  <2>1. 1 \in 1 .. MaxGoals /\ ~(1 > d.created)
    BY <1>0 DEF G!StagingOK
  <2>2. e = [category |-> d.category, goals |-> [d.goals EXCEPT ![1] = i.amount],
             created |-> d.created, due |-> d.due, shares |-> d.shares, sharer |-> d.sharer]
    BY <1>0, <1>4, <2>1 DEF G!ApplyInverse
  <2> DEFINE g == [d.goals EXCEPT ![1] = i.amount]
  <2>3. /\ g \in [1 .. MaxGoals -> Int]
        /\ \A h \in 1 .. MaxGoals : g[h] >= -1 /\ (h > d.created => g[h] = -1)
    BY <1>0, <2>1, <1>1
  <2>4. e \in GoodData
    <3> HIDE DEF g
    <3>1. e = [category |-> d.category, goals |-> g,
               created |-> d.created, due |-> d.due, shares |-> d.shares, sharer |-> d.sharer]
      BY <2>2 DEF g
    <3> HIDE DEF e
    <3> QED BY <3>1, <2>3, <1>0, GoodDataIf
  <2> QED BY <2>2, <2>4, <1>4
<1>5. CASE /\ ~(i.kind = "category" /\ d.category[i.on] # G!Deleted)
           /\ ~(i.kind = "delete_goal" /\ ~i.padded /\ G!Goals(d) # {})
           /\ ~(i.kind = "goal" /\ d.goals[1] # G!Gone)
  <2>1. e = d
    BY <1>5 DEF G!ApplyInverse
  <2> QED BY <1>0, <2>1, <1>5
<1> QED BY <1>2, <1>3, <1>4, <1>5

LEMMA SameApplied ==
  ASSUME G!StagingOK, NEW d \in GoodData, NEW e \in GoodData, NEW i \in GoodInverse
  PROVE  /\ d.goals = e.goals
              => G!ApplyInverse(i, d).goals = G!ApplyInverse(i, e).goals
         /\ d.category = e.category
              => G!ApplyInverse(i, d).category = G!ApplyInverse(i, e).category
<1> DEFINE Goals(x) == CASE i.kind = "delete_goal" /\ ~i.padded /\ G!Goals(x) # {} ->
                              [x.goals EXCEPT ![G!Newest(x)] = -1]
                         [] i.kind = "goal" /\ x.goals[1] # G!Gone ->
                              [x.goals EXCEPT ![1] = i.amount]
                         [] OTHER -> x.goals
           Category(x) == IF i.kind = "category" /\ x.category[i.on] # G!Deleted
                          THEN [x.category EXCEPT ![i.on] = i.to] ELSE x.category
<1>1. G!ApplyInverse(i, d).goals = Goals(d) /\ G!ApplyInverse(i, d).category = Category(d)
  BY InverseApplied
<1>2. G!ApplyInverse(i, e).goals = Goals(e) /\ G!ApplyInverse(i, e).category = Category(e)
  BY InverseApplied
<1>3. d.goals = e.goals => G!Goals(d) = G!Goals(e) /\ G!Newest(d) = G!Newest(e)
  <2>1. d.goals = e.goals => G!Goals(d) = G!Goals(e)
    BY DEF G!Goals
  <2> QED BY <2>1 DEF G!Newest
<1>4. d.goals = e.goals => Goals(d) = Goals(e)
  BY <1>3
<1>5. d.category = e.category => Category(d) = Category(e)
  OBVIOUS
<1> HIDE DEF Goals, Category
<1> QED BY <1>1, <1>2, <1>4, <1>5

LEMMA ReversedGood ==
  ASSUME G!StagingOK, NEW is \in Seq(GoodInverse), NEW d \in GoodData
  PROVE  G!Reversed(is, d) \in GoodData
<1>1. PICK f : /\ f[0] = d /\ f[Len(is)] = G!Reversed(is, d)
               /\ \A n \in 1 .. Len(is) : f[n] = Back(is, n, f[n - 1])
  BY Walked
<1> DEFINE S == {n \in Nat : n <= Len(is) => f[n] \in GoodData}
<1>2. 0 \in S
  BY <1>1
<1>3. ASSUME NEW n \in Nat, n \in S PROVE n + 1 \in S
  <2>1. SUFFICES ASSUME n + 1 <= Len(is) PROVE f[n + 1] \in GoodData
    OBVIOUS
  <2>2. /\ n + 1 \in 1 .. Len(is) /\ (n + 1) - 1 = n /\ n <= Len(is)
        /\ Len(is) + 1 - (n + 1) \in 1 .. Len(is)
    BY <2>1
  <2>3. f[n + 1] = Back(is, n + 1, f[n])
    BY <2>2, <1>1
  <2>4. is[Len(is) + 1 - (n + 1)] \in GoodInverse /\ f[n] \in GoodData
    BY <2>2, <1>3
  <2> QED BY <2>3, <2>4, InverseApplied DEF Back
<1>4. Len(is) \in S
  <2>1. Len(is) \in Nat
    OBVIOUS
  <2> HIDE DEF S
  <2> QED BY <1>2, <1>3, <2>1, Induct
<1> QED BY <1>1, <1>4

LEMMA ReversedAlike ==
  ASSUME G!StagingOK, NEW is \in Seq(GoodInverse), NEW d \in GoodData, NEW e \in GoodData
  PROVE  /\ d.goals = e.goals => G!Reversed(is, d).goals = G!Reversed(is, e).goals
         /\ d.category = e.category
              => G!Reversed(is, d).category = G!Reversed(is, e).category
<1>1. PICK f : /\ f[0] = d /\ f[Len(is)] = G!Reversed(is, d)
               /\ \A n \in 1 .. Len(is) : f[n] = Back(is, n, f[n - 1])
  BY Walked
<1>2. PICK g : /\ g[0] = e /\ g[Len(is)] = G!Reversed(is, e)
               /\ \A n \in 1 .. Len(is) : g[n] = Back(is, n, g[n - 1])
  BY Walked
<1> DEFINE Alike(n) == /\ f[n] \in GoodData /\ g[n] \in GoodData
                       /\ d.goals = e.goals => f[n].goals = g[n].goals
                       /\ d.category = e.category => f[n].category = g[n].category
           S == {n \in Nat : n <= Len(is) => Alike(n)}
<1>3. 0 \in S
  BY <1>1, <1>2
<1>4. ASSUME NEW n \in Nat, n \in S PROVE n + 1 \in S
  <2>1. SUFFICES ASSUME n + 1 <= Len(is) PROVE Alike(n + 1)
    OBVIOUS
  <2>2. /\ n + 1 \in 1 .. Len(is) /\ (n + 1) - 1 = n /\ n <= Len(is)
        /\ Len(is) + 1 - (n + 1) \in 1 .. Len(is)
    BY <2>1
  <2> DEFINE i == is[Len(is) + 1 - (n + 1)]
  <2>3. f[n + 1] = G!ApplyInverse(i, f[n]) /\ g[n + 1] = G!ApplyInverse(i, g[n])
    BY <2>2, <1>1, <1>2 DEF Back
  <2>4. i \in GoodInverse /\ Alike(n)
    BY <2>2, <1>4
  <2> HIDE DEF i
  <2>5. G!ApplyInverse(i, f[n]) \in GoodData /\ G!ApplyInverse(i, g[n]) \in GoodData
    BY <2>4, InverseApplied
  <2>6. /\ f[n].goals = g[n].goals
             => G!ApplyInverse(i, f[n]).goals = G!ApplyInverse(i, g[n]).goals
        /\ f[n].category = g[n].category
             => G!ApplyInverse(i, f[n]).category = G!ApplyInverse(i, g[n]).category
    BY <2>4, SameApplied
  <2> QED BY <2>3, <2>4, <2>5, <2>6
<1>5. Len(is) \in S
  <2>1. Len(is) \in Nat
    OBVIOUS
  <2> HIDE DEF S
  <2> QED BY <1>3, <1>4, <2>1, Induct
<1> QED BY <1>1, <1>2, <1>5

\* A call that does not throw, by what it does to each column.
LEMMA CallDone ==
  ASSUME G!StagingOK, NEW d \in GoodData, NEW a \in GoodCall, ~G!Throws(a, d)
  PROVE  /\ G!Effect(a, d) \in GoodData
         /\ a.tool # "create_budget"
         /\ G!Effect(a, d).category =
              IF a.tool = "update_transaction_category"
              THEN [d.category EXCEPT ![a.on] = a.to]
              ELSE IF a.tool = "bulk_recategorize" THEN G!BulkRecategorize(a.to, d).category
              ELSE d.category
         /\ G!Effect(a, d).goals =
              IF a.tool = "create_savings_goal" THEN [d.goals EXCEPT ![d.created + 1] = 0]
              ELSE IF a.tool = "update_savings_goal" THEN [d.goals EXCEPT ![1] = @ + 1]
              ELSE d.goals
         /\ G!Effect(a, d).created =
              IF a.tool = "create_savings_goal" THEN d.created + 1 ELSE d.created
         /\ G!Effect(a, d).due = IF a.tool = "mark_bill_paid" THEN d.due + 1 ELSE d.due
<1> DEFINE e == G!Effect(a, d)
<1>0. /\ d = [category |-> d.category, goals |-> d.goals, created |-> d.created,
               due |-> d.due, shares |-> d.shares, sharer |-> d.sharer]
      /\ d.category \in [Txns -> Categories \cup {G!NoCategory, G!Deleted}]
      /\ d.goals \in [1 .. MaxGoals -> Int]
      /\ \A g \in 1 .. MaxGoals : d.goals[g] >= -1
      /\ \A g \in 1 .. MaxGoals : g > d.created => d.goals[g] = -1
      /\ d.created \in 1 .. MaxGoals
      /\ d.due \in Nat /\ d.shares \in [Txns -> Nat] /\ d.sharer \in BOOLEAN
  BY DataFacts
<1>1. /\ a.tool \in G!Tools \ {"create_budget"} /\ a.to \in Categories \cup {G!NoCategory}
      /\ a.tool \in {"update_transaction_category", "split_transaction"} => a.on \in Txns
  BY DEF GoodCall, G!Call, G!Throws
<1>2. CASE a.tool = "update_transaction_category"
  <2> DEFINE c == [d.category EXCEPT ![a.on] = a.to]
  <2>1. e = [category |-> c, goals |-> d.goals, created |-> d.created, due |-> d.due,
             shares |-> d.shares, sharer |-> d.sharer]
    BY <1>0, <1>2 DEF G!Effect, G!UpdateTransactionCategory
  <2>2. c \in [Txns -> Categories \cup {G!NoCategory, G!Deleted}]
    BY <1>0, <1>1, <1>2
  <2>3. e \in GoodData
    <3> HIDE DEF c, e
    <3> QED BY <2>1, <2>2, <1>0, GoodDataIf
  <2> QED BY <2>1, <2>3, <1>2
<1>3. CASE a.tool = "bulk_recategorize"
  <2> DEFINE c == [t \in Txns |-> IF d.category[t] = G!Deleted THEN G!Deleted ELSE a.to]
  <2>2. G!BulkRecategorize(a.to, d) =
          [category |-> c, goals |-> d.goals, created |-> d.created, due |-> d.due,
           shares |-> d.shares, sharer |-> d.sharer]
    <3>1. G!BulkRecategorize(a.to, d) = [d EXCEPT !.category = c]
      BY DEF G!BulkRecategorize
    <3> HIDE DEF c
    <3> QED BY <3>1, <1>0
  <2>3. e = G!BulkRecategorize(a.to, d)
    BY <1>3 DEF G!Effect
  <2>4. c \in [Txns -> Categories \cup {G!NoCategory, G!Deleted}]
    BY <1>1
  <2>5. e \in GoodData
    <3>1. e = [category |-> c, goals |-> d.goals, created |-> d.created, due |-> d.due,
               shares |-> d.shares, sharer |-> d.sharer]
      BY <2>2, <2>3
    <3> HIDE DEF c, e
    <3> QED BY <3>1, <2>4, <1>0, GoodDataIf
  <2> QED BY <2>2, <2>3, <2>5, <1>3
<1>4. CASE a.tool = "create_savings_goal"
  <2> DEFINE g == [d.goals EXCEPT ![d.created + 1] = 0]
  <2>0. d.created + 1 \in 1 .. MaxGoals
    BY <1>0, <1>4 DEF G!Throws, G!StagingOK
  <2>1. e = [category |-> d.category, goals |-> g, created |-> d.created + 1, due |-> d.due,
             shares |-> d.shares, sharer |-> d.sharer]
    BY <1>0, <1>4 DEF G!Effect, G!CreateSavingsGoal
  <2>2. /\ g \in [1 .. MaxGoals -> Int]
        /\ \A h \in 1 .. MaxGoals : g[h] >= -1 /\ (h > d.created + 1 => g[h] = -1)
    BY <1>0, <2>0
  <2>3. e \in GoodData
    <3> HIDE DEF g, e
    <3> QED BY <2>0, <2>1, <2>2, <1>0, GoodDataIf
  <2> QED BY <2>1, <2>3, <1>4
<1>5. CASE a.tool = "update_savings_goal"
  <2> DEFINE g == [d.goals EXCEPT ![1] = @ + 1]
  <2>0. 1 \in 1 .. MaxGoals /\ ~(1 > d.created)
    BY <1>0 DEF G!StagingOK
  <2>1. e = [category |-> d.category, goals |-> g, created |-> d.created, due |-> d.due,
             shares |-> d.shares, sharer |-> d.sharer]
    BY <1>0, <1>5 DEF G!Effect, G!UpdateSavingsGoal
  <2>2. /\ g \in [1 .. MaxGoals -> Int]
        /\ \A h \in 1 .. MaxGoals : g[h] >= -1 /\ (h > d.created => g[h] = -1)
    <3>1. \A h \in 1 .. MaxGoals : g[h] = IF h = 1 THEN d.goals[1] + 1 ELSE d.goals[h]
      BY <1>0
    <3>2. d.goals[1] \in Int /\ d.goals[1] >= -1
      BY <1>0, <2>0
    <3>3. d.goals[1] + 1 \in Int /\ d.goals[1] + 1 >= -1
      BY <3>2
    <3>4. g \in [1 .. MaxGoals -> Int]
      BY <1>0, <3>3
    <3>5. \A h \in 1 .. MaxGoals : h > d.created => h # 1
      BY <1>0, <2>0
    <3> HIDE DEF g
    <3> QED BY <1>0, <3>1, <3>3, <3>4, <3>5
  <2>3. e \in GoodData
    <3> HIDE DEF g, e
    <3> QED BY <2>1, <2>2, <1>0, GoodDataIf
  <2> QED BY <2>1, <2>3, <1>5
<1>6. CASE a.tool = "mark_bill_paid"
  <2>1. e = [category |-> d.category, goals |-> d.goals, created |-> d.created,
             due |-> d.due + 1, shares |-> d.shares, sharer |-> d.sharer]
    BY <1>0, <1>6 DEF G!Effect, G!MarkBillPaid
  <2>2. e \in GoodData
    <3> HIDE DEF e
    <3>1. d.due + 1 \in Nat
      BY <1>0
    <3> QED BY <2>1, <3>1, <1>0, GoodDataIf
  <2> QED BY <2>1, <2>2, <1>6
<1>7. CASE a.tool = "split_transaction"
  <2>1. e = [category |-> d.category, goals |-> d.goals, created |-> d.created,
             due |-> d.due, shares |-> d.shares, sharer |-> TRUE]
    BY <1>0, <1>7 DEF G!Effect, G!SplitTransaction
  <2>2. e \in GoodData
    <3> HIDE DEF e
    <3> QED BY <2>1, <1>0, GoodDataIf
  <2> QED BY <2>1, <2>2, <1>7
<1> QED BY <1>1, <1>2, <1>3, <1>4, <1>5, <1>6, <1>7 DEF G!Tools

\* The statements of split_transaction that delete and insert shares.
LEMMA SharesChanged ==
  ASSUME G!StagingOK, NEW d \in GoodData, NEW t \in Txns, NEW n \in Nat
  PROVE  LET e == [d EXCEPT !.shares[t] = n]
         IN  /\ e \in GoodData
             /\ e.category = d.category /\ e.goals = d.goals /\ e.created = d.created
             /\ e.due = d.due
<1> DEFINE s == [d.shares EXCEPT ![t] = n]
<1>0. /\ d = [category |-> d.category, goals |-> d.goals, created |-> d.created,
               due |-> d.due, shares |-> d.shares, sharer |-> d.sharer]
      /\ d.category \in [Txns -> Categories \cup {G!NoCategory, G!Deleted}]
      /\ d.goals \in [1 .. MaxGoals -> Int]
      /\ \A g \in 1 .. MaxGoals : d.goals[g] >= -1
      /\ \A g \in 1 .. MaxGoals : g > d.created => d.goals[g] = -1
      /\ d.created \in 1 .. MaxGoals
      /\ d.due \in Nat /\ d.shares \in [Txns -> Nat] /\ d.sharer \in BOOLEAN
  BY DataFacts
<1> DEFINE e == [d EXCEPT !.shares[t] = n]
<1>1. e = [category |-> d.category, goals |-> d.goals, created |-> d.created,
           due |-> d.due, shares |-> s, sharer |-> d.sharer]
  <2>1. e = [d EXCEPT !.shares = s]
    OBVIOUS
  <2> HIDE DEF e, s
  <2> QED BY <1>0, <2>1
<1>2. s \in [Txns -> Nat]
  BY <1>0
<1>3. e \in GoodData
  <2> HIDE DEF s, e
  <2> QED BY <1>0, <1>1, <1>2, GoodDataIf
<1> QED BY <1>1, <1>3

LEMMA CapturedGood ==
  ASSUME G!StagingOK, NEW d \in GoodData, NEW a \in GoodCall
  PROVE  G!CaptureInverse(a, d) \in GoodInverse
<1>0. /\ d.category \in [Txns -> Categories \cup {G!NoCategory, G!Deleted}]
      /\ d.goals \in [1 .. MaxGoals -> Int]
      /\ \A g \in 1 .. MaxGoals : d.goals[g] >= -1
  BY DataFacts
<1>1. a.tool \in {"update_transaction_category", "split_transaction"} => a.on \in Txns
  BY DEF GoodCall
<1>2. 1 \in 1 .. MaxGoals
  BY DEF G!StagingOK
<1>3. CASE a.tool = "update_transaction_category" /\ d.category[a.on] # G!Deleted
  <2>1. G!CaptureInverse(a, d) =
          [kind |-> "category", on |-> a.on, to |-> d.category[a.on], amount |-> 0,
           padded |-> FALSE]
    BY <1>3 DEF G!CaptureInverse, G!Noop
  <2>2. a.on \in Txns /\ d.category[a.on] \in Categories \cup {G!NoCategory}
    BY <1>0, <1>1, <1>3
  <2> QED BY <2>1, <2>2 DEF GoodInverse, G!Inverse
<1>4. CASE a.tool = "update_savings_goal" /\ d.goals[1] # G!Gone
  <2>1. G!CaptureInverse(a, d) =
          [kind |-> "goal", on |-> "none", to |-> G!NoCategory, amount |-> d.goals[1],
           padded |-> FALSE]
    BY <1>4 DEF G!CaptureInverse, G!Noop
  <2>2. d.goals[1] \in Int /\ d.goals[1] >= 0
    <3>1. d.goals[1] \in Int /\ d.goals[1] >= -1
      BY <1>0, <1>2
    <3> QED BY <3>1, <1>4 DEF G!Gone
  <2> QED BY <2>1, <2>2 DEF GoodInverse, G!Inverse
<1>5. CASE /\ ~(a.tool = "update_transaction_category" /\ d.category[a.on] # G!Deleted)
           /\ ~(a.tool = "update_savings_goal" /\ d.goals[1] # G!Gone)
  <2>0. a.padded \in BOOLEAN
    BY DEF GoodCall, G!Call
  <2>1. G!CaptureInverse(a, d) \in
          {G!Noop, [kind |-> "delete_goal", on |-> "none", to |-> G!NoCategory, amount |-> 0,
                    padded |-> a.padded]}
    BY <1>5 DEF G!CaptureInverse, G!Noop
  <2>2. ASSUME NEW w \in BOOLEAN, NEW kind \in {"noop", "delete_goal"}
        PROVE  [kind |-> kind, on |-> "none", to |-> G!NoCategory, amount |-> 0,
                padded |-> w] \in GoodInverse
    BY DEF GoodInverse, G!Inverse
  <2>3. G!Noop \in GoodInverse
    BY <2>2 DEF G!Noop
  <2> QED BY <2>0, <2>1, <2>2, <2>3
<1> QED BY <1>3, <1>4, <1>5

\* What was captured before a call takes the call back, but for what has no
\* inverse: the date, the shares, the categories of a bulk change and the goal of
\* a padded name.
LEMMA CallUndone ==
  ASSUME G!StagingOK, NEW d \in GoodData, NEW a \in GoodCall, ~G!Throws(a, d)
  PROVE  LET e == G!ApplyInverse(G!CaptureInverse(a, d), G!Effect(a, d))
         IN  /\ (a.tool = "create_savings_goal" => ~a.padded) => e.goals = d.goals
             /\ a.tool # "bulk_recategorize" => e.category = d.category
<1> DEFINE i == G!CaptureInverse(a, d)
           e == G!Effect(a, d)
           u == G!ApplyInverse(i, e)
<1>0. /\ d.category \in [Txns -> Categories \cup {G!NoCategory, G!Deleted}]
      /\ d.goals \in [1 .. MaxGoals -> Int]
      /\ \A g \in 1 .. MaxGoals : d.goals[g] >= -1
      /\ \A g \in 1 .. MaxGoals : g > d.created => d.goals[g] = -1
      /\ d.created \in 1 .. MaxGoals
  BY DataFacts
<1>1. /\ a.tool \in G!Tools \ {"create_budget"} /\ a.to \in Categories \cup {G!NoCategory}
      /\ a.tool \in {"update_transaction_category", "split_transaction"} => a.on \in Txns
  BY DEF GoodCall, G!Call, G!Throws
<1>2. i \in GoodInverse /\ e \in GoodData
  BY CapturedGood, CallDone
<1>3. CASE a.tool = "update_transaction_category"
  <2>1. d.category[a.on] # G!Deleted /\ a.to # G!Deleted
    BY <1>1, <1>3 DEF G!Throws, G!StagingOK, G!NoCategory, G!Deleted
  <2>2. i.kind = "category" /\ i.on = a.on /\ i.to = d.category[a.on]
    BY <1>3, <2>1 DEF G!CaptureInverse, G!Noop
  <2>3. e.category = [d.category EXCEPT ![a.on] = a.to] /\ e.goals = d.goals
    BY <1>3, CallDone
  <2>4. e.category[i.on] # G!Deleted
    BY <2>1, <2>2, <2>3, <1>0, <1>1, <1>3
  <2>5. u.category = [e.category EXCEPT ![i.on] = i.to] /\ u.goals = e.goals
    <3> HIDE DEF i, e
    <3> QED BY <2>2, <2>4, <1>2, InverseApplied
  <2> QED BY <2>2, <2>3, <2>5, <1>0, <1>1, <1>3
<1>4. CASE a.tool = "create_savings_goal"
  <2>0. i.kind = "delete_goal" /\ i.padded = a.padded
    BY <1>4 DEF G!CaptureInverse, G!Noop
  <2>1. a.padded \in BOOLEAN
    BY DEF GoodCall, G!Call
  <2>2. /\ e.goals = [d.goals EXCEPT ![d.created + 1] = 0] /\ e.category = d.category
        /\ d.created + 1 \in 1 .. MaxGoals
    <3>1. d.created + 1 \in 1 .. MaxGoals
      BY <1>0, <1>4 DEF G!Throws, G!StagingOK
    <3> QED BY <3>1, <1>4, CallDone
  <2> HIDE DEF i, e
  <2>3. d.created + 1 \in G!Goals(e) /\ \A g \in G!Goals(e) : g <= d.created + 1
    <3>1. \A g \in 1 .. MaxGoals :
             e.goals[g] = IF g = d.created + 1 THEN 0 ELSE d.goals[g]
      BY <2>2, <1>0
    <3>2. d.created \in Int
      BY <1>0
    <3> QED BY <2>2, <1>0, <3>1, <3>2 DEF G!Goals, G!GoalIds, G!Gone
  <2>4. G!Newest(e) = d.created + 1
    <3>1. /\ G!Newest(e) \in G!Goals(e) /\ G!Newest(e) \in 1 .. MaxGoals
          /\ \A h \in G!Goals(e) : h <= G!Newest(e)
      BY <2>3, <1>2, NewestIsOne
    <3> QED BY <3>1, <2>3, <1>0
  <2>5. ~a.padded => u.goals = [e.goals EXCEPT ![G!Newest(e)] = -1]
    <3>1. G!Goals(e) # {} /\ i.kind # "category"
      BY <2>0, <2>3
    <3> QED BY <2>0, <2>1, <3>1, <1>2, InverseApplied
  <2>6. u.category = e.category
    <3>1. i.kind # "category"
      BY <2>0
    <3> QED BY <3>1, <1>2, InverseApplied
  <2>7. ~a.padded => u.goals = d.goals
    <3>1. d.goals[d.created + 1] = -1
      BY <1>0, <2>2
    <3> QED BY <3>1, <2>2, <2>4, <2>5, <1>0
  <2> QED BY <2>1, <2>2, <2>6, <2>7, <1>4 DEF i, e
<1>5. CASE a.tool = "update_savings_goal"
  <2>0. 1 \in 1 .. MaxGoals
    BY DEF G!StagingOK
  <2>1. d.goals[1] # G!Gone
    BY <1>5 DEF G!Throws
  <2>2. i.kind = "goal" /\ i.amount = d.goals[1]
    BY <1>5, <2>1 DEF G!CaptureInverse, G!Noop
  <2>3. e.goals = [d.goals EXCEPT ![1] = @ + 1] /\ e.category = d.category
    BY <1>5, CallDone
  <2> HIDE DEF i, e
  <2>4. e.goals[1] # G!Gone
    BY <2>0, <2>1, <2>3, <1>0 DEF G!Gone
  <2>5. u.category = e.category /\ u.goals = [e.goals EXCEPT ![1] = i.amount]
    BY <2>2, <2>4, <1>2, InverseApplied
  <2>6. u.goals = d.goals
    BY <2>0, <2>2, <2>3, <2>5, <1>0
  <2> QED BY <2>3, <2>5, <2>6 DEF i, e
<1>6. CASE a.tool \in {"bulk_recategorize", "mark_bill_paid", "split_transaction"}
  <2>1. i.kind = "noop"
    BY <1>6 DEF G!CaptureInverse, G!Noop
  <2>2. e.goals = d.goals /\ (a.tool # "bulk_recategorize" => e.category = d.category)
    BY <1>6, CallDone
  <2> HIDE DEF i, e
  <2>3. u.category = e.category /\ u.goals = e.goals
    BY <2>1, <1>2, InverseApplied
  <2> QED BY <2>2, <2>3 DEF i, e
<1> QED BY <1>1, <1>3, <1>4, <1>5, <1>6 DEF G!Tools

-----------------------------------------------------------------------------
(* What a plan has done, and what taking it back would restore.             *)

Upto(p, n, tools) == {i \in 1 .. n : p[i].tool \in tools}

\* The first n calls of p have been made since the rows were s.
Done(p, s, n, d) ==
    /\ d.due = s.due + Cardinality(Upto(p, n, {"mark_bill_paid"}))
    /\ d.created = s.created + Cardinality(Upto(p, n, {"create_savings_goal"}))
    /\ d.goals[1] = s.goals[1] + Cardinality(Upto(p, n, {"update_savings_goal"}))
    /\ \A i \in Upto(p, n, {"update_transaction_category"}) :
         (\A k \in 1 .. n : k > i => p[k].on # p[i].on /\ p[k].tool # "bulk_recategorize")
         => d.category[p[i].on] = p[i].to

\* Of the rows s, d has what a plan of which n calls were made can give back.
Agrees(p, s, n, d) ==
    /\ (\A i \in 1 .. n : p[i].tool = "create_savings_goal" => ~p[i].padded)
         => d.goals = s.goals
    /\ (\A i \in 1 .. n : p[i].tool # "bulk_recategorize") => d.category = s.category
Restores(p, s, n, is, d) == Agrees(p, s, n, G!Reversed(is, d))

LEMMA PlanCalls ==
  ASSUME G!StagingOK, NEW p \in Proposed
  PROVE  /\ Len(p) \in Nat \ {0}
         /\ \A i \in 1 .. Len(p) : p[i] \in GoodCall
<1>1. p \in Seq(G!Call) /\ p # <<>>
  BY DEF G!StagingOK
<1>2. Len(p) \in Nat \ {0}
  BY <1>1
<1>3. \A i \in 1 .. Len(p) : p[i] \in G!Call
  BY <1>1
<1> QED BY <1>2, <1>3 DEF GoodCall, G!StagingOK

LEMMA UptoNext ==
  ASSUME NEW p, NEW n \in Nat, NEW tools
  PROVE  /\ Cardinality(Upto(p, n, tools)) \in Nat
         /\ Cardinality(Upto(p, n + 1, tools)) =
              IF p[n + 1].tool \in tools THEN Cardinality(Upto(p, n, tools)) + 1
              ELSE Cardinality(Upto(p, n, tools))
<1>1. IsFiniteSet(Upto(p, n, tools)) /\ Cardinality(Upto(p, n, tools)) \in Nat
  <2>1. IsFiniteSet(1 .. n)
    BY FS_Interval
  <2>2. Upto(p, n, tools) \subseteq 1 .. n
    BY DEF Upto
  <2> QED BY <2>1, <2>2, FS_Subset, FS_CardinalityType
<1>2. CASE p[n + 1].tool \in tools
  <2>1. Upto(p, n + 1, tools) = Upto(p, n, tools) \cup {n + 1} /\ n + 1 \notin Upto(p, n, tools)
    BY <1>2 DEF Upto
  <2> QED BY <1>1, <1>2, <2>1, FS_AddElement
<1>3. CASE ~(p[n + 1].tool \in tools)
  <2>1. Upto(p, n + 1, tools) = Upto(p, n, tools)
    BY <1>3 DEF Upto
  <2> QED BY <1>1, <1>3, <2>1
<1> QED BY <1>2, <1>3

LEMMA DoneNone ==
  ASSUME G!StagingOK, NEW p, NEW d \in GoodData, NEW is \in Seq(GoodInverse)
  PROVE  Len(is) = 0 => Done(p, d, 0, d) /\ Restores(p, d, 0, is, d)
<1> SUFFICES ASSUME Len(is) = 0 PROVE Done(p, d, 0, d) /\ Restores(p, d, 0, is, d)
  OBVIOUS
<1>1. \A tools : Upto(p, 0, tools) = {}
  BY DEF Upto
<1>2. Cardinality({}) = 0
  BY FS_EmptySet
<1>3. d.due \in Nat /\ d.created \in Nat /\ d.goals[1] \in Int
  <2>1. 1 \in 1 .. MaxGoals /\ MaxGoals \in Nat
    BY DEF G!StagingOK
  <2>2. d.goals \in [1 .. MaxGoals -> Int] /\ d.created \in 1 .. MaxGoals /\ d.due \in Nat
    BY DataFacts
  <2> QED BY <2>1, <2>2
<1>4. Done(p, d, 0, d)
  <2>1. /\ d.due = d.due + 0 /\ d.created = d.created + 0 /\ d.goals[1] = d.goals[1] + 0
    BY <1>3
  <2> QED BY <1>1, <1>2, <2>1 DEF Done
<1>5. G!Reversed(is, d) = d
  BY ReversedNone
<1> QED BY <1>4, <1>5 DEF Restores, Agrees

LEMMA DoneNext ==
  ASSUME G!StagingOK, NEW p \in Proposed, NEW s \in GoodData, NEW d \in GoodData,
         NEW n \in Nat, n + 1 \in 1 .. Len(p), ~G!Throws(p[n + 1], d), Done(p, s, n, d)
  PROVE  Done(p, s, n + 1, G!Effect(p[n + 1], d))
<1> DEFINE a == p[n + 1]
           e == G!Effect(a, d)
<1>1. a \in GoodCall
  BY PlanCalls
<1>2. 1 \in 1 .. MaxGoals /\ MaxGoals \in Nat
  BY DEF G!StagingOK
<1>3. /\ d.category \in [Txns -> Categories \cup {G!NoCategory, G!Deleted}]
      /\ d.goals \in [1 .. MaxGoals -> Int]
      /\ d.created \in 1 .. MaxGoals /\ d.due \in Nat
  BY DataFacts
<1>4. s.goals \in [1 .. MaxGoals -> Int] /\ s.created \in 1 .. MaxGoals /\ s.due \in Nat
  BY DataFacts
<1>5. /\ e.category =
              IF a.tool = "update_transaction_category"
              THEN [d.category EXCEPT ![a.on] = a.to]
              ELSE IF a.tool = "bulk_recategorize" THEN G!BulkRecategorize(a.to, d).category
              ELSE d.category
      /\ e.goals =
              IF a.tool = "create_savings_goal" THEN [d.goals EXCEPT ![d.created + 1] = 0]
              ELSE IF a.tool = "update_savings_goal" THEN [d.goals EXCEPT ![1] = @ + 1]
              ELSE d.goals
      /\ e.created = IF a.tool = "create_savings_goal" THEN d.created + 1 ELSE d.created
      /\ e.due = IF a.tool = "mark_bill_paid" THEN d.due + 1 ELSE d.due
  BY <1>1, CallDone
<1>6. Cardinality(Upto(p, n, {"mark_bill_paid"})) \in Nat
      /\ Cardinality(Upto(p, n + 1, {"mark_bill_paid"})) =
           IF a.tool = "mark_bill_paid" THEN Cardinality(Upto(p, n, {"mark_bill_paid"})) + 1
           ELSE Cardinality(Upto(p, n, {"mark_bill_paid"}))
  BY UptoNext
<1>7. Cardinality(Upto(p, n, {"create_savings_goal"})) \in Nat
      /\ Cardinality(Upto(p, n + 1, {"create_savings_goal"})) =
           IF a.tool = "create_savings_goal"
           THEN Cardinality(Upto(p, n, {"create_savings_goal"})) + 1
           ELSE Cardinality(Upto(p, n, {"create_savings_goal"}))
  BY UptoNext
<1>8. Cardinality(Upto(p, n, {"update_savings_goal"})) \in Nat
      /\ Cardinality(Upto(p, n + 1, {"update_savings_goal"})) =
           IF a.tool = "update_savings_goal"
           THEN Cardinality(Upto(p, n, {"update_savings_goal"})) + 1
           ELSE Cardinality(Upto(p, n, {"update_savings_goal"}))
  BY UptoNext
<1> HIDE DEF a, e
<1>9. e.due = s.due + Cardinality(Upto(p, n + 1, {"mark_bill_paid"}))
  BY <1>3, <1>4, <1>5, <1>6 DEF Done
<1>10. e.created = s.created + Cardinality(Upto(p, n + 1, {"create_savings_goal"}))
  <2>1. d.created \in Nat /\ s.created \in Nat
    BY <1>2, <1>3, <1>4
  <2>2. d.created = s.created + Cardinality(Upto(p, n, {"create_savings_goal"}))
    BY DEF Done
  <2> QED BY <2>1, <2>2, <1>5, <1>7
<1>11. e.goals[1] = s.goals[1] + Cardinality(Upto(p, n + 1, {"update_savings_goal"}))
  <2>1. d.goals[1] \in Int /\ s.goals[1] \in Int /\ d.created + 1 # 1
    <3>1. d.created \in Nat /\ d.created >= 1
      BY <1>2, <1>3
    <3>2. d.goals[1] \in Int
      BY <1>2, <1>3
    <3>3. s.goals[1] \in Int
      BY <1>2, <1>4
    <3> QED BY <3>1, <3>2, <3>3
  <2>2. e.goals[1] = IF a.tool = "update_savings_goal" THEN d.goals[1] + 1 ELSE d.goals[1]
    BY <1>2, <1>3, <1>5, <2>1
  <2>3. d.goals[1] = s.goals[1] + Cardinality(Upto(p, n, {"update_savings_goal"}))
    BY DEF Done
  <2> QED BY <2>1, <2>2, <2>3, <1>8
<1>12. ASSUME NEW i \in Upto(p, n + 1, {"update_transaction_category"}),
              \A k \in 1 .. n + 1 :
                k > i => p[k].on # p[i].on /\ p[k].tool # "bulk_recategorize"
       PROVE  e.category[p[i].on] = p[i].to
  <2>1. i \in 1 .. n + 1 /\ p[i].tool = "update_transaction_category" /\ p[i].on \in Txns
    <3>1. i \in 1 .. n + 1 /\ i \in 1 .. Len(p) /\ p[i].tool = "update_transaction_category"
      BY <1>12 DEF Upto
    <3>2. p[i] \in GoodCall
      BY <3>1, PlanCalls
    <3> QED BY <3>1, <3>2 DEF GoodCall
  <2>2. CASE i = n + 1
    BY <2>1, <2>2, <1>3, <1>5 DEF a
  <2>3. CASE i # n + 1
    <3>1. i \in Upto(p, n, {"update_transaction_category"}) /\ n + 1 > i /\ n + 1 \in 1 .. n + 1
      BY <2>1, <2>3 DEF Upto
    <3>2. d.category[p[i].on] = p[i].to
      BY <3>1, <1>12 DEF Done
    <3>3. a.on # p[i].on /\ a.tool # "bulk_recategorize"
      BY <3>1, <1>12 DEF a
    <3> QED BY <3>2, <3>3, <1>3, <1>5, <2>1
  <2> QED BY <2>2, <2>3
<1> QED BY <1>9, <1>10, <1>11, <1>12 DEF Done, e, a

LEMMA RestoresNext ==
  ASSUME G!StagingOK, NEW p \in Proposed, NEW s \in GoodData, NEW d \in GoodData,
         NEW n \in Nat, n + 1 \in 1 .. Len(p), ~G!Throws(p[n + 1], d),
         NEW is \in Seq(GoodInverse), Restores(p, s, n, is, d)
  PROVE  Restores(p, s, n + 1, Append(is, G!CaptureInverse(p[n + 1], d)), G!Effect(p[n + 1], d))
<1> DEFINE a == p[n + 1]
           i == G!CaptureInverse(a, d)
           e == G!Effect(a, d)
           u == G!ApplyInverse(i, e)
<1>1. a \in GoodCall
  BY PlanCalls
<1>2. i \in GoodInverse /\ e \in GoodData
  BY <1>1, CapturedGood, CallDone
<1>3. u \in GoodData
  BY <1>2, InverseApplied
<1>4. /\ (a.tool = "create_savings_goal" => ~a.padded) => u.goals = d.goals
      /\ a.tool # "bulk_recategorize" => u.category = d.category
  BY <1>1, CallUndone
<1>5. G!Reversed(Append(is, i), e) = G!Reversed(is, u)
  BY <1>2, ReversedAppend
<1> HIDE DEF a, i, e, u
<1>6. /\ u.goals = d.goals => G!Reversed(is, u).goals = G!Reversed(is, d).goals
      /\ u.category = d.category => G!Reversed(is, u).category = G!Reversed(is, d).category
  BY <1>3, <1>4, ReversedAlike
<1>7. (\A k \in 1 .. n + 1 : p[k].tool # "bulk_recategorize")
        => a.tool # "bulk_recategorize" /\ \A k \in 1 .. n : p[k].tool # "bulk_recategorize"
  BY DEF a
<1>8. (\A k \in 1 .. n + 1 : p[k].tool = "create_savings_goal" => ~p[k].padded)
        => /\ a.tool = "create_savings_goal" => ~a.padded
           /\ \A k \in 1 .. n : p[k].tool = "create_savings_goal" => ~p[k].padded
  BY DEF a
<1>9. Agrees(p, s, n + 1, G!Reversed(is, u))
  BY <1>4, <1>6, <1>7, <1>8 DEF Restores, Agrees
<1> QED BY <1>5, <1>9 DEF Restores, a, i, e

LEMMA SharesMatterNot ==
  ASSUME G!StagingOK, NEW p, NEW s, NEW n, NEW is \in Seq(GoodInverse),
         NEW d \in GoodData, NEW e \in GoodData,
         e.category = d.category, e.goals = d.goals, e.created = d.created, e.due = d.due
  PROVE  /\ Done(p, s, n, d) => Done(p, s, n, e)
         /\ Restores(p, s, n, is, d) => Restores(p, s, n, is, e)
<1>1. Done(p, s, n, d) => Done(p, s, n, e)
  BY DEF Done
<1>2. G!Reversed(is, d).goals = G!Reversed(is, e).goals
      /\ G!Reversed(is, d).category = G!Reversed(is, e).category
  BY ReversedAlike
<1> QED BY <1>1, <1>2 DEF Restores, Agrees

-----------------------------------------------------------------------------
(* The invariant of staged batches.                                         *)

StagedJob == [batch : Batches \cup {"none"}, at : Nat, inverses : Seq(GoodInverse)]
StagedRows ==
    /\ data \in GoodData
    /\ standing \in [Batches -> G!Statuses]
    /\ planned \in [Batches -> Proposed \cup {<<>>}]
    /\ inverses \in [Batches -> Seq(GoodInverse)]
    /\ \A b \in Batches : standing[b] # "none" => planned[b] \in Proposed
    /\ edits \in Nat /\ failures \in Nat
StagedHistory == clean \subseteq Batches /\ before \in [Batches -> GoodData]

\* What a request has in hand at a stage.
Fits(st, j) ==
    /\ st = "idle" => j = G!NoJob
    /\ st # "idle" => j.batch \in Batches /\ standing[j.batch] # "none"
    /\ st \in {"connect", "capture", "execute", "clear", "insert"}
       => j.at \in 1 .. Len(planned[j.batch])
    /\ st \in {"clear", "insert"} => planned[j.batch][j.at].tool = "split_transaction"
StagedJobs ==
    /\ pc \in [Requests -> G!Stages] /\ job \in [Requests -> StagedJob]
    /\ \A r \in Requests : Fits(pc[r], job[r])

\* One request works on a batch nobody has interfered with.
Sole ==
    \A b \in clean : \A r, s \in Requests : job[r].batch = b /\ job[s].batch = b => r = s

\* At each stage the rows are what the calls made so far have made of those
\* before, and the inverses in hand, run backwards, would bring those back.
Holding(st, j) ==
    LET p == planned[j.batch]
        s == before[j.batch]
    IN  /\ st = "connect" => j.at = 1 /\ Len(j.inverses) = 0 /\ data = s
        /\ st = "capture" =>
             Done(p, s, j.at - 1, data) /\ Restores(p, s, j.at - 1, j.inverses, data)
        /\ st = "execute" =>
             /\ Done(p, s, j.at - 1, data)
             /\ \E is \in Seq(GoodInverse) :
                  /\ Restores(p, s, j.at - 1, is, data)
                  /\ j.inverses = Append(is, G!CaptureInverse(p[j.at], data))
        /\ st \in {"clear", "insert"} =>
             Done(p, s, j.at, data) /\ Restores(p, s, j.at, j.inverses, data)
        /\ st \in {"commit", "mark"} =>
             Done(p, s, Len(p), data) /\ Restores(p, s, Len(p), j.inverses, data)
        /\ st \in {"undoConnect", "undo"} => Restores(p, s, Len(p), j.inverses, data)
        /\ st = "undoMark" => Agrees(p, s, Len(p), data)

\* And so for a batch in nobody's hands.
BatchHolding(b) ==
    /\ standing[b] = "applied" =>
         /\ Done(planned[b], before[b], Len(planned[b]), data)
         /\ Restores(planned[b], before[b], Len(planned[b]), inverses[b], data)
    /\ standing[b] = "undone" => Agrees(planned[b], before[b], Len(planned[b]), data)

StagedInv ==
    /\ StagedRows /\ StagedHistory /\ StagedJobs /\ Sole
    /\ \A r \in Requests : job[r].batch \in clean => Holding(pc[r], job[r])
    /\ \A b \in clean : (\A r \in Requests : job[r].batch # b) => BatchHolding(b)

LEMMA PristineGood == ASSUME G!StagingOK PROVE G!Pristine \in GoodData
<1> DEFINE c == [t \in Txns |-> G!NoCategory]
           g == [h \in 1 .. MaxGoals |-> IF h = 1 THEN 0 ELSE -1]
           s == [t \in Txns |-> 0]
<1>1. G!Pristine = [category |-> c, goals |-> g, created |-> 1, due |-> 0, shares |-> s,
                sharer |-> FALSE]
  BY DEF G!Pristine, G!GoalIds, G!Gone
<1>2. c \in [Txns -> Categories \cup {G!NoCategory, G!Deleted}] /\ s \in [Txns -> Nat]
  OBVIOUS
<1>3. g \in [1 .. MaxGoals -> Int] /\ \A h \in 1 .. MaxGoals : g[h] >= -1 /\ (h > 1 => g[h] = -1)
  OBVIOUS
<1>4. 1 \in 1 .. MaxGoals
  BY DEF G!StagingOK
<1> HIDE DEF c, g, s
<1>5. [category |-> c, goals |-> g, created |-> 1, due |-> 0, shares |-> s,
                sharer |-> FALSE] \in GoodData
  BY <1>2, <1>3, <1>4, GoodDataIf
<1> QED BY <1>1, <1>5

LEMMA NoneIdle ==
  ASSUME G!StagingOK, StagedInv, NEW r \in Requests
  PROVE  /\ job[r] \in StagedJob /\ pc[r] \in G!Stages
         /\ pc[r] = "idle" <=> job[r].batch = "none"
         /\ pc[r] = "idle" => job[r] = G!NoJob
         /\ pc[r] # "idle" => /\ job[r].batch \in Batches
                              /\ standing[job[r].batch] # "none"
                              /\ planned[job[r].batch] \in Proposed
BY DEF StagedInv, StagedJobs, StagedRows, Fits, G!NoJob, G!StagingOK

\* Batches other than these, if nobody interferes with them, are as before.
OthersStay(c, d) ==
    \A b \in clean' : b # c /\ b # d =>
        /\ data' = data /\ before'[b] = before[b]
        /\ standing'[b] = standing[b] /\ inverses'[b] = inverses[b]

\* A request moves on, and all batches but its own are as before.
LEMMA RequestMoves ==
  ASSUME G!StagingOK, StagedInv, NEW r \in Requests, NEW st \in G!Stages, NEW j \in StagedJob,
         NEW old, old = job[r].batch,
         pc' = [pc EXCEPT ![r] = st], job' = [job EXCEPT ![r] = j],
         StagedRows', StagedHistory', planned' = planned,
         \A b \in Batches : standing[b] # "none" => standing'[b] # "none",
         Fits(st, j)', clean' \subseteq clean,
         OthersStay(j.batch, old),
         j.batch \in clean' => \A s \in Requests \ {r} : job[s].batch # j.batch,
         j.batch \in clean' => Holding(st, j)',
         old \in clean' /\ old # j.batch => BatchHolding(old)'
  PROVE  StagedInv'
<1>1. \A s \in Requests : /\ s = r => pc'[s] = st /\ job'[s] = j
                          /\ s # r => pc'[s] = pc[s] /\ job'[s] = job[s]
  BY DEF StagedInv, StagedJobs
<1>2. StagedJobs'
  <2>1. pc' \in [Requests -> G!Stages] /\ job' \in [Requests -> StagedJob]
    BY DEF StagedInv, StagedJobs
  <2>2. ASSUME NEW s \in Requests, s # r PROVE Fits(pc[s], job[s])'
    <3>1. pc'[s] = pc[s] /\ job'[s] = job[s] /\ Fits(pc[s], job[s])
      BY <1>1, <2>2 DEF StagedInv, StagedJobs
    <3> QED BY <3>1 DEF Fits
  <2> QED BY <1>1, <2>1, <2>2 DEF StagedJobs
<1>3. Sole'
  BY <1>1 DEF StagedInv, Sole
<1>4. ASSUME NEW s \in Requests, job'[s].batch \in clean'
      PROVE  Holding(pc[s], job[s])'
  <2>1. CASE s = r
    <3>1. pc'[s] = st /\ job'[s] = j /\ Holding(st, j)'
      BY <2>1, <1>1, <1>4
    <3> QED BY <3>1 DEF Holding
  <2>2. CASE s # r
    <3>1. /\ pc'[s] = pc[s] /\ job'[s] = job[s] /\ job[s].batch \in clean
          /\ job[s].batch \in clean'
      BY <2>2, <1>1, <1>4
    <3>2. job[s].batch # j.batch /\ job[s].batch # job[r].batch
      BY <2>2, <3>1 DEF StagedInv, Sole
    <3>3. data' = data /\ before'[job[s].batch] = before[job[s].batch]
      BY <3>1, <3>2 DEF OthersStay
    <3>4. Holding(pc[s], job[s])
      BY <3>1 DEF StagedInv
    <3> QED BY <3>1, <3>3, <3>4 DEF Holding
  <2> QED BY <2>1, <2>2
<1>5. ASSUME NEW b \in clean', \A s \in Requests : job'[s].batch # b
      PROVE  BatchHolding(b)'
  <2>1. b # j.batch
    BY <1>1, <1>5
  <2>2. CASE b = old
    BY <2>1, <2>2
  <2>3. CASE b # old
    <3>1. \A s \in Requests : job[s].batch # b
      BY <1>1, <1>5, <2>3
    <3>2. BatchHolding(b)
      BY <3>1 DEF StagedInv
    <3>3. /\ data' = data /\ before'[b] = before[b]
          /\ standing'[b] = standing[b] /\ inverses'[b] = inverses[b]
      BY <2>1, <2>3, <1>5 DEF OthersStay
    <3> QED BY <3>2, <3>3 DEF BatchHolding
  <2> QED BY <2>2, <2>3
<1> QED BY <1>2, <1>3, <1>4, <1>5 DEF StagedInv

LEMMA Spoiled ==
  ASSUME G!StagingOK, StagedInv, NEW bs, G!Spoil(bs)
  PROVE  /\ StagedHistory' /\ clean' = clean \ bs /\ clean' \subseteq clean
         /\ \A b \in clean' : before'[b] = before[b]
BY PristineGood DEF StagedInv, StagedHistory, G!Spoil

LEMMA Unspoiled ==
  ASSUME StagedInv, UNCHANGED <<before, clean>>
  PROVE  StagedHistory' /\ clean' \subseteq clean /\ \A b \in clean' : before'[b] = before[b]
BY DEF StagedInv, StagedHistory

\* The step of a request that changes no row but its own.
LEMMA RequestOnly ==
  ASSUME G!StagingOK, StagedInv, NEW r \in Requests, NEW st \in G!Stages, NEW j \in StagedJob,
         NEW old, old = job[r].batch, j.batch \in {old, "none"},
         pc' = [pc EXCEPT ![r] = st], job' = [job EXCEPT ![r] = j],
         UNCHANGED <<data, standing, planned, inverses>>, edits' \in Nat, failures' \in Nat,
         StagedHistory', clean' \subseteq clean, \A b \in clean' : before'[b] = before[b],
         Fits(st, j),
         j.batch \in clean' => Holding(st, j)',
         old \in clean' => old = j.batch
  PROVE  StagedInv'
<1>1. StagedRows'
  BY DEF StagedInv, StagedRows
<1>2. Fits(st, j)'
  BY DEF Fits
<1>3. j.batch \in clean' => \A s \in Requests \ {r} : job[s].batch # j.batch
  <2>1. "none" \notin clean
    BY DEF StagedInv, StagedHistory, G!StagingOK
  <2> QED BY <2>1 DEF StagedInv, Sole
<1>4. OthersStay(j.batch, old)
  BY DEF OthersStay
<1> QED BY <1>1, <1>2, <1>3, <1>4, RequestMoves

LEMMA StayingJob ==
  ASSUME StagedInv, NEW r \in Requests
  PROVE  [job EXCEPT ![r] = job[r]] = job
BY DEF StagedInv, StagedJobs

LEMMA ConnectKeeps ==
  ASSUME G!StagingOK, StagedInv, NEW r \in Requests, G!Connect(r)
  PROVE  StagedInv'
<1>1. PICK j \in StagedJob : j = job[r]
  BY NoneIdle
<1>2. PICK old : old = job[r].batch
  OBVIOUS
<1>3. /\ pc' = [pc EXCEPT ![r] = "capture"] /\ job' = [job EXCEPT ![r] = j]
      /\ UNCHANGED <<data, standing, planned, inverses, edits, failures, before, clean>>
      /\ pc[r] = "connect"
  BY <1>1, StayingJob DEF G!Connect, G!Goto, G!batchVars, G!bounds
<1>4. Fits("capture", j)
  BY <1>1, <1>3 DEF StagedInv, StagedJobs, Fits
<1>5. ASSUME j.batch \in clean' PROVE Holding("capture", j)'
  <2>1. Holding("connect", j)
    BY <1>1, <1>3, <1>5 DEF StagedInv
  <2>2. j.at = 1 /\ Len(j.inverses) = 0 /\ data = before[j.batch]
    BY <2>1 DEF Holding
  <2>3. data \in GoodData /\ j.inverses \in Seq(GoodInverse)
    BY DEF StagedInv, StagedRows, StagedJob
  <2>4. Done(planned[j.batch], data, 0, data) /\ Restores(planned[j.batch], data, 0, j.inverses, data)
    BY <2>2, <2>3, DoneNone
  <2> QED BY <1>3, <2>2, <2>4 DEF Holding
<1>6. edits' \in Nat /\ failures' \in Nat
  BY <1>3 DEF StagedInv, StagedRows
<1>7. "capture" \in G!Stages
  BY DEF G!Stages
<1> QED BY <1>1, <1>2, <1>3, <1>4, <1>5, <1>6, <1>7, Unspoiled, RequestOnly

LEMMA CaptureKeeps ==
  ASSUME G!StagingOK, StagedInv, NEW r \in Requests, G!Capture(r)
  PROVE  StagedInv'
<1>0. pc[r] = "capture" /\ job[r] \in StagedJob /\ job[r].batch \in Batches
      /\ planned[job[r].batch] \in Proposed
  BY NoneIdle DEF G!Capture
<1>1. job[r].at \in 1 .. Len(planned[job[r].batch]) /\ data \in GoodData
  BY <1>0 DEF StagedInv, StagedJobs, StagedRows, Fits
<1>2. G!CaptureInverse(G!At(r), data) \in GoodInverse
  BY <1>0, <1>1, PlanCalls, CapturedGood DEF G!At
<1>3. PICK i \in GoodInverse : i = G!CaptureInverse(G!At(r), data)
  BY <1>2
<1>4. PICK k \in StagedJob : k = job[r]
  BY <1>0
<1>5. k.inverses \in Seq(GoodInverse) /\ Append(k.inverses, i) \in Seq(GoodInverse)
  BY DEF StagedJob
<1>6. PICK j \in StagedJob : j = [k EXCEPT !.inverses = Append(@, i)]
  BY <1>5 DEF StagedJob
<1>7. j.batch = k.batch /\ j.at = k.at /\ j.inverses = Append(k.inverses, i)
  BY <1>6 DEF StagedJob
<1>8. /\ pc' = [pc EXCEPT ![r] = "execute"] /\ job' = [job EXCEPT ![r] = j]
      /\ UNCHANGED <<data, standing, planned, inverses, edits, failures, before, clean>>
  BY <1>3, <1>4, <1>6 DEF G!Capture, G!Take, G!Goto, G!batchVars, G!bounds
<1>9. Fits("execute", j)
  BY <1>0, <1>4, <1>7 DEF StagedInv, StagedJobs, Fits
<1>10. ASSUME j.batch \in clean' PROVE Holding("execute", j)'
  <2>1. Holding("capture", k)
    BY <1>0, <1>4, <1>7, <1>8, <1>10 DEF StagedInv
  <2>2. i = G!CaptureInverse(planned[k.batch][k.at], data)
    BY <1>3, <1>4 DEF G!At
  <2> QED BY <2>1, <2>2, <1>5, <1>7, <1>8 DEF Holding
<1>11. edits' \in Nat /\ failures' \in Nat
  BY <1>8 DEF StagedInv, StagedRows
<1>12. "execute" \in G!Stages
  BY DEF G!Stages
<1>13. PICK old : old = job[r].batch
  OBVIOUS
<1> QED BY <1>4, <1>7, <1>8, <1>9, <1>10, <1>11, <1>12, <1>13, Unspoiled, RequestOnly

\* The step of a request that changes the rows: to all other batches it
\* interferes.
LEMMA RequestWorks ==
  ASSUME G!StagingOK, StagedInv, NEW r \in Requests, NEW st \in G!Stages, NEW j \in StagedJob,
         NEW b \in Batches, b = job[r].batch, j.batch = b,
         pc' = [pc EXCEPT ![r] = st], job' = [job EXCEPT ![r] = j],
         UNCHANGED <<standing, planned, inverses, edits, failures>>,
         data' \in GoodData, G!Interferes(b), Fits(st, j),
         b \in clean /\ before'[b] = before[b] => Holding(st, j)'
  PROVE  StagedInv'
<1>1. /\ StagedHistory' /\ clean' \subseteq clean /\ clean' \subseteq {b}
      /\ before'[b] = before[b]
  <2>1. G!Spoil(Batches \ {b})
    BY DEF G!Interferes
  <2>2. before'[b] = before[b]
    BY <2>1 DEF G!Spoil
  <2>3. clean' \subseteq {b}
    BY <2>1 DEF G!Spoil, StagedInv, StagedHistory
  <2> QED BY <2>1, <2>2, <2>3, Spoiled
<1>2. StagedRows'
  BY DEF StagedInv, StagedRows
<1>3. Fits(st, j)'
  BY DEF Fits
<1>4. j.batch \in clean' => \A s \in Requests \ {r} : job[s].batch # j.batch
  BY <1>1 DEF StagedInv, Sole
<1>5. PICK old : old = job[r].batch
  OBVIOUS
<1>6. OthersStay(j.batch, old)
  BY <1>1 DEF OthersStay
<1> QED BY <1>1, <1>2, <1>3, <1>4, <1>5, <1>6, RequestMoves

LEMMA AdvanceKeeps ==
  ASSUME G!StagingOK, StagedInv, NEW r \in Requests, pc[r] \in {"execute", "insert"},
         NEW k \in StagedJob, k = job[r], G!Advance(r),
         UNCHANGED <<standing, planned, inverses, edits, failures>>,
         data' \in GoodData, G!Interferes(k.batch),
         k.batch \in clean =>
           /\ Done(planned[k.batch], before[k.batch], k.at, data')
           /\ Restores(planned[k.batch], before[k.batch], k.at, k.inverses, data')
  PROVE  StagedInv'
<1> DEFINE p == planned[k.batch]
<1>1. k.batch \in Batches /\ standing[k.batch] # "none" /\ p \in Proposed
  BY NoneIdle
<1>2. k.at \in 1 .. Len(p) /\ k.at \in Nat /\ Len(p) \in Nat
  BY <1>1, PlanCalls DEF StagedInv, StagedJobs, Fits
<1>3. CASE k.at < Len(p)
  <2>0. [k EXCEPT !.at = @ + 1] \in StagedJob
    <3>1. k.at + 1 \in Nat
      BY <1>2
    <3> QED BY <3>1 DEF StagedJob
  <2>1. PICK j \in StagedJob : j = [k EXCEPT !.at = @ + 1]
    BY <2>0
  <2>2. j.batch = k.batch /\ j.at = k.at + 1 /\ j.inverses = k.inverses
    BY <2>1 DEF StagedJob
  <2>3. pc' = [pc EXCEPT ![r] = "capture"] /\ job' = [job EXCEPT ![r] = j]
    BY <1>3, <2>1 DEF G!Advance, G!Take, G!Goto
  <2>4. Fits("capture", j)
    BY <1>1, <1>2, <1>3, <2>2 DEF Fits
  <2>5. ASSUME k.batch \in clean, before'[k.batch] = before[k.batch]
        PROVE  Holding("capture", j)'
    <3>1. j.at - 1 = k.at
      BY <1>2, <2>2
    <3> QED BY <2>2, <2>5, <3>1 DEF Holding
  <2>6. "capture" \in G!Stages
    BY DEF G!Stages
  <2> QED BY <1>1, <2>2, <2>3, <2>4, <2>5, <2>6, RequestWorks
<1>4. CASE ~(k.at < Len(p))
  <2>1. pc' = [pc EXCEPT ![r] = "commit"] /\ job' = [job EXCEPT ![r] = k]
    BY <1>4, StayingJob DEF G!Advance, G!Goto
  <2>2. Fits("commit", k)
    BY <1>1 DEF Fits
  <2>3. ASSUME k.batch \in clean, before'[k.batch] = before[k.batch]
        PROVE  Holding("commit", k)'
    <3>1. k.at = Len(p)
      BY <1>2, <1>4
    <3> QED BY <2>3, <3>1 DEF Holding
  <2>4. "commit" \in G!Stages
    BY DEF G!Stages
  <2> QED BY <1>1, <2>1, <2>2, <2>3, <2>4, RequestWorks
<1> QED BY <1>3, <1>4

\* A request that only changes its stage, to one that holds nothing.
LEMMA GivesUp ==
  ASSUME G!StagingOK, StagedInv, NEW r \in Requests, pc[r] # "idle",
         NEW st \in {"rollback", "fail"}, pc' = [pc EXCEPT ![r] = st],
         UNCHANGED <<data, standing, planned, inverses, job>>, edits' \in Nat, failures' \in Nat,
         StagedHistory', clean' \subseteq clean, \A b \in clean' : before'[b] = before[b]
  PROVE  StagedInv'
<1>1. PICK j \in StagedJob : j = job[r]
  BY NoneIdle
<1>2. PICK old : old = job[r].batch
  OBVIOUS
<1>3. job' = [job EXCEPT ![r] = j]
  BY <1>1, StayingJob
<1>4. Fits(st, j) /\ Holding(st, j)'
  BY <1>1, NoneIdle DEF Fits, Holding
<1>5. st \in G!Stages
  BY DEF G!Stages
<1> QED BY <1>1, <1>2, <1>3, <1>4, <1>5, RequestOnly

LEMMA ExecuteKeeps ==
  ASSUME G!StagingOK, StagedInv, NEW r \in Requests, G!Execute(r)
  PROVE  StagedInv'
<1>0. pc[r] = "execute" /\ UNCHANGED <<standing, planned, inverses, edits, failures>>
  BY DEF G!Execute, G!batchVars, G!bounds
<1>1. CASE G!Throws(G!At(r), data)
  <2>1. pc' = [pc EXCEPT ![r] = "rollback"] /\ UNCHANGED <<data, job, before, clean>>
    BY <1>1 DEF G!Execute, G!Goto
  <2>2. edits' \in Nat /\ failures' \in Nat
    BY <1>0 DEF StagedInv, StagedRows
  <2> QED BY <1>0, <2>1, <2>2, Unspoiled, GivesUp
<1>2. CASE ~G!Throws(G!At(r), data)
  <2>1. PICK k \in StagedJob : k = job[r]
    BY NoneIdle
  <2> DEFINE p == planned[k.batch]
             a == p[k.at]
  <2>2. k.batch \in Batches /\ standing[k.batch] # "none" /\ p \in Proposed
    BY <1>0, <2>1, NoneIdle
  <2>3. k.at \in 1 .. Len(p) /\ k.at - 1 \in Nat /\ (k.at - 1) + 1 = k.at
    BY <1>0, <2>1, <2>2, PlanCalls DEF StagedInv, StagedJobs, Fits
  <2>4. a \in GoodCall /\ data \in GoodData
    BY <2>2, <2>3, PlanCalls DEF StagedInv, StagedRows
  <2>5. /\ ~G!Throws(a, data) /\ data' = G!Effect(a, data) /\ G!Interferes(k.batch)
        /\ IF a.tool = "split_transaction" THEN G!Goto(r, "clear") /\ UNCHANGED job
                                           ELSE G!Advance(r)
    BY <1>2, <2>1 DEF G!Execute, G!At
  <2>6. data' \in GoodData
    BY <2>4, <2>5, CallDone
  <2>7. ASSUME k.batch \in clean
        PROVE  /\ Done(p, before[k.batch], k.at, data')
               /\ Restores(p, before[k.batch], k.at, k.inverses, data')
    <3>1. Holding("execute", k)
      BY <1>0, <2>1, <2>7 DEF StagedInv
    <3>2. PICK is \in Seq(GoodInverse) :
             /\ Restores(p, before[k.batch], k.at - 1, is, data)
             /\ k.inverses = Append(is, G!CaptureInverse(a, data))
      BY <3>1 DEF Holding
    <3>3. Done(p, before[k.batch], k.at - 1, data)
      BY <3>1 DEF Holding
    <3>4. before[k.batch] \in GoodData
      BY <2>2 DEF StagedInv, StagedHistory
    <3>5. PICK n \in Nat : n = k.at - 1 /\ n + 1 = k.at
      BY <2>3
    <3>6. Done(p, before[k.batch], n + 1, G!Effect(a, data))
      BY <2>2, <2>3, <2>4, <2>5, <3>3, <3>4, <3>5, DoneNext
    <3>7. Restores(p, before[k.batch], n + 1, Append(is, G!CaptureInverse(a, data)),
                   G!Effect(a, data))
      BY <2>2, <2>3, <2>4, <2>5, <3>2, <3>4, <3>5, RestoresNext
    <3> QED BY <2>5, <3>2, <3>5, <3>6, <3>7
  <2> HIDE DEF a
  <2>8. CASE a.tool = "split_transaction"
    <3>1. pc' = [pc EXCEPT ![r] = "clear"] /\ job' = [job EXCEPT ![r] = k]
      BY <2>1, <2>5, <2>8, StayingJob DEF G!Goto
    <3>2. Fits("clear", k)
      BY <2>2, <2>3, <2>8 DEF Fits, a
    <3>3. ASSUME k.batch \in clean, before'[k.batch] = before[k.batch]
          PROVE  Holding("clear", k)'
      BY <1>0, <2>7, <3>3 DEF Holding
    <3>4. "clear" \in G!Stages
      BY DEF G!Stages
    <3> QED BY <1>0, <2>1, <2>2, <2>5, <2>6, <3>1, <3>2, <3>3, <3>4, RequestWorks
  <2>9. CASE a.tool # "split_transaction"
    <3>1. G!Advance(r)
      BY <2>5, <2>9
    <3> QED BY <1>0, <2>1, <2>5, <2>6, <2>7, <3>1, AdvanceKeeps
  <2> QED BY <2>8, <2>9
<1> QED BY <1>1, <1>2

LEMMA ClearKeeps ==
  ASSUME G!StagingOK, StagedInv, NEW r \in Requests, G!ClearShares(r)
  PROVE  StagedInv'
<1>0. pc[r] = "clear" /\ UNCHANGED <<standing, planned, inverses, edits, failures>>
  BY DEF G!ClearShares, G!batchVars, G!bounds
<1>1. PICK k \in StagedJob : k = job[r]
  BY NoneIdle
<1> DEFINE p == planned[k.batch]
           t == p[k.at].on
           e == [data EXCEPT !.shares[t] = 0]
<1>2. k.batch \in Batches /\ p \in Proposed /\ standing[k.batch] # "none"
  BY <1>0, <1>1, NoneIdle
<1>3. k.at \in 1 .. Len(p) /\ p[k.at].tool = "split_transaction"
  BY <1>0, <1>1 DEF StagedInv, StagedJobs, Fits
<1>4. t \in Txns /\ data \in GoodData
  BY <1>2, <1>3, PlanCalls DEF GoodCall, StagedInv, StagedRows
<1>5. data' = e /\ G!Interferes(k.batch) /\ pc' = [pc EXCEPT ![r] = "insert"]
      /\ job' = [job EXCEPT ![r] = k]
  BY <1>1, StayingJob DEF G!ClearShares, G!At, G!Goto
<1> HIDE DEF t
<1>6. /\ e \in GoodData
      /\ e.category = data.category /\ e.goals = data.goals /\ e.created = data.created
      /\ e.due = data.due
  BY <1>4, SharesChanged
<1> HIDE DEF e
<1>7. Fits("insert", k)
  BY <1>2, <1>3 DEF Fits
<1>8. ASSUME k.batch \in clean, before'[k.batch] = before[k.batch]
      PROVE  Holding("insert", k)'
  <2>1. Holding("clear", k)
    BY <1>0, <1>1, <1>8 DEF StagedInv
  <2>2. /\ Done(p, before[k.batch], k.at, data)
        /\ Restores(p, before[k.batch], k.at, k.inverses, data)
    BY <2>1 DEF Holding
  <2>3. k.inverses \in Seq(GoodInverse)
    BY DEF StagedJob
  <2>4. /\ Done(p, before[k.batch], k.at, data')
        /\ Restores(p, before[k.batch], k.at, k.inverses, data')
    BY <1>4, <1>5, <1>6, <2>2, <2>3, SharesMatterNot
  <2> QED BY <1>0, <1>8, <2>4 DEF Holding
<1>9. "insert" \in G!Stages
  BY DEF G!Stages
<1> QED BY <1>0, <1>1, <1>2, <1>5, <1>6, <1>7, <1>8, <1>9, RequestWorks

LEMMA InsertKeeps ==
  ASSUME G!StagingOK, StagedInv, NEW r \in Requests, G!InsertShares(r)
  PROVE  StagedInv'
<1>0. pc[r] = "insert" /\ UNCHANGED <<standing, planned, inverses, edits, failures>>
  BY DEF G!InsertShares, G!batchVars, G!bounds
<1>1. CASE data.category[G!At(r).on] = G!Deleted
  <2>1. pc' = [pc EXCEPT ![r] = "rollback"] /\ UNCHANGED <<data, job, before, clean>>
    BY <1>1 DEF G!InsertShares, G!Goto
  <2>2. edits' \in Nat /\ failures' \in Nat
    BY <1>0 DEF StagedInv, StagedRows
  <2> QED BY <1>0, <2>1, <2>2, Unspoiled, GivesUp
<1>2. CASE data.category[G!At(r).on] # G!Deleted
  <2>1. PICK k \in StagedJob : k = job[r]
    BY NoneIdle
  <2> DEFINE p == planned[k.batch]
             t == p[k.at].on
             n == data.shares[t] + 1
             e == [data EXCEPT !.shares[t] = n]
  <2>2. k.batch \in Batches /\ p \in Proposed
    BY <1>0, <2>1, NoneIdle
  <2>3. k.at \in 1 .. Len(p) /\ p[k.at].tool = "split_transaction"
    BY <1>0, <2>1 DEF StagedInv, StagedJobs, Fits
  <2>4. t \in Txns /\ data \in GoodData
    BY <2>2, <2>3, PlanCalls DEF GoodCall, StagedInv, StagedRows
  <2>5. data' = e /\ G!Interferes(k.batch) /\ G!Advance(r)
    BY <1>2, <2>1 DEF G!InsertShares, G!At
  <2> HIDE DEF t
  <2>n. n \in Nat
    BY <2>4, DataFacts
  <2> HIDE DEF n
  <2>6. /\ e \in GoodData
        /\ e.category = data.category /\ e.goals = data.goals /\ e.created = data.created
        /\ e.due = data.due
    BY <2>4, <2>n, SharesChanged
  <2> HIDE DEF e
  <2>7. ASSUME k.batch \in clean
        PROVE  /\ Done(p, before[k.batch], k.at, data')
               /\ Restores(p, before[k.batch], k.at, k.inverses, data')
    <3>1. Holding("insert", k)
      BY <1>0, <2>1, <2>7 DEF StagedInv
    <3>2. /\ Done(p, before[k.batch], k.at, data)
          /\ Restores(p, before[k.batch], k.at, k.inverses, data)
      BY <3>1 DEF Holding
    <3>3. k.inverses \in Seq(GoodInverse)
      BY DEF StagedJob
    <3> QED BY <2>4, <2>5, <2>6, <3>2, <3>3, SharesMatterNot
  <2> QED BY <1>0, <2>1, <2>5, <2>6, <2>7, AdvanceKeeps
<1> QED BY <1>1, <1>2

LEMMA EndKeeps ==
  ASSUME G!StagingOK, StagedInv, NEW r \in Requests, G!EndTransaction(r)
  PROVE  StagedInv'
<1>1. UNCHANGED <<data, standing, planned, inverses, job, edits, failures, before, clean>>
  BY DEF G!EndTransaction, G!batchVars, G!bounds
<1>2. edits' \in Nat /\ failures' \in Nat
  BY <1>1 DEF StagedInv, StagedRows
<1>3. CASE pc[r] = "commit" /\ G!Goto(r, "mark")
  <2>1. PICK j \in StagedJob : j = job[r]
    BY NoneIdle
  <2>2. PICK old : old = job[r].batch
    OBVIOUS
  <2>3. pc' = [pc EXCEPT ![r] = "mark"] /\ job' = [job EXCEPT ![r] = j]
    BY <1>1, <1>3, <2>1, StayingJob DEF G!Goto
  <2>4. Fits("mark", j)
    BY <1>3, <2>1, NoneIdle DEF Fits
  <2>5. ASSUME j.batch \in clean' PROVE Holding("mark", j)'
    <3>1. Holding("commit", j)
      BY <1>1, <1>3, <2>1, <2>5 DEF StagedInv
    <3> QED BY <1>1, <3>1 DEF Holding
  <2>6. "mark" \in G!Stages
    BY DEF G!Stages
  <2> QED BY <1>1, <1>2, <2>1, <2>2, <2>3, <2>4, <2>5, <2>6, Unspoiled, RequestOnly
<1>4. CASE pc[r] = "rollback" /\ G!Goto(r, "fail")
  <2>1. pc' = [pc EXCEPT ![r] = "fail"]
    BY <1>4 DEF G!Goto
  <2> QED BY <1>1, <1>2, <1>4, <2>1, Unspoiled, GivesUp
<1> QED BY <1>3, <1>4 DEF G!EndTransaction

LEMMA NoJobIsJob ==
  G!NoJob \in StagedJob
<1>1. <<>> \in Seq(GoodInverse)
  OBVIOUS
<1> QED BY <1>1 DEF G!NoJob, StagedJob

\* A request that is done.
LEMMA RequestLeaves ==
  ASSUME G!StagingOK, StagedInv, NEW r \in Requests, G!Leave(r), NEW old, old = job[r].batch,
         StagedRows', StagedHistory', planned' = planned,
         \A b \in Batches : standing[b] # "none" => standing'[b] # "none",
         clean' \subseteq clean,
         OthersStay(old, old),
         old \in clean' => BatchHolding(old)'
  PROVE  StagedInv'
<1>1. PICK j \in StagedJob : j = G!NoJob
  BY NoJobIsJob
<1>2. PICK st \in G!Stages : st = "idle"
  BY DEF G!Stages
<1>3. j.batch \notin clean
  BY <1>1 DEF G!NoJob, G!StagingOK, StagedInv, StagedHistory
<1>4. pc' = [pc EXCEPT ![r] = st] /\ job' = [job EXCEPT ![r] = j]
  BY <1>1, <1>2 DEF G!Leave, G!Goto
<1>5. Fits(st, j)'
  BY <1>1, <1>2 DEF Fits, G!NoJob
<1>7. /\ j.batch \in clean' => \A s \in Requests \ {r} : job[s].batch # j.batch
      /\ j.batch \in clean' => Holding(st, j)'
      /\ old \in clean' /\ old # j.batch => BatchHolding(old)'
  BY <1>3
<1>8. OthersStay(j.batch, old)
  BY DEF OthersStay
<1> QED BY <1>1, <1>2, <1>4, <1>5, <1>7, <1>8, RequestMoves

\* A request that closes its batch, whose row it writes, and is done.
LEMMA Closes ==
  ASSUME G!StagingOK, StagedInv, NEW r \in Requests, pc[r] # "idle", G!Leave(r),
         NEW old, old = job[r].batch,
         UNCHANGED <<data, planned, edits, failures, before, clean>>,
         NEW s \in G!Statuses \ {"none"}, NEW is \in Seq(GoodInverse),
         standing' = [standing EXCEPT ![old] = s], inverses' = [inverses EXCEPT ![old] = is],
         old \in clean =>
           /\ s = "applied" => /\ Done(planned[old], before[old], Len(planned[old]), data)
                               /\ Restores(planned[old], before[old], Len(planned[old]), is, data)
           /\ s = "undone" => Agrees(planned[old], before[old], Len(planned[old]), data)
  PROVE  StagedInv'
<1>1. old \in Batches
  BY NoneIdle
<1>2. /\ standing'[old] = s /\ inverses'[old] = is
      /\ \A b \in Batches : b # old => standing'[b] = standing[b] /\ inverses'[b] = inverses[b]
  BY <1>1 DEF StagedInv, StagedRows
<1>3. StagedRows'
  <2>1. standing' \in [Batches -> G!Statuses] /\ inverses' \in [Batches -> Seq(GoodInverse)]
    BY <1>1 DEF StagedInv, StagedRows
  <2>2. \A b \in Batches : standing'[b] # "none" => planned'[b] \in Proposed
    BY <1>1, <1>2, NoneIdle DEF StagedInv, StagedRows
  <2> QED BY <2>1, <2>2 DEF StagedInv, StagedRows
<1>4. StagedHistory' /\ clean' \subseteq clean /\ clean' \subseteq Batches
  BY Unspoiled DEF StagedInv, StagedHistory
<1>5. old \in clean' => BatchHolding(old)'
  BY <1>2 DEF BatchHolding
<1>6. \A b \in Batches : standing[b] # "none" => standing'[b] # "none"
  BY <1>2
<1>7. OthersStay(old, old)
  BY <1>2, <1>4 DEF OthersStay
<1>8. planned' = planned
  OBVIOUS
<1> QED BY <1>3, <1>4, <1>5, <1>6, <1>7, <1>8, RequestLeaves

LEMMA StayingInverses ==
  ASSUME StagedInv, NEW b \in Batches
  PROVE  [inverses EXCEPT ![b] = inverses[b]] = inverses
BY DEF StagedInv, StagedRows

LEMMA MarkAppliedKeeps ==
  ASSUME G!StagingOK, StagedInv, NEW r \in Requests, G!MarkApplied(r)
  PROVE  StagedInv'
<1>1. PICK old : old = job[r].batch
  OBVIOUS
<1>2. PICK j \in StagedJob : j = job[r]
  BY NoneIdle
<1>3. PICK is \in Seq(GoodInverse) : is = j.inverses
  BY DEF StagedJob
<1>4. /\ pc[r] = "mark" /\ G!Leave(r)
      /\ standing' = [standing EXCEPT ![old] = "applied"]
      /\ inverses' = [inverses EXCEPT ![old] = is]
      /\ UNCHANGED <<data, planned, edits, failures, before, clean>>
  BY <1>1, <1>2, <1>3 DEF G!MarkApplied, G!bounds
<1>5. ASSUME old \in clean
      PROVE  /\ Done(planned[old], before[old], Len(planned[old]), data)
             /\ Restores(planned[old], before[old], Len(planned[old]), is, data)
  <2>1. Holding("mark", j)
    BY <1>1, <1>2, <1>4, <1>5 DEF StagedInv
  <2> QED BY <1>1, <1>2, <1>3, <2>1 DEF Holding
<1>6. "applied" \in G!Statuses \ {"none"}
  BY DEF G!Statuses
<1> QED BY <1>1, <1>4, <1>5, <1>6, Closes

LEMMA MarkFailedKeeps ==
  ASSUME G!StagingOK, StagedInv, NEW r \in Requests, G!MarkFailed(r)
  PROVE  StagedInv'
<1>1. PICK old : old = job[r].batch
  OBVIOUS
<1>2. /\ pc[r] = "fail" /\ G!Leave(r) /\ inverses' = inverses
      /\ standing' = [standing EXCEPT ![old] = "failed"]
      /\ UNCHANGED <<data, planned, edits, failures, before, clean>>
  BY <1>1 DEF G!MarkFailed, G!bounds
<1>3. old \in Batches
  BY <1>1, <1>2, NoneIdle
<1>4. PICK is \in Seq(GoodInverse) : is = inverses[old]
  BY <1>3 DEF StagedInv, StagedRows
<1>5. inverses' = [inverses EXCEPT ![old] = is]
  BY <1>2, <1>3, <1>4, StayingInverses
<1>6. "failed" \in G!Statuses \ {"none"}
  BY DEF G!Statuses
<1> QED BY <1>1, <1>2, <1>5, <1>6, Closes

LEMMA UndoMarkKeeps ==
  ASSUME G!StagingOK, StagedInv, NEW r \in Requests, G!UndoMark(r)
  PROVE  StagedInv'
<1>1. PICK old : old = job[r].batch
  OBVIOUS
<1>2. /\ pc[r] = "undoMark" /\ G!Leave(r) /\ inverses' = inverses
      /\ standing' = [standing EXCEPT ![old] = "undone"]
      /\ UNCHANGED <<data, planned, edits, failures, before, clean>>
  BY <1>1 DEF G!UndoMark, G!bounds
<1>3. old \in Batches
  BY <1>1, <1>2, NoneIdle
<1>4. PICK is \in Seq(GoodInverse) : is = inverses[old]
  BY <1>3 DEF StagedInv, StagedRows
<1>5. inverses' = [inverses EXCEPT ![old] = is]
  BY <1>2, <1>3, <1>4, StayingInverses
<1>6. ASSUME old \in clean PROVE Agrees(planned[old], before[old], Len(planned[old]), data)
  <2>1. Holding("undoMark", job[r])
    BY <1>1, <1>2, <1>6 DEF StagedInv
  <2> QED BY <1>1, <2>1 DEF Holding
<1>7. "undone" \in G!Statuses \ {"none"}
  BY DEF G!Statuses
<1> QED BY <1>1, <1>2, <1>5, <1>6, <1>7, Closes

LEMMA UndoConnectKeeps ==
  ASSUME G!StagingOK, StagedInv, NEW r \in Requests, G!UndoConnect(r)
  PROVE  StagedInv'
<1>1. PICK j \in StagedJob : j = job[r]
  BY NoneIdle
<1>2. PICK old : old = job[r].batch
  OBVIOUS
<1>3. /\ pc[r] = "undoConnect"
      /\ pc' = [pc EXCEPT ![r] = "undo"] /\ job' = [job EXCEPT ![r] = j]
      /\ UNCHANGED <<data, standing, planned, inverses, job, edits, failures, before, clean>>
  BY <1>1, StayingJob DEF G!UndoConnect, G!Goto, G!batchVars, G!bounds
<1>4. edits' \in Nat /\ failures' \in Nat
  BY <1>3 DEF StagedInv, StagedRows
<1>5. Fits("undo", j)
  BY <1>1, <1>3, NoneIdle DEF Fits
<1>6. ASSUME j.batch \in clean' PROVE Holding("undo", j)'
  <2>1. Holding("undoConnect", j)
    BY <1>1, <1>3, <1>6 DEF StagedInv
  <2> QED BY <1>3, <2>1 DEF Holding
<1>7. "undo" \in G!Stages
  BY DEF G!Stages
<1> QED BY <1>1, <1>2, <1>3, <1>4, <1>5, <1>6, <1>7, Unspoiled, RequestOnly

LEMMA UndoKeeps ==
  ASSUME G!StagingOK, StagedInv, NEW r \in Requests, G!Undo(r)
  PROVE  StagedInv'
<1>1. PICK j \in StagedJob : j = job[r]
  BY NoneIdle
<1>2. PICK b : b = job[r].batch /\ b = j.batch
  BY <1>1
<1>3. /\ pc[r] = "undo"
      /\ pc' = [pc EXCEPT ![r] = "undoMark"] /\ job' = [job EXCEPT ![r] = j]
      /\ data' = G!Reversed(j.inverses, data) /\ G!Interferes(b)
      /\ UNCHANGED <<standing, planned, inverses, edits, failures>>
  BY <1>1, <1>2, StayingJob DEF G!Undo, G!Goto, G!batchVars, G!bounds
<1>4. b \in Batches
  BY <1>2, <1>3, NoneIdle
<1>5. data' \in GoodData
  <2>1. data \in GoodData /\ j.inverses \in Seq(GoodInverse)
    BY DEF StagedInv, StagedRows, StagedJob
  <2> QED BY <1>3, <2>1, ReversedGood
<1>6. Fits("undoMark", j)
  BY <1>1, <1>3, NoneIdle DEF Fits
<1>7. ASSUME b \in clean, before'[b] = before[b] PROVE Holding("undoMark", j)'
  <2>1. Holding("undo", j)
    BY <1>1, <1>2, <1>3, <1>7 DEF StagedInv
  <2>2. Agrees(planned[b], before[b], Len(planned[b]), G!Reversed(j.inverses, data))
    BY <1>2, <1>3, <2>1 DEF Holding, Restores
  <2> QED BY <1>2, <1>3, <1>7, <2>2 DEF Holding
<1>8. "undoMark" \in G!Stages
  BY DEF G!Stages
<1> QED BY <1>1, <1>2, <1>3, <1>4, <1>5, <1>6, <1>7, <1>8, RequestWorks

\* Job records are told apart by their fields.
LEMMA JobIs ==
  ASSUME NEW b, NEW at, NEW is, NEW l,
         l = [f \in DOMAIN l |-> l[f]], DOMAIN l = {"batch", "at", "inverses"},
         l["batch"] = b, l["at"] = at, l["inverses"] = is
  PROVE  l = [batch |-> b, at |-> at, inverses |-> is]
<1> DEFINE r == [batch |-> b, at |-> at, inverses |-> is]
<1>1. DOMAIN r = DOMAIN l /\ r = [f \in DOMAIN r |-> r[f]]
  OBVIOUS
<1>2. r["batch"] = b /\ r["at"] = at /\ r["inverses"] = is
  OBVIOUS
<1> HIDE DEF r
<1> QED BY <1>1, <1>2 DEF r

LEMMA NoJobWith ==
  ASSUME NEW b, NEW is
  PROVE  /\ [G!NoJob EXCEPT !.batch = b, !.at = 1]
               = [batch |-> b, at |-> 1, inverses |-> <<>>]
         /\ [G!NoJob EXCEPT !.batch = b, !.inverses = is]
               = [batch |-> b, at |-> 0, inverses |-> is]
<1> DEFINE l == [G!NoJob EXCEPT !.batch = b, !.at = 1]
           m == [G!NoJob EXCEPT !.batch = b, !.inverses = is]
<1>1. /\ l = [f \in DOMAIN l |-> l[f]] /\ DOMAIN l = {"batch", "at", "inverses"}
      /\ m = [f \in DOMAIN m |-> m[f]] /\ DOMAIN m = {"batch", "at", "inverses"}
  BY DEF G!NoJob
<1>2. l["batch"] = b /\ l["at"] = 1 /\ l["inverses"] = <<>>
  BY DEF G!NoJob
<1>3. m["batch"] = b /\ m["at"] = 0 /\ m["inverses"] = is
  BY DEF G!NoJob
<1> HIDE DEF l, m
<1>4. l = [batch |-> b, at |-> 1, inverses |-> <<>>]
  BY <1>1, <1>2, JobIs
<1>5. m = [batch |-> b, at |-> 0, inverses |-> is]
  BY <1>1, <1>3, JobIs
<1> QED BY <1>4, <1>5 DEF l, m

LEMMA CommitLoadKeeps ==
  ASSUME G!StagingOK, StagedInv, NEW r \in Requests, NEW b \in Batches, G!CommitLoad(r, b)
  PROVE  StagedInv'
<1>1. /\ pc[r] = "idle" /\ standing[b] = "pending"
      /\ UNCHANGED <<data, standing, planned, inverses, edits, failures>>
  BY DEF G!CommitLoad, G!batchVars, G!bounds
<1>2. planned[b] \in Proposed /\ 1 \in 1 .. Len(planned[b]) /\ data \in GoodData
  BY <1>1, PlanCalls DEF StagedInv, StagedRows
<1>3. PICK j \in StagedJob : j = [batch |-> b, at |-> 1, inverses |-> <<>>]
  <2>1. <<>> \in Seq(GoodInverse)
    OBVIOUS
  <2> QED BY <2>1 DEF StagedJob
<1>4. j.batch = b /\ j.at = 1 /\ Len(j.inverses) = 0
  BY <1>3
<1>5. PICK st \in G!Stages : st = "connect"
  BY DEF G!Stages
<1>6. pc' = [pc EXCEPT ![r] = st] /\ job' = [job EXCEPT ![r] = j]
  <2>1. [G!NoJob EXCEPT !.batch = b, !.at = 1] = [batch |-> b, at |-> 1, inverses |-> <<>>]
    BY NoJobWith
  <2> QED BY <1>3, <1>5, <2>1 DEF G!CommitLoad, G!Take, G!Goto
<1>7. PICK old : old = job[r].batch
  OBVIOUS
<1>8. old = "none"
  BY <1>1, <1>7, NoneIdle
<1>9. /\ StagedHistory' /\ clean' \subseteq clean
      /\ \A c \in clean' : c # b => before'[c] = before[c]
      /\ b \in clean' => before'[b] = data /\ \A s \in Requests \ {r} : job[s].batch # b
  <2>1. CASE G!Working(b) = {} /\ b \in clean
    <3>1. before' = [before EXCEPT ![b] = data] /\ clean' = clean
      BY <2>1 DEF G!CommitLoad
    <3>2. \A s \in Requests : job[s].batch # b
      BY <2>1 DEF G!Working
    <3> QED BY <1>1, <1>2, <3>1, <3>2 DEF StagedInv, StagedHistory
  <2>2. CASE ~(G!Working(b) = {} /\ b \in clean)
    <3>1. G!Spoil({b})
      BY <2>2 DEF G!CommitLoad
    <3> QED BY <3>1, Spoiled
  <2> QED BY <2>1, <2>2
<1>10. StagedRows' /\ planned' = planned
  BY <1>1 DEF StagedInv, StagedRows
<1>11. Fits(st, j)'
  BY <1>1, <1>2, <1>4, <1>5 DEF Fits
<1>12. j.batch \in clean' => Holding(st, j)'
  BY <1>1, <1>4, <1>5, <1>9 DEF Holding
<1>13. OthersStay(j.batch, old)
  BY <1>1, <1>4, <1>9 DEF OthersStay
<1>14. old \notin clean'
  BY <1>8, <1>9 DEF StagedInv, StagedHistory, G!StagingOK
<1>15. /\ j.batch \in clean' => \A s \in Requests \ {r} : job[s].batch # j.batch
       /\ old \in clean' /\ old # j.batch => BatchHolding(old)'
       /\ \A c \in Batches : standing[c] # "none" => standing'[c] # "none"
  BY <1>1, <1>4, <1>9, <1>14
<1> QED
  BY <1>3, <1>5, <1>6, <1>7, <1>9, <1>10, <1>11, <1>12, <1>13, <1>15, RequestMoves

LEMMA UndoLoadKeeps ==
  ASSUME G!StagingOK, StagedInv, NEW r \in Requests, NEW b \in Batches, G!UndoLoad(r, b)
  PROVE  StagedInv'
<1>1. /\ pc[r] = "idle" /\ standing[b] = "applied"
      /\ UNCHANGED <<data, standing, planned, inverses, edits, failures>>
  BY DEF G!UndoLoad, G!batchVars, G!bounds
<1>2. PICK is \in Seq(GoodInverse) : is = inverses[b]
  BY DEF StagedInv, StagedRows
<1>3. PICK j \in StagedJob : j = [batch |-> b, at |-> 0, inverses |-> is]
  BY DEF StagedJob
<1>4. j.batch = b /\ j.inverses = is
  BY <1>3
<1>5. PICK st \in G!Stages : st = "undoConnect"
  BY DEF G!Stages
<1>6. pc' = [pc EXCEPT ![r] = st] /\ job' = [job EXCEPT ![r] = j]
  <2>1. [G!NoJob EXCEPT !.batch = b, !.inverses = is]
          = [batch |-> b, at |-> 0, inverses |-> is]
    BY NoJobWith
  <2> QED BY <1>2, <1>3, <1>5, <2>1 DEF G!UndoLoad, G!Take, G!Goto
<1>7. PICK old : old = job[r].batch
  OBVIOUS
<1>8. old = "none"
  BY <1>1, <1>7, NoneIdle
<1>9. PICK bs : bs = (IF G!Working(b) = {} THEN {} ELSE {b}) /\ G!Spoil(bs)
  BY DEF G!UndoLoad
<1>10. /\ StagedHistory' /\ clean' = clean \ bs /\ clean' \subseteq clean
       /\ \A c \in clean' : before'[c] = before[c]
  BY <1>9, Spoiled
<1>11. b \in clean' => \A s \in Requests : job[s].batch # b
  BY <1>9, <1>10 DEF G!Working
<1>12. StagedRows' /\ planned' = planned
  BY <1>1 DEF StagedInv, StagedRows
<1>13. Fits(st, j)'
  BY <1>1, <1>4, <1>5 DEF Fits
<1>14. ASSUME j.batch \in clean' PROVE Holding(st, j)'
  <2>1. BatchHolding(b)
    BY <1>4, <1>10, <1>11, <1>14 DEF StagedInv
  <2>2. Restores(planned[b], before[b], Len(planned[b]), is, data)
    BY <1>1, <1>2, <2>1 DEF BatchHolding
  <2>3. before'[b] = before[b]
    BY <1>4, <1>10, <1>14
  <2> QED BY <1>1, <1>4, <1>5, <2>2, <2>3 DEF Holding
<1>15. OthersStay(j.batch, old)
  BY <1>1, <1>10 DEF OthersStay
<1>16. old \notin clean'
  BY <1>8, <1>10 DEF StagedInv, StagedHistory, G!StagingOK
<1>17. /\ j.batch \in clean' => \A s \in Requests \ {r} : job[s].batch # j.batch
       /\ old \in clean' /\ old # j.batch => BatchHolding(old)'
       /\ \A c \in Batches : standing[c] # "none" => standing'[c] # "none"
  BY <1>1, <1>4, <1>11, <1>16
<1> QED
  BY <1>3, <1>5, <1>6, <1>7, <1>10, <1>12, <1>13, <1>14, <1>15, <1>17, RequestMoves

LEMMA StumbleKeeps ==
  ASSUME G!StagingOK, StagedInv, NEW r \in Requests, G!Stumble(r)
  PROVE  StagedInv'
<1>1. PICK b : b = job[r].batch
  OBVIOUS
<1>2. /\ pc[r] # "idle" /\ failures' = failures + 1 /\ G!Spoil({b})
      /\ UNCHANGED <<data, standing, planned, inverses, edits>>
  BY <1>1 DEF G!Stumble, G!batchVars
<1>3. /\ StagedHistory' /\ clean' = clean \ {b} /\ clean' \subseteq clean
      /\ \A c \in clean' : before'[c] = before[c]
  BY <1>2, Spoiled
<1>4. edits' \in Nat /\ failures' \in Nat
  BY <1>2 DEF StagedInv, StagedRows
<1>5. CASE UNCHANGED job /\ G!Goto(r, "rollback")
  <2>1. pc' = [pc EXCEPT ![r] = "rollback"]
    BY <1>5 DEF G!Goto
  <2> QED BY <1>2, <1>3, <1>4, <1>5, <2>1, GivesUp
<1>6. CASE UNCHANGED job /\ G!Goto(r, "fail")
  <2>1. pc' = [pc EXCEPT ![r] = "fail"]
    BY <1>6 DEF G!Goto
  <2> QED BY <1>2, <1>3, <1>4, <1>6, <2>1, GivesUp
<1>7. CASE G!Leave(r)
  <2>1. StagedRows' /\ planned' = planned
    BY <1>2, <1>4 DEF StagedInv, StagedRows
  <2>2. OthersStay(b, b)
    BY <1>2, <1>3 DEF OthersStay
  <2>3. b \in clean' => BatchHolding(b)'
    BY <1>3
  <2>4. \A c \in Batches : standing[c] # "none" => standing'[c] # "none"
    BY <1>2
  <2> QED BY <1>1, <1>3, <1>7, <2>1, <2>2, <2>3, <2>4, RequestLeaves
<1> QED BY <1>5, <1>6, <1>7 DEF G!Stumble

LEMMA CreateBatchKeeps ==
  ASSUME G!StagingOK, StagedInv, NEW b \in Batches, NEW p \in Proposed, G!CreateBatch(b, p)
  PROVE  StagedInv'
<1>1. /\ standing[b] = "none"
      /\ standing' = [standing EXCEPT ![b] = "pending"] /\ planned' = [planned EXCEPT ![b] = p]
      /\ UNCHANGED <<data, inverses, pc, job, edits, failures, before, clean>>
  BY DEF G!CreateBatch, G!bounds
<1>2. /\ standing'[b] = "pending" /\ planned'[b] = p
      /\ \A c \in Batches : c # b => standing'[c] = standing[c] /\ planned'[c] = planned[c]
  BY <1>1 DEF StagedInv, StagedRows
<1>3. \A r \in Requests : pc[r] # "idle" => job[r].batch \in Batches /\ job[r].batch # b
  BY <1>1, NoneIdle
<1>4. StagedRows'
  <2>1. "pending" \in G!Statuses
    BY DEF G!Statuses
  <2>2. standing' \in [Batches -> G!Statuses] /\ planned' \in [Batches -> Proposed \cup {<<>>}]
    BY <1>1, <2>1 DEF StagedInv, StagedRows
  <2> QED BY <1>1, <1>2, <2>2 DEF StagedInv, StagedRows
<1>5. StagedHistory' /\ Sole'
  BY <1>1 DEF StagedInv, StagedHistory, Sole
<1>6. ASSUME NEW r \in Requests PROVE Fits(pc[r], job[r])'
  <2>1. Fits(pc[r], job[r]) /\ pc'[r] = pc[r] /\ job'[r] = job[r]
    BY <1>1 DEF StagedInv, StagedJobs
  <2> QED BY <1>2, <1>3, <2>1 DEF Fits
<1>7. StagedJobs'
  BY <1>1, <1>6 DEF StagedInv, StagedJobs
<1>8. ASSUME NEW r \in Requests, job'[r].batch \in clean' PROVE Holding(pc[r], job[r])'
  <2>1. /\ Holding(pc[r], job[r]) /\ pc'[r] = pc[r] /\ job'[r] = job[r]
        /\ data' = data /\ before' = before
    BY <1>1, <1>8 DEF StagedInv
  <2>2. job[r].batch \in Batches
    BY <1>1, <1>8 DEF StagedInv, StagedHistory
  <2>3. pc[r] # "idle" /\ planned'[job[r].batch] = planned[job[r].batch]
    BY <1>2, <1>3, <2>2, NoneIdle DEF G!StagingOK
  <2> QED BY <2>1, <2>3 DEF Holding
<1>9. ASSUME NEW c \in clean', \A r \in Requests : job'[r].batch # c PROVE BatchHolding(c)'
  <2>1. BatchHolding(c) /\ c \in Batches
    BY <1>1, <1>9 DEF StagedInv, StagedHistory
  <2> QED BY <1>1, <1>2, <2>1 DEF BatchHolding
<1> QED BY <1>4, <1>5, <1>7, <1>8, <1>9 DEF StagedInv

LEMMA CrashKeeps ==
  ASSUME G!StagingOK, StagedInv, G!Crash
  PROVE  StagedInv'
<1>1. /\ failures' = failures + 1
      /\ pc' = [r \in Requests |-> "idle"] /\ job' = [r \in Requests |-> G!NoJob]
      /\ G!Spoil({b \in Batches : G!Working(b) # {}})
      /\ UNCHANGED <<data, standing, planned, inverses, edits>>
  BY DEF G!Crash, G!batchVars
<1>2. /\ StagedHistory' /\ clean' = clean \ {b \in Batches : G!Working(b) # {}}
      /\ clean' \subseteq clean /\ \A c \in clean' : before'[c] = before[c]
  BY <1>1, Spoiled
<1>3. StagedRows'
  BY <1>1 DEF StagedInv, StagedRows
<1>4. G!NoJob \in StagedJob /\ "idle" \in G!Stages /\ G!NoJob.batch = "none"
  BY NoJobIsJob DEF G!NoJob, G!Stages
<1>5. \A r \in Requests : pc'[r] = "idle" /\ job'[r] = G!NoJob
  BY <1>1
<1>6. StagedJobs'
  <2>1. \A r \in Requests : Fits(pc[r], job[r])'
    BY <1>5 DEF Fits
  <2> QED BY <1>1, <1>4, <2>1 DEF StagedJobs
<1>7. "none" \notin clean'
  BY <1>2 DEF G!StagingOK, StagedInv, StagedHistory
<1>8. Sole'
  BY <1>4, <1>5, <1>7 DEF Sole
<1>9. ASSUME NEW c \in clean' PROVE BatchHolding(c)'
  <2>1. c \in clean /\ c \in Batches /\ before'[c] = before[c]
    BY <1>2 DEF StagedInv, StagedHistory
  <2>2. \A r \in Requests : job[r].batch # c
    BY <1>2, <2>1 DEF G!Working
  <2>3. BatchHolding(c)
    BY <2>1, <2>2 DEF StagedInv
  <2> QED BY <1>1, <2>1, <2>3 DEF BatchHolding
<1> QED BY <1>2, <1>3, <1>4, <1>5, <1>6, <1>7, <1>8, <1>9 DEF StagedInv

\* The user's own changes: no batch is free of them.
LEMMA EditKeeps ==
  ASSUME G!StagingOK, StagedInv, data' \in GoodData, edits' = edits + 1, G!Interferes("none"),
         UNCHANGED <<standing, planned, inverses, pc, job, failures>>
  PROVE  StagedInv'
<1>1. G!Spoil(Batches)
  <2>1. Batches \ {"none"} = Batches
    BY DEF G!StagingOK
  <2> QED BY <2>1 DEF G!Interferes
<1>2. StagedHistory' /\ clean' = {}
  <2>1. StagedHistory' /\ clean' = clean \ Batches
    BY <1>1, Spoiled
  <2> QED BY <2>1 DEF StagedInv, StagedHistory
<1>3. StagedRows'
  BY DEF StagedInv, StagedRows
<1>4. StagedJobs'
  BY DEF StagedInv, StagedJobs, Fits
<1> QED BY <1>2, <1>3, <1>4 DEF StagedInv, Sole

LEMMA ChatKeeps ==
  ASSUME G!StagingOK, StagedInv, NEW a \in G!Planned, G!Chat(a)
  PROVE  StagedInv'
<1>1. a \in GoodCall
  <2>1. PICK p \in Proposed : \E i \in 1 .. Len(p) : a = p[i]
    BY DEF G!Planned
  <2> QED BY <2>1, PlanCalls
<1>2. /\ ~G!Throws(a, data) /\ data' = G!Effect(a, data) /\ edits' = edits + 1
      /\ G!Interferes("none") /\ UNCHANGED <<standing, planned, inverses, pc, job, failures>>
  BY DEF G!Chat, G!batchVars
<1>3. data \in GoodData
  BY DEF StagedInv, StagedRows
<1>4. data' \in GoodData
  BY <1>1, <1>2, <1>3, CallDone
<1> QED BY <1>2, <1>4, EditKeeps

LEMMA DeleteTxnKeeps ==
  ASSUME G!StagingOK, StagedInv, NEW t \in Txns, G!DeleteTxn(t)
  PROVE  StagedInv'
<1>1. PICK d \in GoodData : d = data
  BY DEF StagedInv, StagedRows
<1> DEFINE c == [d.category EXCEPT ![t] = G!Deleted]
           s == [d.shares EXCEPT ![t] = 0]
<1>2. /\ d = [category |-> d.category, goals |-> d.goals, created |-> d.created,
              due |-> d.due, shares |-> d.shares, sharer |-> d.sharer]
      /\ d.category \in [Txns -> Categories \cup {G!NoCategory, G!Deleted}]
      /\ d.goals \in [1 .. MaxGoals -> Int]
      /\ \A g \in 1 .. MaxGoals : d.goals[g] >= -1 /\ (g > d.created => d.goals[g] = -1)
      /\ d.created \in 1 .. MaxGoals
      /\ d.due \in Nat /\ d.shares \in [Txns -> Nat] /\ d.sharer \in BOOLEAN
  BY DataFacts
<1>3. /\ data' = [data EXCEPT !.category[t] = G!Deleted, !.shares[t] = 0]
      /\ edits' = edits + 1 /\ G!Interferes("none")
      /\ UNCHANGED <<standing, planned, inverses, pc, job, failures>>
  BY DEF G!DeleteTxn, G!batchVars
<1>4. data' = [category |-> c, goals |-> d.goals, created |-> d.created,
               due |-> d.due, shares |-> s, sharer |-> d.sharer]
  BY <1>1, <1>2, <1>3
<1>5. c \in [Txns -> Categories \cup {G!NoCategory, G!Deleted}] /\ s \in [Txns -> Nat]
  BY <1>2
<1> HIDE DEF c, s
<1>6. data' \in GoodData
  BY <1>2, <1>4, <1>5, GoodDataIf
<1> QED BY <1>3, <1>6, EditKeeps

LEMMA StagedStays ==
  ASSUME G!StagingOK, StagedInv, UNCHANGED G!vars
  PROVE  StagedInv'
<1>1. UNCHANGED <<data, standing, planned, inverses, pc, job, edits, failures, before, clean>>
  BY DEF G!vars
<1>2. StagedRows' /\ StagedHistory' /\ StagedJobs' /\ Sole'
  BY <1>1 DEF StagedInv, StagedRows, StagedHistory, StagedJobs, Sole, Fits
<1>3. \A r \in Requests : Holding(pc[r], job[r])' <=> Holding(pc[r], job[r])
  BY <1>1 DEF Holding
<1>4. \A b \in clean : BatchHolding(b)' <=> BatchHolding(b)
  BY <1>1 DEF BatchHolding
<1> QED BY <1>1, <1>2, <1>3, <1>4 DEF StagedInv

LEMMA StagedStep ==
  ASSUME G!StagingOK, StagedInv, [G!Next]_(G!vars)
  PROVE  StagedInv'
<1>1. ASSUME NEW r \in Requests, G!Continue(r) PROVE StagedInv'
  BY <1>1, ConnectKeeps, CaptureKeeps, ExecuteKeeps, ClearKeeps, InsertKeeps, EndKeeps, MarkAppliedKeeps,
     MarkFailedKeeps, UndoConnectKeeps, UndoKeeps, UndoMarkKeeps DEF G!Continue
<1> QED
  BY <1>1, CreateBatchKeeps, CommitLoadKeeps, UndoLoadKeeps, StumbleKeeps, CrashKeeps,
     ChatKeeps, DeleteTxnKeeps, StagedStays DEF G!Next

LEMMA StagedStart ==
  ASSUME G!StagingOK, G!Init
  PROVE  StagedInv
<1>1. /\ data = G!Pristine /\ standing = [b \in Batches |-> "none"]
      /\ planned = [b \in Batches |-> <<>>] /\ inverses = [b \in Batches |-> <<>>]
      /\ pc = [r \in Requests |-> "idle"] /\ job = [r \in Requests |-> G!NoJob]
      /\ edits = 0 /\ failures = 0
      /\ before = [b \in Batches |-> data] /\ clean = Batches
  BY DEF G!Init
<1>2. data \in GoodData
  BY <1>1, PristineGood
<1>3. StagedRows
  <2>1. "none" \in G!Statuses /\ <<>> \in Seq(GoodInverse)
    BY DEF G!Statuses
  <2> QED BY <1>1, <1>2, <2>1 DEF StagedRows
<1>4. StagedHistory
  BY <1>1, <1>2 DEF StagedHistory
<1>5. G!NoJob \in StagedJob /\ "idle" \in G!Stages /\ G!NoJob.batch = "none"
  BY NoJobIsJob DEF G!NoJob, G!Stages
<1>6. StagedJobs
  BY <1>1, <1>5 DEF StagedJobs, Fits
<1>7. \A r \in Requests : job[r].batch \notin clean
  BY <1>1, <1>5 DEF G!StagingOK
<1>8. Sole
  BY <1>7 DEF Sole
<1>9. \A b \in clean : BatchHolding(b)
  BY <1>1 DEF BatchHolding
<1> QED BY <1>3, <1>4, <1>6, <1>7, <1>8, <1>9 DEF StagedInv

LEMMA StagedTyped ==
  ASSUME G!StagingOK, StagedInv
  PROVE  G!TypeOK
<1>1. GoodInverse \subseteq G!Inverse
  BY DEF GoodInverse
<1>2. data \in G!Data /\ \A b \in Batches : inverses[b] \in Seq(G!Inverse)
  BY <1>1 DEF StagedInv, StagedRows, GoodData
<1>3. ASSUME NEW r \in Requests
      PROVE  /\ job[r].batch \in Batches \cup {"none"}
             /\ job[r].inverses \in Seq(G!Inverse)
             /\ pc[r] = "idle" <=> job[r] = G!NoJob
             /\ pc[r] \in {"capture", "execute", "clear", "insert"}
                => job[r].at \in 1 .. Len(planned[job[r].batch])
  <2>1. job[r] \in StagedJob /\ Fits(pc[r], job[r])
    BY DEF StagedInv, StagedJobs
  <2>2. pc[r] # "idle" => job[r].batch \in Batches
    BY NoneIdle
  <2>3. pc[r] = "idle" <=> job[r] = G!NoJob
    BY <2>1, <2>2 DEF Fits, G!NoJob, G!StagingOK
  <2> QED BY <1>1, <2>1, <2>3 DEF StagedJob, Fits
<1> QED BY <1>2, <1>3 DEF G!TypeOK, StagedInv, StagedRows, StagedHistory, StagedJobs

LEMMA SameCount ==
  ASSUME NEW S
  PROVE  G!Cardinality(S) = Cardinality(S)
BY DEF G!Cardinality, Cardinality

LEMMA StagedUndone ==
  ASSUME G!StagingOK, StagedInv
  PROVE  G!UndoIsInverse
<1>1. SUFFICES ASSUME NEW b \in clean, G!Working(b) = {}
               PROVE  /\ standing[b] = "applied" => G!AppliedOnce(b)
                      /\ standing[b] = "undone" => G!RestoredExactly(b)
  BY DEF G!UndoIsInverse
<1>2. BatchHolding(b) /\ b \in Batches
  BY <1>1 DEF StagedInv, StagedHistory, G!Working
<1> DEFINE p == planned[b]
           s == before[b]
<1>3. \A tools : G!Calls(b, tools) = Upto(p, Len(p), tools)
  BY DEF G!Calls, Upto
<1>4. ASSUME standing[b] = "applied" PROVE G!AppliedOnce(b)
  <2>1. Done(p, s, Len(p), data)
    BY <1>2, <1>4 DEF BatchHolding
  <2>2. p \in Proposed
    BY <1>2, <1>4 DEF StagedInv, StagedRows
  <2>3. \A tools : G!Cardinality(G!Calls(b, tools)) = Cardinality(Upto(p, Len(p), tools))
    BY <1>3, SameCount
  <2>4. /\ data.due = s.due + G!Cardinality(G!Calls(b, {"mark_bill_paid"}))
        /\ data.created = s.created + G!Cardinality(G!Calls(b, {"create_savings_goal"}))
        /\ data.goals[1] = s.goals[1] + G!Cardinality(G!Calls(b, {"update_savings_goal"}))
    BY <2>1, <2>3 DEF Done
  <2>5. ASSUME NEW t \in Txns, NEW i \in G!Calls(b, {"update_transaction_category"}),
               p[i].on = t,
               \A k \in G!Calls(b, G!Tools) :
                 k > i => p[k].on # t /\ p[k].tool # "bulk_recategorize"
        PROVE  data.category[t] = p[i].to
    <3>1. \A k \in 1 .. Len(p) : k \in G!Calls(b, G!Tools)
      BY <2>2, PlanCalls DEF G!Calls, GoodCall, G!Call
    <3>2. i \in Upto(p, Len(p), {"update_transaction_category"})
      BY <1>3, <2>5
    <3> QED BY <2>1, <2>5, <3>1, <3>2 DEF Done
  <2> QED BY <2>4, <2>5 DEF G!AppliedOnce
<1>5. ASSUME standing[b] = "undone" PROVE G!RestoredExactly(b)
  <2>1. Agrees(p, s, Len(p), data)
    BY <1>2, <1>5 DEF BatchHolding
  <2>2. ASSUME G!Calls(b, {"bulk_recategorize"}) = {}
        PROVE  \A i \in 1 .. Len(p) : p[i].tool # "bulk_recategorize"
    BY <2>2 DEF G!Calls
  <2>3. ASSUME G!Padded(b) = {}
        PROVE  \A i \in 1 .. Len(p) : p[i].tool = "create_savings_goal" => ~p[i].padded
    BY <2>3 DEF G!Padded, G!Calls
  <2> QED BY <2>1, <2>2, <2>3 DEF Agrees, G!RestoredExactly
<1> QED BY <1>4, <1>5

THEOREM StagedInvariant == ASSUME G!StagingOK PROVE G!Spec => []StagedInv
<1>1. G!Init => StagedInv
  BY StagedStart
<1>2. StagedInv /\ [G!Next]_(G!vars) => StagedInv'
  BY StagedStep
<1> QED BY <1>1, <1>2, PTL DEF G!Spec

\* The types of staged batches, and that a plan is never run past its end.
THEOREM StagedTypes == ASSUME G!StagingOK PROVE G!Spec => []G!TypeOK
<1>1. StagedInv => G!TypeOK
  BY StagedTyped
<1> QED BY <1>1, StagedInvariant, PTL

\* Undone, a batch nobody else touched has left nothing that has an inverse.
THEOREM UndoInverts == ASSUME G!StagingOK PROVE G!Spec => []G!UndoIsInverse
<1>1. StagedInv => G!UndoIsInverse
  BY StagedUndone
<1> QED BY <1>1, StagedInvariant, PTL

=============================================================================
