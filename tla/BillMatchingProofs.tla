------------------------- MODULE BillMatchingProofs -------------------------
(***************************************************************************)
(* Proofs about BillMatching, for every set of bills, transactions and     *)
(* workers and every value of the bounds: what its variables hold, that no *)
(* cycle behind a cursor is lost, that the matcher links only what it is   *)
(* sure of, that an accepted triage row and its link are one, and that a   *)
(* resolution is final.                                                    *)
(***************************************************************************)
EXTENDS BillMatching, TLAPS

\* Stages at which a worker carries a bill and the cycle it read from it.
Holding == {"accept", "flip", "card", "advance", "mark", "skip", "skipped"}

WellFormed(stage, j) ==
    /\ stage \in Holding => j.bill \in Bills /\ j.due \in Periods
    /\ stage \in {"match", "decided", "accept"} => j.txn \in Txns
    /\ stage = "decided" /\ j.bill # NoBill => j.due \in Periods

JobOK == \A w \in Workers : WellFormed(pc[w], job[w])

TypeInv == TypeOK /\ JobOK

LEMMA InitType == Init => TypeInv
  BY ConstantsOK DEF Init, TypeInv, TypeOK, JobOK, WellFormed, Job, NoJob,
     Workers, Periods, Cursors, Stages, NotPaused, Holding, Pairs, Link

\* A worker that moves on leaves every job well formed if its own is.
LEMMA BecomeType ==
  ASSUME TypeInv, NEW w \in Workers, NEW stage \in Stages, NEW j \in Job,
         WellFormed(stage, j), Become(w, stage, j)
  PROVE  /\ pc' \in [Workers -> Stages] /\ job' \in [Workers -> Job]
         /\ JobOK'
  BY DEF TypeInv, TypeOK, JobOK, Become

LEMMA NoJobType == NoJob \in Job
  BY ConstantsOK DEF NoJob, Job, Cursors

LEMMA FinishType ==
  ASSUME TypeInv, NEW w \in Workers, Finish(w)
  PROVE  /\ pc' \in [Workers -> Stages] /\ job' \in [Workers -> Job]
         /\ JobOK' /\ todo' = todo
<1>1. WellFormed("idle", NoJob) /\ "idle" \in Stages
  BY DEF WellFormed, Holding, Stages
<1>2. QED  BY <1>1, NoJobType, BecomeType DEF Finish

\* A job made of values of the right types.
LEMMA JobType ==
  ASSUME NEW b \in Bills \cup {NoBill}, NEW t \in Txns \cup {NoTxn},
         NEW d \in Cursors, NEW ask \in SUBSET Bills
  PROVE  [bill |-> b, txn |-> t, due |-> d, ask |-> ask] \in Job
  BY DEF Job

LEMMA PeriodsCursors == /\ Periods \subseteq Cursors
                        /\ \A k \in Periods : k + 1 \in Cursors
                        /\ 0 \in Cursors
  BY ConstantsOK DEF Periods, Cursors

LEMMA AdvanceType ==
  ASSUME NEW c \in [Bills -> Cursors], NEW b \in Bills, NEW k \in Periods
  PROVE  Advance(c, b, k) \in [Bills -> Cursors]
  BY PeriodsCursors DEF Advance

LEMMA LinkType ==
  ASSUME TypeOK, NEW b \in Bills, NEW k \in Periods, NEW t \in Txns,
         NEW how \in {"auto", "accept"}, LinkBillToTxn(b, k, t, how)
  PROVE  /\ nextDue' \in [Bills -> Cursors]
         /\ period' \in [Bills -> [Periods -> {"none", "paid", "overdue", "skipped"}]]
         /\ matched' \in [Bills -> [Periods -> Txns \cup {NoTxn}]]
         /\ category' \in [Txns -> {"blank", "bill", "user"}]
         /\ links' \subseteq Link
<1>1. nextDue' \in [Bills -> Cursors]
  BY AdvanceType DEF TypeOK, LinkBillToTxn, PayPeriod
<1>2. period' \in [Bills -> [Periods -> {"none", "paid", "overdue", "skipped"}]]
  BY DEF TypeOK, LinkBillToTxn, PayPeriod
<1>3. matched' \in [Bills -> [Periods -> Txns \cup {NoTxn}]]
  BY DEF TypeOK, LinkBillToTxn, PayPeriod
<1>4. category' \in [Txns -> {"blank", "bill", "user"}]
  BY DEF TypeOK, LinkBillToTxn, PayPeriod
<1>5. links' \subseteq Link
  BY DEF TypeOK, LinkBillToTxn, PayPeriod, Link
<1>6. QED  BY <1>1, <1>2, <1>3, <1>4, <1>5

LEMMA MatchType ==
  ASSUME TypeInv, NEW w \in Workers,
         (\E t \in Txns : MatchBegin(w, t)) \/ MatchScan(w) \/ MatchCommit(w)
  PROVE  TypeInv'
<1> USE DEF TypeInv
<1>1. CASE \E t \in Txns : MatchBegin(w, t)
  <2>1. PICK t \in Txns : MatchBegin(w, t)
    BY <1>1
  <2>2. [NoJob EXCEPT !.txn = t] \in Job /\ WellFormed("match", [NoJob EXCEPT !.txn = t])
    BY NoJobType DEF Job, NoJob, WellFormed, Holding
  <2>3. /\ pc' \in [Workers -> Stages] /\ job' \in [Workers -> Job] /\ JobOK'
    BY <2>1, <2>2, BecomeType DEF MatchBegin, Stages
  <2>4. QED
    BY <2>1, <2>3 DEF MatchBegin, TypeOK, billVars, ledgerVars, bounds, history
<1>2. CASE MatchScan(w)
  <2> DEFINE t == job[w].txn
             seen == {b \in Bills : Matchable(b, t)}
             Asking == [NoJob EXCEPT !.txn = t, !.ask = seen]
             Linking(b) == [bill |-> b, txn |-> t, due |-> nextDue[b], ask |-> seen \ {b}]
  <2>1. t \in Txns
    BY <1>2 DEF MatchScan, TypeOK, JobOK, WellFormed
  <2>2. Asking \in Job /\ WellFormed("decided", Asking)
    BY <2>1, NoJobType DEF Job, NoJob, WellFormed, Holding
  <2>3. \A b \in seen : Linking(b) \in Job /\ WellFormed("decided", Linking(b))
    BY <2>1, JobType, PeriodsCursors DEF WellFormed, Matchable, Holding
  <2>4. \/ Become(w, "decided", Asking)
        \/ \E b \in seen : Become(w, "decided", Linking(b))
    BY <1>2 DEF MatchScan
  <2>5. /\ pc' \in [Workers -> Stages] /\ job' \in [Workers -> Job] /\ JobOK'
    <3> HIDE DEF Asking, Linking, seen
    <3> QED  BY <2>2, <2>3, <2>4, BecomeType DEF Stages
  <2>6. QED
    BY <1>2, <2>5 DEF MatchScan, TypeOK, billVars, ledgerVars, bounds, history
<1>3. CASE MatchCommit(w)
  <2> DEFINE j == job[w]
  <2>1. /\ pc' \in [Workers -> Stages] /\ job' \in [Workers -> Job] /\ JobOK'
        /\ todo' = todo
    BY <1>3, FinishType DEF MatchCommit
  <2>2. /\ j.txn \in Txns /\ j.bill \in Bills \cup {NoBill}
        /\ j.bill # NoBill => j.due \in Periods
    BY <1>3 DEF MatchCommit, TypeOK, JobOK, WellFormed, Job
  <2>3. triage' \in [Pairs -> {"none", "open", "accepted", "rejected", "reassigned"}]
    BY <1>3 DEF MatchCommit, TypeOK
  <2>4. \/ j.bill \in Bills /\ LinkBillToTxn(j.bill, j.due, j.txn, "auto")
        \/ UNCHANGED <<nextDue, ledgerVars, category, links>>
    BY <1>3, <2>2 DEF MatchCommit
  <2>5. /\ nextDue' \in [Bills -> Cursors]
        /\ period' \in [Bills -> [Periods -> {"none", "paid", "overdue", "skipped"}]]
        /\ matched' \in [Bills -> [Periods -> Txns \cup {NoTxn}]]
        /\ category' \in [Txns -> {"blank", "bill", "user"}]
        /\ links' \subseteq Link
    <3>1. CASE j.bill \in Bills /\ LinkBillToTxn(j.bill, j.due, j.txn, "auto")
      <4>1. j.due \in Periods
        BY <3>1, <2>2, ConstantsOK
      <4>2. QED
        BY <3>1, <4>1, <2>2, LinkType
    <3>2. CASE UNCHANGED <<nextDue, ledgerVars, category, links>>
      BY <3>2 DEF TypeOK, ledgerVars
    <3>3. QED  BY <2>4, <3>1, <3>2
  <2>6. QED
    BY <1>3, <2>1, <2>3, <2>5 DEF MatchCommit, TypeOK, bounds
<1>4. QED  BY <1>1, <1>2, <1>3

LEMMA AcceptType ==
  ASSUME TypeInv, NEW w \in Workers,
         (\E p \in Pairs : AcceptLoad(w, p)) \/ AcceptCommit(w) \/ DeadlockAbort(w)
  PROVE  TypeInv'
<1> USE DEF TypeInv
<1>1. CASE \E p \in Pairs : AcceptLoad(w, p)
  <2>1. PICK p \in Pairs : AcceptLoad(w, p)
    BY <1>1
  <2> DEFINE j == [bill |-> p[1], txn |-> p[2], due |-> nextDue[p[1]], ask |-> {}]
  <2>2. p[1] \in Bills /\ p[2] \in Txns
    BY DEF Pairs
  <2>3. nextDue[p[1]] \in Periods
    BY <2>1 DEF AcceptLoad
  <2>4. j \in Job /\ WellFormed("accept", j)
    BY <2>2, <2>3, PeriodsCursors, JobType DEF WellFormed
  <2>5. /\ pc' \in [Workers -> Stages] /\ job' \in [Workers -> Job] /\ JobOK'
    BY <2>1, <2>4, BecomeType DEF AcceptLoad, Stages
  <2>6. QED
    BY <2>1, <2>5 DEF AcceptLoad, TypeOK, billVars, ledgerVars, bounds, history
<1>2. CASE AcceptCommit(w)
  <2> DEFINE j == job[w]
  <2>1. /\ pc' \in [Workers -> Stages] /\ job' \in [Workers -> Job] /\ JobOK'
        /\ todo' = todo
    BY <1>2, FinishType DEF AcceptCommit
  <2>2. j.bill \in Bills /\ j.txn \in Txns /\ j.due \in Periods
    BY <1>2 DEF AcceptCommit, JobOK, WellFormed, Holding
  <2>3. triage' \in [Pairs -> {"none", "open", "accepted", "rejected", "reassigned"}]
    BY <1>2 DEF AcceptCommit, TypeOK
  <2>4. LinkBillToTxn(j.bill, j.due, j.txn, "accept")
    BY <1>2 DEF AcceptCommit
  <2>5. /\ nextDue' \in [Bills -> Cursors]
        /\ period' \in [Bills -> [Periods -> {"none", "paid", "overdue", "skipped"}]]
        /\ matched' \in [Bills -> [Periods -> Txns \cup {NoTxn}]]
        /\ category' \in [Txns -> {"blank", "bill", "user"}]
        /\ links' \subseteq Link
    BY <2>2, <2>4, LinkType
  <2>6. QED
    BY <1>2, <2>1, <2>3, <2>5 DEF AcceptCommit, TypeOK, bounds
<1>3. CASE DeadlockAbort(w)
  BY <1>3, FinishType DEF DeadlockAbort, TypeOK, billVars, ledgerVars, bounds, history
<1>4. QED  BY <1>1, <1>2, <1>3

\* A worker that carries its job on, or takes a new one holding a cycle.
LEMMA HoldType ==
  ASSUME TypeInv, NEW w \in Workers, NEW stage \in Holding \ {"accept"},
         NEW b \in Bills, NEW d \in Periods,
         Become(w, stage, [NoJob EXCEPT !.bill = b, !.due = d])
  PROVE  pc' \in [Workers -> Stages] /\ job' \in [Workers -> Job] /\ JobOK'
<1> DEFINE j == [NoJob EXCEPT !.bill = b, !.due = d]
<1>1. j \in Job /\ WellFormed(stage, j) /\ stage \in Stages
  BY NoJobType, PeriodsCursors DEF NoJob, Job, WellFormed, Holding, Stages
<1>2. QED  BY <1>1, BecomeType

LEMMA KeepType ==
  ASSUME TypeInv, NEW w \in Workers, NEW stage \in Holding \ {"accept"},
         pc[w] \in Holding, Become(w, stage, job[w])
  PROVE  /\ pc' \in [Workers -> Stages] /\ job' \in [Workers -> Job] /\ JobOK'
         /\ job[w].bill \in Bills /\ job[w].due \in Periods
<1>1. job[w] \in Job /\ WellFormed(stage, job[w]) /\ stage \in Stages
  BY DEF TypeInv, TypeOK, JobOK, WellFormed, Holding, Stages
<1>2. job[w].bill \in Bills /\ job[w].due \in Periods
  BY DEF TypeInv, JobOK, WellFormed
<1>3. QED  BY <1>1, <1>2, BecomeType

LEMMA SweepType ==
  ASSUME TypeInv, NEW w \in Workers,
         \/ SweepList(w) \/ SweepLook(w) \/ SweepFlip(w)
         \/ SweepCard(w) \/ SweepAdvance(w)
  PROVE  TypeInv'
<1> USE DEF TypeInv
<1>1. CASE SweepList(w)
  <2>1. pc' \in [Workers -> Stages] /\ job' \in [Workers -> Job] /\ JobOK'
    BY <1>1, NoJobType, BecomeType DEF SweepList, Stages, WellFormed, Holding
  <2>2. {<<b, nextDue[b]>> : b \in {c \in Bills : PastDue(c)}} \subseteq Bills \X Periods
    BY DEF PastDue
  <2>3. todo' \in [Workers -> SUBSET (Bills \X Periods)]
    BY <1>1, <2>2 DEF SweepList, TypeOK
  <2>4. QED
    BY <1>1, <2>1, <2>3 DEF SweepList, TypeOK, billVars, ledgerVars, bounds, history
<1>2. CASE SweepLook(w)
  <2>1. PICK e \in todo[w] :
          /\ todo' = [todo EXCEPT ![w] = @ \ {e}]
          /\ Become(w, IF period[e[1]][e[2]] = "paid" THEN "advance" ELSE "flip",
                   [NoJob EXCEPT !.bill = e[1], !.due = e[2]])
    BY <1>2 DEF SweepLook
  <2>2. e[1] \in Bills /\ e[2] \in Periods
    BY <2>1 DEF TypeOK
  <2>3. pc' \in [Workers -> Stages] /\ job' \in [Workers -> Job] /\ JobOK'
    <3>1. CASE period[e[1]][e[2]] = "paid"
      <4>1. Become(w, "advance", [NoJob EXCEPT !.bill = e[1], !.due = e[2]])
        BY <2>1, <3>1
      <4>2. "advance" \in Holding \ {"accept"}
        BY DEF Holding
      <4>3. QED  BY <4>1, <4>2, <2>2, HoldType
    <3>2. CASE period[e[1]][e[2]] # "paid"
      <4>1. Become(w, "flip", [NoJob EXCEPT !.bill = e[1], !.due = e[2]])
        BY <2>1, <3>2
      <4>2. "flip" \in Holding \ {"accept"}
        BY DEF Holding
      <4>3. QED  BY <4>1, <4>2, <2>2, HoldType
    <3>3. QED  BY <3>1, <3>2
  <2>4. todo' \in [Workers -> SUBSET (Bills \X Periods)]
    BY <2>1 DEF TypeOK
  <2>5. QED
    BY <1>2, <2>3, <2>4 DEF SweepLook, TypeOK, billVars, ledgerVars, bounds, history
<1>3. CASE SweepFlip(w)
  <2>1. /\ pc' \in [Workers -> Stages] /\ job' \in [Workers -> Job] /\ JobOK'
        /\ job[w].bill \in Bills /\ job[w].due \in Periods
    BY <1>3, KeepType DEF SweepFlip, Holding
  <2>2. period' \in [Bills -> [Periods -> {"none", "paid", "overdue", "skipped"}]]
    BY <1>3, <2>1 DEF SweepFlip, TypeOK
  <2>3. QED
    BY <1>3, <2>1, <2>2 DEF SweepFlip, TypeOK, billVars, bounds, history
<1>4. CASE SweepCard(w)
  <2>1. /\ pc' \in [Workers -> Stages] /\ job' \in [Workers -> Job] /\ JobOK'
        /\ job[w].bill \in Bills /\ job[w].due \in Periods
    BY <1>4, KeepType DEF SweepCard, Holding
  <2>2. openCard' \in [Bills -> BOOLEAN] /\ alerted' \in [Bills -> SUBSET Periods]
    BY <1>4, <2>1 DEF SweepCard, TypeOK
  <2>3. QED
    BY <1>4, <2>1, <2>2 DEF SweepCard, TypeOK, billVars, ledgerVars, bounds
<1>5. CASE SweepAdvance(w)
  <2>1. pc' \in [Workers -> Stages] /\ job' \in [Workers -> Job] /\ JobOK'
    BY <1>5, NoJobType, BecomeType DEF SweepAdvance, Stages, WellFormed, Holding
  <2>2. job[w].bill \in Bills /\ job[w].due \in Periods
    BY <1>5 DEF SweepAdvance, JobOK, WellFormed, Holding
  <2>3. nextDue' \in [Bills -> Cursors]
    BY <1>5, <2>2, AdvanceType DEF SweepAdvance, TypeOK
  <2>4. QED
    BY <1>5, <2>1, <2>3 DEF SweepAdvance, TypeOK, ledgerVars, bounds, history
<1>6. QED  BY <1>1, <1>2, <1>3, <1>4, <1>5

LEMMA MarkSkipType ==
  ASSUME TypeInv, NEW w \in Workers,
         \/ \E b \in Bills : MarkRead(w, b) \/ SkipRead(w, b)
         \/ MarkWrite(w) \/ SkipWrite(w) \/ SkipAdvance(w)
  PROVE  TypeInv'
<1> USE DEF TypeInv
<1>1. CASE \E b \in Bills : MarkRead(w, b)
  <2>1. PICK b \in Bills : MarkRead(w, b)
    BY <1>1
  <2>2. pc' \in [Workers -> Stages] /\ job' \in [Workers -> Job] /\ JobOK'
    BY <2>1, HoldType DEF MarkRead, Holding
  <2>3. edits' \in Nat
    <3>1. edits \in Nat
      BY DEF TypeOK
    <3>2. edits' = edits + 1
      BY <2>1 DEF MarkRead
    <3>3. QED  BY <3>1, <3>2
  <2>4. QED
    BY <2>1, <2>2, <2>3 DEF MarkRead, TypeOK, billVars, ledgerVars, history
<1>2. CASE \E b \in Bills : SkipRead(w, b)
  <2>1. PICK b \in Bills : SkipRead(w, b)
    BY <1>2
  <2>2. pc' \in [Workers -> Stages] /\ job' \in [Workers -> Job] /\ JobOK'
    BY <2>1, HoldType DEF SkipRead, Holding
  <2>3. edits' \in Nat
    <3>1. edits \in Nat
      BY DEF TypeOK
    <3>2. edits' = edits + 1
      BY <2>1 DEF SkipRead
    <3>3. QED  BY <3>1, <3>2
  <2>4. QED
    BY <2>1, <2>2, <2>3 DEF SkipRead, TypeOK, billVars, ledgerVars, history
<1>3. CASE MarkWrite(w)
  <2>1. /\ pc' \in [Workers -> Stages] /\ job' \in [Workers -> Job] /\ JobOK'
        /\ todo' = todo
    BY <1>3, FinishType DEF MarkWrite
  <2>2. job[w].bill \in Bills /\ job[w].due \in Periods
    BY <1>3 DEF MarkWrite, JobOK, WellFormed, Holding
  <2>3. nextDue' \in [Bills -> Cursors]
    BY <1>3, <2>2, AdvanceType DEF MarkWrite, TypeOK
  <2>4. active' \in [Bills -> BOOLEAN] /\ acked' \in [Bills -> SUBSET Periods]
    BY <1>3, <2>2 DEF MarkWrite, TypeOK
  <2>5. QED
    BY <1>3, <2>1, <2>3, <2>4 DEF MarkWrite, TypeOK, ledgerVars, bounds
<1>4. CASE SkipWrite(w)
  <2>1. /\ pc' \in [Workers -> Stages] /\ job' \in [Workers -> Job] /\ JobOK'
        /\ job[w].bill \in Bills /\ job[w].due \in Periods
    BY <1>4, KeepType DEF SkipWrite, Holding
  <2>2. period' \in [Bills -> [Periods -> {"none", "paid", "overdue", "skipped"}]]
    BY <1>4, <2>1 DEF SkipWrite, TypeOK
  <2>3. QED
    BY <1>4, <2>1, <2>2 DEF SkipWrite, TypeOK, billVars, bounds, history
<1>5. CASE SkipAdvance(w)
  <2>1. /\ pc' \in [Workers -> Stages] /\ job' \in [Workers -> Job] /\ JobOK'
        /\ todo' = todo
    BY <1>5, FinishType DEF SkipAdvance
  <2>2. job[w].bill \in Bills /\ job[w].due \in Periods
    BY <1>5 DEF SkipAdvance, JobOK, WellFormed, Holding
  <2>3. nextDue' \in [Bills -> Cursors]
    BY <1>5, <2>2, AdvanceType DEF SkipAdvance, TypeOK
  <2>4. QED
    BY <1>5, <2>1, <2>3 DEF SkipAdvance, TypeOK, ledgerVars, bounds, history
<1>6. QED  BY <1>1, <1>2, <1>3, <1>4, <1>5

LEMMA UserType == ASSUME TypeInv, User PROVE TypeInv'
<1> USE DEF TypeInv
<1>1. ASSUME NEW p \in Pairs, NEW r \in {"rejected", "reassigned"}, CloseTriage(p, r)
      PROVE  TypeInv'
  BY <1>1 DEF CloseTriage, TypeOK, JobOK, WellFormed, billVars, ledgerVars,
     workerVars, history
<1>2. ASSUME NEW b \in Bills, NEW k \in Cursors, MoveDueDate(b, k)
      PROVE  TypeInv'
  <2>1. nextDue[b] .. (k - 1) \subseteq Periods
    BY ConstantsOK DEF TypeOK, Cursors, Periods
  <2>2. nextDue' \in [Bills -> Cursors] /\ acked' \in [Bills -> SUBSET Periods]
    BY <1>2, <2>1 DEF MoveDueDate, TypeOK
  <2>3. QED
    BY <1>2, <2>2 DEF MoveDueDate, TypeOK, JobOK, WellFormed, ledgerVars, workerVars
<1>3. ASSUME NEW b \in Bills, NEW u \in PauseDates \cup {NotPaused}, SetPause(b, u)
      PROVE  TypeInv'
  BY <1>3 DEF SetPause, TypeOK, JobOK, WellFormed, ledgerVars, workerVars, history
<1>4. ASSUME NEW b \in Bills, SetActive(b) \/ DismissCard(b)
      PROVE  TypeInv'
  <2>1. CASE SetActive(b)
    BY <2>1 DEF SetActive, TypeOK, JobOK, WellFormed, ledgerVars, workerVars, history
  <2>2. CASE DismissCard(b)
    BY <2>2 DEF DismissCard, TypeOK, JobOK, WellFormed, billVars, ledgerVars,
       workerVars, history
  <2>3. QED  BY <1>4, <2>1, <2>2
<1>5. ASSUME NEW t \in Txns, Categorise(t)
      PROVE  TypeInv'
  BY <1>5 DEF Categorise, TypeOK, JobOK, WellFormed, billVars, ledgerVars,
     workerVars, history
<1>6. ASSUME NEW t \in Txns, DeleteTxn(t)
      PROVE  TypeInv'
  BY <1>6 DEF DeleteTxn, TypeOK, JobOK, WellFormed, billVars, workerVars, history
<1>7. QED  BY <1>1, <1>2, <1>3, <1>4, <1>5, <1>6 DEF User

LEMMA CrashType == ASSUME TypeInv, NEW w \in Workers, Crash(w) PROVE TypeInv'
<1>1. pc' \in [Workers -> Stages] /\ job' \in [Workers -> Job] /\ JobOK'
  BY NoJobType, BecomeType DEF Crash, Stages, WellFormed, Holding
<1>2. crashes' \in Nat /\ todo' \in [Workers -> SUBSET (Bills \X Periods)]
  BY DEF Crash, TypeInv, TypeOK
<1>3. QED
  BY <1>1, <1>2 DEF Crash, TypeInv, TypeOK, billVars, ledgerVars, history

LEMMA TypeStep == TypeInv /\ [Next]_vars => TypeInv'
<1> SUFFICES ASSUME TypeInv, [Next]_vars PROVE TypeInv'
  OBVIOUS
<1>1. ASSUME NEW w \in Workers, Start(w) PROVE TypeInv'
  BY <1>1, MatchType, AcceptType, SweepType, MarkSkipType DEF Start
<1>2. ASSUME NEW w \in Workers, Proceed(w) PROVE TypeInv'
  BY <1>2, MatchType, AcceptType, SweepType, MarkSkipType DEF Proceed
<1>3. ASSUME NEW t \in Txns, ImportTxn(t) PROVE TypeInv'
  BY <1>3 DEF ImportTxn, TypeInv, TypeOK, JobOK, WellFormed, billVars, ledgerVars,
     workerVars, bounds, history
<1>4. CASE Tick
  BY <1>4 DEF Tick, TypeInv, TypeOK, JobOK, WellFormed, billVars, ledgerVars,
     workerVars, bounds, history
<1>5. CASE UNCHANGED vars
  BY <1>5 DEF vars, TypeInv, TypeOK, JobOK, WellFormed, billVars, ledgerVars,
     workerVars, bounds, history
<1>6. QED  BY <1>1, <1>2, <1>3, <1>4, <1>5, UserType, CrashType DEF Next

(***************************************************************************)
(* Every variable keeps its type, and a worker holds at each statement a   *)
(* bill, a cycle and a transaction that its next statement can write.      *)
(***************************************************************************)
THEOREM TypeCorrect == Spec => [](TypeOK /\ JobOK)
<1>1. Init => TypeInv
  BY InitType
<1>2. TypeInv /\ [Next]_vars => TypeInv'
  BY TypeStep
<1>3. QED  BY <1>1, <1>2, PTL DEF Spec, TypeInv

-----------------------------------------------------------------------------
(***************************************************************************)
(* LedgerComplete is not inductive: a worker writes a cursor computed from *)
(* the one it read statements ago.  The strengthening says of every value  *)
(* in flight what LedgerComplete says of the cursor.                       *)
(***************************************************************************)
Ready(stage, j) ==
    /\ stage \in Holding \cup {"decided"} /\ j.bill \in Bills
         => BelowSettled(j.bill, j.due)
    /\ stage = "card" => period[j.bill][j.due] # "none"
    /\ stage \in {"advance", "skipped"} => Settled(j.bill, j.due)

SnapshotsSettled ==
    \A w \in Workers :
        /\ Ready(pc[w], job[w])
        /\ \A e \in todo[w] : BelowSettled(e[1], e[2])

LedgerInv == TypeInv /\ LedgerComplete /\ SnapshotsSettled

\* A step that neither unsettles a cycle nor removes a row of the ledger.
Growing ==
    \A b \in Bills, k \in Periods :
        /\ Settled(b, k) => Settled(b, k)'
        /\ period[b][k] # "none" => period'[b][k] # "none"

LEMMA InitLedger == Init => LedgerInv
<1> SUFFICES ASSUME Init PROVE LedgerInv
  OBVIOUS
<1>1. TypeInv
  BY InitType
<1>2. LedgerComplete
  BY DEF Init, LedgerComplete, BelowSettled
<1>3. SnapshotsSettled
  BY DEF Init, SnapshotsSettled, Ready, NoJob, Holding
<1>4. QED  BY <1>1, <1>2, <1>3 DEF LedgerInv

LEMMA BelowType ==
  ASSUME NEW d \in Cursors
  PROVE  0 .. (d - 1) \subseteq Periods
  BY ConstantsOK DEF Cursors, Periods

LEMMA BelowGrows ==
  ASSUME Growing, NEW b \in Bills, NEW d \in Cursors, BelowSettled(b, d)
  PROVE  BelowSettled(b, d)'
  BY BelowType DEF Growing, BelowSettled

LEMMA ReadyGrows ==
  ASSUME TypeInv, Growing, NEW stage \in Stages, NEW j \in Job,
         WellFormed(stage, j), Ready(stage, j)
  PROVE  Ready(stage, j)'
<1>1. ASSUME stage \in Holding \cup {"decided"}, j.bill \in Bills
      PROVE  BelowSettled(j.bill, j.due)'
  BY <1>1, BelowGrows DEF Ready, Job
<1>2. ASSUME stage = "card"
      PROVE  period'[j.bill][j.due] # "none"
  BY <1>2 DEF Ready, Growing, WellFormed, Holding
<1>3. ASSUME stage \in {"advance", "skipped"}
      PROVE  Settled(j.bill, j.due)'
  BY <1>3 DEF Ready, Growing, WellFormed, Holding
<1>4. QED  BY <1>1, <1>2, <1>3 DEF Ready

\* A worker moves to a stage it is ready for; the sweep lists hold nothing new
\* that is not settled below.
LEMMA SnapshotStep ==
  ASSUME LedgerInv, Growing, TypeInv', NEW w \in Workers,
         NEW stage \in Stages, NEW j \in Job, Become(w, stage, j),
         Ready(stage, j)',
         \A v \in Workers : \A e \in todo'[v] : BelowSettled(e[1], e[2])
  PROVE  SnapshotsSettled'
<1> SUFFICES ASSUME NEW v \in Workers
             PROVE  /\ Ready(pc[v], job[v])'
                    /\ \A e \in todo'[v] : BelowSettled(e[1], e[2])'
  BY DEF SnapshotsSettled
<1>1. \A e \in todo'[v] : BelowSettled(e[1], e[2])'
  <2> SUFFICES ASSUME NEW e \in todo'[v] PROVE BelowSettled(e[1], e[2])'
    OBVIOUS
  <2>1. e[1] \in Bills /\ e[2] \in Cursors
    BY PeriodsCursors DEF TypeInv, TypeOK
  <2>2. BelowSettled(e[1], e[2])
    OBVIOUS
  <2>3. QED  BY <2>1, <2>2, BelowGrows
<1>2. CASE v = w
  <2>1. pc'[v] = stage /\ job'[v] = j
    BY <1>2 DEF Become, LedgerInv, TypeInv, TypeOK
  <2>2. QED  BY <1>1, <2>1 DEF Ready
<1>3. CASE v # w
  <2>1. pc'[v] = pc[v] /\ job'[v] = job[v]
    BY <1>3 DEF Become, LedgerInv, TypeInv, TypeOK
  <2>2. PICK s \in Stages, k \in Job :
          s = pc[v] /\ k = job[v] /\ WellFormed(s, k) /\ Ready(s, k)
    BY DEF LedgerInv, TypeInv, TypeOK, JobOK, SnapshotsSettled
  <2>3. Ready(s, k)'
    BY <2>2, ReadyGrows DEF LedgerInv
  <2>4. pc'[v] = s /\ job'[v] = k
    BY <2>1, <2>2
  <2>5. QED  BY <1>1, <2>3, <2>4 DEF Ready
<1>4. QED  BY <1>2, <1>3

\* The same when no worker moves.
LEMMA SnapshotKept ==
  ASSUME LedgerInv, Growing, TypeInv', UNCHANGED workerVars
  PROVE  SnapshotsSettled'
<1> SUFFICES ASSUME NEW v \in Workers
             PROVE  /\ Ready(pc[v], job[v])'
                    /\ \A e \in todo[v] : BelowSettled(e[1], e[2])'
  BY DEF SnapshotsSettled, workerVars
<1>1. ASSUME NEW e \in todo[v] PROVE BelowSettled(e[1], e[2])'
  <2>1. e[1] \in Bills /\ e[2] \in Cursors
    BY PeriodsCursors DEF LedgerInv, TypeInv, TypeOK
  <2>2. BelowSettled(e[1], e[2])
    BY DEF LedgerInv, SnapshotsSettled
  <2>3. QED  BY <2>1, <2>2, BelowGrows
<1>2. PICK s \in Stages, k \in Job :
        s = pc[v] /\ k = job[v] /\ WellFormed(s, k) /\ Ready(s, k)
  BY DEF LedgerInv, TypeInv, TypeOK, JobOK, SnapshotsSettled
<1>3. Ready(s, k)'
  BY <1>2, ReadyGrows DEF LedgerInv
<1>4. pc'[v] = s /\ job'[v] = k
  BY <1>2 DEF workerVars
<1>5. Ready(pc[v], job[v])'
  BY <1>3, <1>4 DEF Ready
<1>6. QED  BY <1>1, <1>5

LEMMA ListsKept ==
  ASSUME LedgerInv, \A v \in Workers : todo'[v] \subseteq todo[v]
  PROVE  \A v \in Workers : \A e \in todo'[v] : BelowSettled(e[1], e[2])
  BY DEF LedgerInv, SnapshotsSettled

LEMMA GrowingQuiet == UNCHANGED <<period, acked, alerted>> => Growing
  BY DEF Growing, Settled

LEMMA GrowingLink ==
  ASSUME TypeOK, NEW b \in Bills, NEW k \in Periods, NEW t, NEW how,
         LinkBillToTxn(b, k, t, how), UNCHANGED <<acked, alerted>>
  PROVE  Growing /\ Settled(b, k)'
<1>1. period' = [period EXCEPT ![b][k] = "paid"]
  BY DEF LinkBillToTxn, PayPeriod
<1>2. /\ period'[b][k] = "paid"
      /\ \A c \in Bills, i \in Periods :
           period'[c][i] = period[c][i] \/ period'[c][i] = "paid"
  BY <1>1 DEF TypeOK
<1>3. QED  BY <1>2 DEF Growing, Settled

LEMMA CursorKept ==
  ASSUME LedgerInv, Growing, nextDue' = nextDue
  PROVE  LedgerComplete'
<1> SUFFICES ASSUME NEW b \in Bills PROVE BelowSettled(b, nextDue[b])'
  BY DEF LedgerComplete
<1>1. PICK d \in Cursors : d = nextDue[b] /\ BelowSettled(b, d)
  BY DEF LedgerInv, TypeInv, TypeOK, LedgerComplete
<1>2. BelowSettled(b, d)'
  BY <1>1, BelowGrows
<1>3. QED  BY <1>1, <1>2 DEF BelowSettled

\* A cursor written from a stale one is as good: the cycle it read was settled
\* below and is settled itself by now.
LEMMA CursorStep ==
  ASSUME LedgerInv, Growing, NEW b \in Bills, NEW d \in Periods,
         BelowSettled(b, d), Settled(b, d)', nextDue' = Advance(nextDue, b, d)
  PROVE  LedgerComplete'
<1> SUFFICES ASSUME NEW c \in Bills PROVE BelowSettled(c, nextDue[c])'
  BY DEF LedgerComplete
<1>1. CASE c = b /\ b \in Recurring
  <2>1. nextDue'[c] = d + 1
    BY <1>1 DEF Advance, LedgerInv, TypeInv, TypeOK
  <2>2. BelowSettled(b, d)'
    BY BelowGrows, PeriodsCursors
  <2>3. BelowSettled(b, d + 1)'
    <3>1. \A k \in 0 .. ((d + 1) - 1) : k \in 0 .. (d - 1) \/ k = d
      BY DEF Periods
    <3>2. QED  BY <2>2, <3>1 DEF BelowSettled
  <2>4. QED  BY <1>1, <2>1, <2>3 DEF BelowSettled
<1>2. CASE ~(c = b /\ b \in Recurring)
  <2>1. nextDue'[c] = nextDue[c]
    BY <1>2 DEF Advance, LedgerInv, TypeInv, TypeOK
  <2>2. PICK e \in Cursors : e = nextDue[c] /\ BelowSettled(c, e)
    BY DEF LedgerInv, TypeInv, TypeOK, LedgerComplete
  <2>3. BelowSettled(c, e)'
    BY <2>2, BelowGrows
  <2>4. QED  BY <2>1, <2>2, <2>3 DEF BelowSettled
<1>3. QED  BY <1>1, <1>2

\* A statement that only reads: the value it takes is settled below.
LEMMA ReadStep ==
  ASSUME LedgerInv, TypeInv', NEW w \in Workers, NEW stage \in Stages, NEW j \in Job,
         Become(w, stage, j), WellFormed(stage, j), Ready(stage, j),
         UNCHANGED <<nextDue, period, acked, alerted>>,
         \A v \in Workers : \A e \in todo'[v] : BelowSettled(e[1], e[2])
  PROVE  LedgerInv'
<1>1. Growing
  BY GrowingQuiet
<1>2. Ready(stage, j)'
  BY <1>1, ReadyGrows DEF LedgerInv
<1>3. QED  BY <1>1, <1>2, SnapshotStep, CursorKept DEF LedgerInv

\* The same of a worker that goes idle, whatever it leaves of its list.
LEMMA IdleStep ==
  ASSUME LedgerInv, TypeInv', NEW w \in Workers, Become(w, "idle", NoJob),
         UNCHANGED <<nextDue, period, acked, alerted>>,
         \A v \in Workers : todo'[v] \subseteq todo[v]
  PROVE  LedgerInv'
<1>1. Ready("idle", NoJob) /\ WellFormed("idle", NoJob) /\ "idle" \in Stages
  BY DEF Ready, Holding, Stages, WellFormed
<1>2. QED  BY <1>1, ReadStep, ListsKept, NoJobType

\* A read of the cursor itself.
LEMMA CursorReady ==
  ASSUME LedgerInv, NEW b \in Bills, NEW stage \in {"decided", "accept", "mark", "skip"},
         NEW t \in Txns \cup {NoTxn}, NEW ask \in SUBSET Bills, nextDue[b] \in Periods,
         stage \in {"decided", "accept"} => t \in Txns
  PROVE  \E j \in Job :
           /\ j = [bill |-> b, txn |-> t, due |-> nextDue[b], ask |-> ask]
           /\ WellFormed(stage, j) /\ Ready(stage, j) /\ stage \in Stages
<1>1. PICK d \in Periods : d = nextDue[b]
  OBVIOUS
<1> DEFINE j == [bill |-> b, txn |-> t, due |-> d, ask |-> ask]
<1>2. j \in Job
  BY JobType, PeriodsCursors
<1>3. WellFormed(stage, j) /\ stage \in Stages
  BY DEF WellFormed, Stages
<1>4. BelowSettled(b, d)
  BY <1>1 DEF LedgerInv, LedgerComplete
<1>5. Ready(stage, j)
  BY <1>4 DEF Ready
<1>6. QED  BY <1>1, <1>2, <1>3, <1>5

LEMMA LedgerMatch ==
  ASSUME LedgerInv, TypeInv', NEW w \in Workers,
         (\E t \in Txns : MatchBegin(w, t)) \/ MatchScan(w) \/ MatchCommit(w)
  PROVE  LedgerInv'
<1>1. CASE \E t \in Txns : MatchBegin(w, t)
  <2>1. PICK t \in Txns : MatchBegin(w, t)
    BY <1>1
  <2> DEFINE j == [NoJob EXCEPT !.txn = t]
  <2>2. j \in Job /\ WellFormed("match", j) /\ "match" \in Stages /\ Ready("match", j)
    BY NoJobType DEF Job, NoJob, WellFormed, Holding, Stages, Ready
  <2>3. Become(w, "match", j) /\ UNCHANGED <<nextDue, period, acked, alerted, todo>>
    BY <2>1 DEF MatchBegin, billVars, ledgerVars, history
  <2>4. QED
    <3> HIDE DEF j
    <3> QED  BY <2>2, <2>3, ReadStep, ListsKept
<1>2. CASE MatchScan(w)
  <2>1. PICK t \in Txns : t = job[w].txn
    BY <1>2 DEF MatchScan, LedgerInv, TypeInv, TypeOK, JobOK, WellFormed
  <2>2. PICK seen \in SUBSET Bills : seen = {b \in Bills : Matchable(b, t)}
    OBVIOUS
  <2>3. UNCHANGED <<nextDue, period, acked, alerted, todo>>
    BY <1>2 DEF MatchScan, billVars, ledgerVars, history
  <2>4. \/ Become(w, "decided", [NoJob EXCEPT !.txn = t, !.ask = seen])
        \/ \E b \in seen : Become(w, "decided",
             [bill |-> b, txn |-> t, due |-> nextDue[b], ask |-> seen \ {b}])
    BY <1>2, <2>1, <2>2 DEF MatchScan
  <2>5. CASE Become(w, "decided", [NoJob EXCEPT !.txn = t, !.ask = seen])
    <3>1. PICK j \in Job : j = [NoJob EXCEPT !.txn = t, !.ask = seen]
      BY NoJobType DEF NoJob, Job
    <3>2. j.bill = NoBill /\ j.txn = t
      BY <3>1 DEF NoJob
    <3>3. WellFormed("decided", j) /\ "decided" \in Stages /\ Ready("decided", j)
      BY <3>2, ConstantsOK DEF WellFormed, Holding, Stages, Ready
    <3>4. QED  BY <2>5, <2>3, <3>1, <3>3, ReadStep, ListsKept
  <2>6. CASE \E b \in seen : Become(w, "decided",
               [bill |-> b, txn |-> t, due |-> nextDue[b], ask |-> seen \ {b}])
    <3>1. PICK b \in seen : Become(w, "decided",
            [bill |-> b, txn |-> t, due |-> nextDue[b], ask |-> seen \ {b}])
      BY <2>6
    <3>2. b \in Bills /\ nextDue[b] \in Periods
      BY <2>2 DEF Matchable
    <3>3. PICK ask \in SUBSET Bills : ask = seen \ {b}
      OBVIOUS
    <3>4. PICK j \in Job :
            /\ j = [bill |-> b, txn |-> t, due |-> nextDue[b], ask |-> ask]
            /\ WellFormed("decided", j) /\ Ready("decided", j) /\ "decided" \in Stages
      <4>1. PICK stage \in {"decided", "accept", "mark", "skip"} : stage = "decided"
        OBVIOUS
      <4>2. QED  BY <3>2, <4>1, CursorReady
    <3>5. QED  BY <2>3, <3>1, <3>3, <3>4, ReadStep, ListsKept
  <2>7. QED  BY <2>4, <2>5, <2>6
<1>3. CASE MatchCommit(w)
  <2>1. PICK j \in Job : j = job[w] /\ WellFormed("decided", j) /\ Ready("decided", j)
    BY <1>3 DEF MatchCommit, LedgerInv, TypeInv, TypeOK, JobOK, SnapshotsSettled
  <2>2. \/ LinkBillToTxn(j.bill, j.due, j.txn, "auto") /\ j.bill # NoBill
        \/ UNCHANGED <<nextDue, period>>
    BY <1>3, <2>1 DEF MatchCommit, ledgerVars
  <2>3. Become(w, "idle", NoJob) /\ UNCHANGED <<acked, alerted, todo>>
    BY <1>3 DEF MatchCommit, Finish
  <2>4. CASE UNCHANGED <<nextDue, period>>
    BY <2>3, <2>4, IdleStep
  <2>5. CASE LinkBillToTxn(j.bill, j.due, j.txn, "auto") /\ j.bill # NoBill
    <3>1. j.bill \in Bills /\ j.due \in Periods /\ BelowSettled(j.bill, j.due)
      BY <2>1, <2>5 DEF WellFormed, Ready, Job
    <3>2. Growing /\ Settled(j.bill, j.due)'
      BY <2>3, <2>5, <3>1, GrowingLink DEF LedgerInv, TypeInv
    <3>3. LedgerComplete'
      BY <2>5, <3>1, <3>2, CursorStep DEF LinkBillToTxn, PayPeriod
    <3>4. Ready("idle", NoJob)' /\ "idle" \in Stages
      BY DEF Ready, Holding, Stages
    <3>5. SnapshotsSettled'
      BY <2>3, <3>2, <3>4, SnapshotStep, ListsKept, NoJobType
    <3>6. QED  BY <3>3, <3>5 DEF LedgerInv
  <2>6. QED  BY <2>2, <2>4, <2>5
<1>4. QED  BY <1>1, <1>2, <1>3

LEMMA LedgerAccept ==
  ASSUME LedgerInv, TypeInv', NEW w \in Workers,
         (\E p \in Pairs : AcceptLoad(w, p)) \/ AcceptCommit(w) \/ DeadlockAbort(w)
  PROVE  LedgerInv'
<1>1. CASE \E p \in Pairs : AcceptLoad(w, p)
  <2>1. PICK p \in Pairs : AcceptLoad(w, p)
    BY <1>1
  <2>2. PICK b \in Bills, t \in Txns : b = p[1] /\ t = p[2]
    BY DEF Pairs
  <2>3. /\ Become(w, "accept", [bill |-> b, txn |-> t, due |-> nextDue[b], ask |-> {}])
        /\ nextDue[b] \in Periods
        /\ UNCHANGED <<nextDue, period, acked, alerted, todo>>
    BY <2>1, <2>2 DEF AcceptLoad, billVars, ledgerVars, history
  <2>4. PICK j \in Job :
          /\ j = [bill |-> b, txn |-> t, due |-> nextDue[b], ask |-> {}]
          /\ WellFormed("accept", j) /\ Ready("accept", j) /\ "accept" \in Stages
    BY <2>3, CursorReady
  <2>5. QED  BY <2>3, <2>4, ReadStep, ListsKept
<1>2. CASE AcceptCommit(w)
  <2>1. PICK j \in Job : j = job[w] /\ WellFormed("accept", j) /\ Ready("accept", j)
    BY <1>2 DEF AcceptCommit, LedgerInv, TypeInv, TypeOK, JobOK, SnapshotsSettled
  <2>2. LinkBillToTxn(j.bill, j.due, j.txn, "accept")
    BY <1>2, <2>1 DEF AcceptCommit
  <2>3. Become(w, "idle", NoJob) /\ UNCHANGED <<acked, alerted, todo>>
    BY <1>2 DEF AcceptCommit, Finish
  <2>4. j.bill \in Bills /\ j.due \in Periods /\ BelowSettled(j.bill, j.due)
    BY <2>1 DEF WellFormed, Ready, Holding
  <2>5. Growing /\ Settled(j.bill, j.due)'
    BY <2>2, <2>3, <2>4, GrowingLink DEF LedgerInv, TypeInv
  <2>6. LedgerComplete'
    BY <2>2, <2>4, <2>5, CursorStep DEF LinkBillToTxn, PayPeriod
  <2>7. Ready("idle", NoJob)' /\ "idle" \in Stages
    BY DEF Ready, Holding, Stages
  <2>8. SnapshotsSettled'
    BY <2>3, <2>5, <2>7, SnapshotStep, ListsKept, NoJobType
  <2>9. QED  BY <2>6, <2>8 DEF LedgerInv
<1>3. CASE DeadlockAbort(w)
  <2>1. /\ Become(w, "idle", NoJob)
        /\ UNCHANGED <<nextDue, period, acked, alerted, todo>>
    BY <1>3 DEF DeadlockAbort, Finish, billVars, ledgerVars, history
  <2>2. QED  BY <2>1, IdleStep
<1>4. QED  BY <1>1, <1>2, <1>3

LEMMA LedgerSweep ==
  ASSUME LedgerInv, TypeInv', NEW w \in Workers,
         \/ SweepList(w) \/ SweepLook(w) \/ SweepFlip(w)
         \/ SweepCard(w) \/ SweepAdvance(w)
  PROVE  LedgerInv'
<1>1. CASE SweepList(w)
  <2>1. /\ Become(w, "sweep", NoJob)
        /\ UNCHANGED <<nextDue, period, acked, alerted>>
        /\ \A v \in Workers : v # w => todo'[v] = todo[v]
        /\ todo'[w] = {<<b, nextDue[b]>> : b \in {c \in Bills : PastDue(c)}}
    BY <1>1 DEF SweepList, billVars, ledgerVars, history, LedgerInv, TypeInv, TypeOK
  <2>2. \A e \in todo'[w] : BelowSettled(e[1], e[2])
    BY <2>1 DEF LedgerInv, LedgerComplete
  <2>3. \A v \in Workers : \A e \in todo'[v] : BelowSettled(e[1], e[2])
    BY <2>1, <2>2 DEF LedgerInv, SnapshotsSettled
  <2>4. Ready("sweep", NoJob) /\ WellFormed("sweep", NoJob) /\ "sweep" \in Stages
    BY DEF Ready, Holding, Stages, WellFormed
  <2>5. QED  BY <2>1, <2>3, <2>4, ReadStep, NoJobType
<1>2. CASE SweepLook(w)
  <2>1. PICK e \in todo[w] :
          /\ todo' = [todo EXCEPT ![w] = @ \ {e}]
          /\ Become(w, IF period[e[1]][e[2]] = "paid" THEN "advance" ELSE "flip",
                   [NoJob EXCEPT !.bill = e[1], !.due = e[2]])
    BY <1>2 DEF SweepLook
  <2>2. PICK b \in Bills, d \in Periods : b = e[1] /\ d = e[2]
    BY <2>1 DEF LedgerInv, TypeInv, TypeOK
  <2>3. BelowSettled(b, d)
    BY <2>1, <2>2 DEF LedgerInv, SnapshotsSettled
  <2>4. PICK stage \in {"advance", "flip"} :
          stage = IF period[b][d] = "paid" THEN "advance" ELSE "flip"
    OBVIOUS
  <2>5. PICK j \in Job : /\ j = [NoJob EXCEPT !.bill = b, !.due = d]
                         /\ j.bill = b /\ j.due = d
    <3> DEFINE k == [NoJob EXCEPT !.bill = b, !.due = d]
    <3>1. k \in Job
      BY PeriodsCursors, NoJobType DEF NoJob, Job
    <3>2. k.bill = b /\ k.due = d
      BY DEF NoJob
    <3>3. QED  BY <3>1, <3>2
  <2>6. WellFormed(stage, j) /\ stage \in Stages
    BY <2>4, <2>5 DEF WellFormed, Holding, Stages
  <2>7. stage = "advance" => Settled(b, d)
    BY <2>4 DEF Settled
  <2>8. Ready(stage, j)
    BY <2>3, <2>4, <2>5, <2>7 DEF Ready
  <2>9. Become(w, stage, j)
    BY <2>1, <2>2, <2>4, <2>5
  <2>10. \A v \in Workers : todo'[v] \subseteq todo[v]
    BY <2>1 DEF LedgerInv, TypeInv, TypeOK
  <2>11. UNCHANGED <<nextDue, period, acked, alerted>>
    BY <1>2 DEF SweepLook, billVars, ledgerVars, history
  <2>12. QED  BY <2>6, <2>8, <2>9, <2>10, <2>11, ReadStep, ListsKept
<1>3. CASE SweepFlip(w)
  <2>1. PICK j \in Job : j = job[w] /\ WellFormed("flip", j) /\ Ready("flip", j)
    BY <1>3 DEF SweepFlip, LedgerInv, TypeInv, TypeOK, JobOK, SnapshotsSettled
  <2>2. j.bill \in Bills /\ j.due \in Periods /\ BelowSettled(j.bill, j.due)
    BY <2>1 DEF WellFormed, Ready, Holding
  <2>3. /\ period'[j.bill][j.due] # "none"
        /\ \A c \in Bills, i \in Periods :
             \/ period'[c][i] = period[c][i]
             \/ period[c][i] = "none" /\ period'[c][i] = "overdue"
    <3>1. period' = [period EXCEPT ![j.bill][j.due] = IF @ = "none" THEN "overdue" ELSE @]
      BY <1>3, <2>1 DEF SweepFlip
    <3>2. \A c \in Bills : period[c] = [i \in Periods |-> period[c][i]]
      BY DEF LedgerInv, TypeInv, TypeOK
    <3>3. period = [c \in Bills |-> period[c]]
      BY DEF LedgerInv, TypeInv, TypeOK
    <3>4. QED  BY <2>2, <3>1, <3>2, <3>3
  <2>4. /\ Become(w, "card", j)
        /\ UNCHANGED <<nextDue, acked, alerted, todo>>
    BY <1>3, <2>1 DEF SweepFlip, billVars, history
  <2>5. Growing
    BY <2>3, <2>4 DEF Growing, Settled
  <2>6. BelowSettled(j.bill, j.due)'
    BY <2>2, <2>5, BelowGrows, PeriodsCursors
  <2>7. Ready("card", j)' /\ "card" \in Stages
    BY <2>3, <2>6 DEF Ready, Stages
  <2>8. SnapshotsSettled'
    BY <2>4, <2>5, <2>7, SnapshotStep, ListsKept
  <2>9. QED  BY <2>4, <2>5, <2>8, CursorKept DEF LedgerInv
<1>4. CASE SweepCard(w)
  <2>1. PICK j \in Job : j = job[w] /\ WellFormed("card", j) /\ Ready("card", j)
    BY <1>4 DEF SweepCard, LedgerInv, TypeInv, TypeOK, JobOK, SnapshotsSettled
  <2>2. /\ j.bill \in Bills /\ j.due \in Periods /\ BelowSettled(j.bill, j.due)
        /\ period[j.bill][j.due] # "none"
    BY <2>1 DEF WellFormed, Ready, Holding
  <2>3. /\ j.due \in alerted'[j.bill]
        /\ \A c \in Bills : alerted[c] \subseteq alerted'[c]
    BY <1>4, <2>1, <2>2 DEF SweepCard, LedgerInv, TypeInv, TypeOK
  <2>4. /\ Become(w, "advance", j)
        /\ UNCHANGED <<nextDue, period, acked, todo>>
    BY <1>4, <2>1 DEF SweepCard, billVars, ledgerVars
  <2>5. Growing
    BY <2>3, <2>4 DEF Growing, Settled
  <2>6. BelowSettled(j.bill, j.due)'
    BY <2>2, <2>5, BelowGrows, PeriodsCursors
  <2>7. Settled(j.bill, j.due)'
    BY <2>2, <2>3, <2>4 DEF Settled, LedgerInv, TypeInv, TypeOK
  <2>8. Ready("advance", j)' /\ "advance" \in Stages
    BY <2>6, <2>7 DEF Ready, Stages
  <2>9. SnapshotsSettled'
    BY <2>4, <2>5, <2>8, SnapshotStep, ListsKept
  <2>10. QED  BY <2>4, <2>5, <2>9, CursorKept DEF LedgerInv
<1>5. CASE SweepAdvance(w)
  <2>1. PICK j \in Job : j = job[w] /\ WellFormed("advance", j) /\ Ready("advance", j)
    BY <1>5 DEF SweepAdvance, LedgerInv, TypeInv, TypeOK, JobOK, SnapshotsSettled
  <2>2. /\ j.bill \in Bills /\ j.due \in Periods /\ BelowSettled(j.bill, j.due)
        /\ Settled(j.bill, j.due)
    BY <2>1 DEF WellFormed, Ready, Holding
  <2>3. /\ nextDue' = Advance(nextDue, j.bill, j.due)
        /\ UNCHANGED <<period, acked, alerted, todo>>
    BY <1>5, <2>1 DEF SweepAdvance, ledgerVars, history
  <2>4. PICK stage \in {"idle", "sweep"} : Become(w, stage, NoJob)
    BY <1>5 DEF SweepAdvance
  <2>5. Growing
    BY <2>3, GrowingQuiet
  <2>6. LedgerComplete'
    BY <2>2, <2>3, <2>5, CursorStep DEF Growing
  <2>7. Ready(stage, NoJob)' /\ stage \in Stages
    BY DEF Ready, Stages, Holding
  <2>8. SnapshotsSettled'
    BY <2>3, <2>4, <2>5, <2>7, SnapshotStep, ListsKept, NoJobType
  <2>9. QED  BY <2>6, <2>8 DEF LedgerInv
<1>6. QED  BY <1>1, <1>2, <1>3, <1>4, <1>5

LEMMA LedgerMarkSkip ==
  ASSUME LedgerInv, TypeInv', NEW w \in Workers,
         \/ \E b \in Bills : MarkRead(w, b) \/ SkipRead(w, b)
         \/ MarkWrite(w) \/ SkipWrite(w) \/ SkipAdvance(w)
  PROVE  LedgerInv'
<1>1. ASSUME NEW b \in Bills, NEW stage \in {"mark", "skip"}, nextDue[b] \in Periods,
             Become(w, stage, [NoJob EXCEPT !.bill = b, !.due = nextDue[b]]),
             UNCHANGED <<nextDue, period, acked, alerted, todo>>
      PROVE  LedgerInv'
  <2>1. PICK d \in Periods : d = nextDue[b]
    BY <1>1
  <2>2. BelowSettled(b, d)
    BY <2>1 DEF LedgerInv, LedgerComplete
  <2>3. PICK j \in Job : /\ j = [NoJob EXCEPT !.bill = b, !.due = d]
                         /\ j.bill = b /\ j.due = d
    <3> DEFINE k == [NoJob EXCEPT !.bill = b, !.due = d]
    <3>1. k \in Job
      BY PeriodsCursors, NoJobType DEF NoJob, Job
    <3>2. k.bill = b /\ k.due = d
      BY DEF NoJob
    <3>3. QED  BY <3>1, <3>2
  <2>4. WellFormed(stage, j) /\ stage \in Stages
    BY <2>3 DEF WellFormed, Stages
  <2>5. Ready(stage, j)
    BY <2>2, <2>3 DEF Ready
  <2>6. QED  BY <1>1, <2>1, <2>3, <2>4, <2>5, ReadStep, ListsKept
<1>2. ASSUME NEW b \in Bills, MarkRead(w, b) \/ SkipRead(w, b)
      PROVE  LedgerInv'
  BY <1>1, <1>2 DEF MarkRead, SkipRead, billVars, ledgerVars, history
<1>3. CASE MarkWrite(w)
  <2>1. PICK j \in Job : j = job[w] /\ WellFormed("mark", j) /\ Ready("mark", j)
    BY <1>3 DEF MarkWrite, LedgerInv, TypeInv, TypeOK, JobOK, SnapshotsSettled
  <2>2. j.bill \in Bills /\ j.due \in Periods /\ BelowSettled(j.bill, j.due)
    BY <2>1 DEF WellFormed, Ready, Holding
  <2>3. /\ nextDue' = Advance(nextDue, j.bill, j.due)
        /\ j.due \in acked'[j.bill]
        /\ \A c \in Bills : acked[c] \subseteq acked'[c]
    BY <1>3, <2>1, <2>2 DEF MarkWrite, LedgerInv, TypeInv, TypeOK
  <2>4. /\ Become(w, "idle", NoJob)
        /\ UNCHANGED <<period, alerted, todo>>
    BY <1>3 DEF MarkWrite, Finish, ledgerVars
  <2>5. Growing /\ Settled(j.bill, j.due)'
    BY <2>3, <2>4 DEF Growing, Settled
  <2>6. LedgerComplete'
    BY <2>2, <2>3, <2>5, CursorStep
  <2>7. Ready("idle", NoJob)' /\ "idle" \in Stages
    BY DEF Ready, Holding, Stages
  <2>8. SnapshotsSettled'
    BY <2>4, <2>5, <2>7, SnapshotStep, ListsKept, NoJobType
  <2>9. QED  BY <2>6, <2>8 DEF LedgerInv
<1>4. CASE SkipWrite(w)
  <2>1. PICK j \in Job : j = job[w] /\ WellFormed("skip", j) /\ Ready("skip", j)
    BY <1>4 DEF SkipWrite, LedgerInv, TypeInv, TypeOK, JobOK, SnapshotsSettled
  <2>2. j.bill \in Bills /\ j.due \in Periods /\ BelowSettled(j.bill, j.due)
    BY <2>1 DEF WellFormed, Ready, Holding
  <2>3. /\ period'[j.bill][j.due] = "skipped"
        /\ \A c \in Bills, i \in Periods :
             period'[c][i] = period[c][i] \/ period'[c][i] = "skipped"
    BY <1>4, <2>1, <2>2 DEF SkipWrite, LedgerInv, TypeInv, TypeOK
  <2>4. /\ Become(w, "skipped", j)
        /\ UNCHANGED <<nextDue, acked, alerted, todo>>
    BY <1>4, <2>1 DEF SkipWrite, billVars, history
  <2>5. Growing /\ Settled(j.bill, j.due)'
    BY <2>3, <2>4 DEF Growing, Settled
  <2>6. BelowSettled(j.bill, j.due)'
    BY <2>2, <2>5, BelowGrows, PeriodsCursors
  <2>7. Ready("skipped", j)' /\ "skipped" \in Stages
    BY <2>5, <2>6 DEF Ready, Stages
  <2>8. SnapshotsSettled'
    BY <2>4, <2>5, <2>7, SnapshotStep, ListsKept
  <2>9. QED  BY <2>4, <2>5, <2>8, CursorKept DEF LedgerInv
<1>5. CASE SkipAdvance(w)
  <2>1. PICK j \in Job : j = job[w] /\ WellFormed("skipped", j) /\ Ready("skipped", j)
    BY <1>5 DEF SkipAdvance, LedgerInv, TypeInv, TypeOK, JobOK, SnapshotsSettled
  <2>2. /\ j.bill \in Bills /\ j.due \in Periods /\ BelowSettled(j.bill, j.due)
        /\ Settled(j.bill, j.due)
    BY <2>1 DEF WellFormed, Ready, Holding
  <2>3. /\ nextDue' = Advance(nextDue, j.bill, j.due)
        /\ Become(w, "idle", NoJob)
        /\ UNCHANGED <<period, acked, alerted, todo>>
    BY <1>5, <2>1 DEF SkipAdvance, Finish, ledgerVars, history
  <2>4. Growing
    BY <2>3, GrowingQuiet
  <2>5. LedgerComplete'
    BY <2>2, <2>3, <2>4, CursorStep DEF Growing
  <2>6. Ready("idle", NoJob)' /\ "idle" \in Stages
    BY DEF Ready, Stages, Holding
  <2>7. SnapshotsSettled'
    BY <2>3, <2>4, <2>6, SnapshotStep, ListsKept, NoJobType
  <2>8. QED  BY <2>5, <2>7 DEF LedgerInv
<1>6. QED  BY <1>2, <1>3, <1>4, <1>5

LEMMA LedgerUser == ASSUME LedgerInv, TypeInv', User PROVE LedgerInv'
<1>1. ASSUME NEW b \in Bills, NEW k \in Cursors, MoveDueDate(b, k)
      PROVE  LedgerInv'
  <2>1. PICK d \in Cursors : d = nextDue[b] /\ BelowSettled(b, d)
    BY DEF LedgerInv, LedgerComplete, TypeInv, TypeOK
  <2>2. /\ nextDue'[b] = k
        /\ \A c \in Bills : c # b => nextDue'[c] = nextDue[c]
        /\ d .. (k - 1) \subseteq acked'[b]
        /\ \A c \in Bills : acked[c] \subseteq acked'[c]
    BY <1>1, <2>1 DEF MoveDueDate, LedgerInv, TypeInv, TypeOK
  <2>3. UNCHANGED <<period, alerted>> /\ UNCHANGED workerVars
    BY <1>1 DEF MoveDueDate, ledgerVars
  <2>4. Growing
    BY <2>2, <2>3 DEF Growing, Settled
  <2>5. BelowSettled(b, k)'
    <3>1. BelowSettled(b, d)'
      BY <2>1, <2>4, BelowGrows
    <3>2. \A i \in 0 .. (k - 1) : i \in 0 .. (d - 1) \/ i \in d .. (k - 1)
      BY ConstantsOK DEF Cursors
    <3>3. QED  BY <2>2, <3>1, <3>2 DEF BelowSettled, Settled
  <2>6. ASSUME NEW c \in Bills PROVE BelowSettled(c, nextDue[c])'
    <3>1. CASE c = b
      BY <2>2, <2>5, <3>1 DEF BelowSettled
    <3>2. CASE c # b
      <4>1. PICK e \in Cursors : e = nextDue[c] /\ BelowSettled(c, e)
        BY DEF LedgerInv, LedgerComplete, TypeInv, TypeOK
      <4>2. BelowSettled(c, e)'
        BY <2>4, <4>1, BelowGrows
      <4>3. QED  BY <2>2, <3>2, <4>1, <4>2 DEF BelowSettled
    <3>3. QED  BY <3>1, <3>2
  <2>7. LedgerComplete'
    BY <2>6 DEF LedgerComplete
  <2>8. QED  BY <2>3, <2>4, <2>7, SnapshotKept DEF LedgerInv
<1>2. ASSUME UNCHANGED <<nextDue, period, acked, alerted>>, UNCHANGED workerVars
      PROVE  LedgerInv'
  BY <1>2, GrowingQuiet, CursorKept, SnapshotKept DEF LedgerInv
<1>3. ASSUME NEW p \in Pairs, NEW r \in {"rejected", "reassigned"}, CloseTriage(p, r)
      PROVE  LedgerInv'
  BY <1>2, <1>3 DEF CloseTriage, billVars, ledgerVars, history
<1>4. ASSUME NEW b \in Bills, NEW u \in PauseDates \cup {NotPaused}, SetPause(b, u)
      PROVE  LedgerInv'
  BY <1>2, <1>4 DEF SetPause, ledgerVars, history
<1>5. ASSUME NEW b \in Bills, SetActive(b) \/ DismissCard(b)
      PROVE  LedgerInv'
  BY <1>2, <1>5 DEF SetActive, DismissCard, billVars, ledgerVars, history
<1>6. ASSUME NEW t \in Txns, Categorise(t) \/ DeleteTxn(t)
      PROVE  LedgerInv'
  BY <1>2, <1>6 DEF Categorise, DeleteTxn, billVars, ledgerVars, history
<1>7. QED  BY <1>1, <1>3, <1>4, <1>5, <1>6 DEF User

LEMMA LedgerStep == LedgerInv /\ [Next]_vars => LedgerInv'
<1> SUFFICES ASSUME LedgerInv, [Next]_vars PROVE LedgerInv'
  OBVIOUS
<1>1. TypeInv'
  BY TypeStep DEF LedgerInv
<1>2. ASSUME NEW w \in Workers, Start(w) \/ Proceed(w) PROVE LedgerInv'
  BY <1>1, <1>2, LedgerMatch, LedgerAccept, LedgerSweep, LedgerMarkSkip
     DEF Start, Proceed
<1>3. ASSUME NEW w \in Workers, Crash(w) PROVE LedgerInv'
  <2>1. /\ Become(w, "idle", NoJob)
        /\ UNCHANGED <<nextDue, period, acked, alerted>>
        /\ \A v \in Workers : todo'[v] \subseteq todo[v]
    BY <1>3 DEF Crash, billVars, ledgerVars, history, LedgerInv, TypeInv, TypeOK
  <2>2. QED  BY <1>1, <2>1, IdleStep
<1>4. ASSUME UNCHANGED <<nextDue, period, acked, alerted>>, UNCHANGED workerVars
      PROVE  LedgerInv'
  BY <1>1, <1>4, GrowingQuiet, CursorKept, SnapshotKept DEF LedgerInv
<1>5. ASSUME NEW t \in Txns, ImportTxn(t) PROVE LedgerInv'
  BY <1>4, <1>5 DEF ImportTxn, billVars, ledgerVars, history
<1>6. CASE Tick \/ UNCHANGED vars
  BY <1>4, <1>6 DEF Tick, vars, billVars, ledgerVars, history, workerVars
<1>7. QED  BY <1>1, <1>2, <1>3, <1>5, <1>6, LedgerUser DEF Next

(***************************************************************************)
(* No cycle of any bill is lost, under every interleaving of matches,      *)
(* acceptances, sweeps, skips and edits and every crash of them.           *)
(***************************************************************************)
THEOREM LedgerSafe == Spec => []LedgerComplete
<1>1. Init => LedgerInv
  BY InitLedger
<1>2. LedgerInv /\ [Next]_vars => LedgerInv'
  BY LedgerStep
<1>3. LedgerInv => LedgerComplete
  BY DEF LedgerInv
<1>4. QED  BY <1>1, <1>2, <1>3, PTL DEF Spec

-----------------------------------------------------------------------------
(* The matcher's decision.  Between the SELECT and the COMMIT it is the    *)
(* worker that carries it, so the invariant speaks of both.                *)

Confident(b, k, t) ==
    InWindow(k, t) /\ ~DateEdge(k, t) /\ "fit" \in AmountVerdicts[<<b, t>>]

DecisionsConfident == \A w \in Workers :
    pc[w] = "decided" /\ job[w].bill # NoBill
        => Confident(job[w].bill, job[w].due, job[w].txn)

ConfidentInv == TypeInv /\ AutoLinkIsConfident /\ DecisionsConfident

\* A worker that reaches a new stage leaves the others' decisions alone.
LEMMA DecisionStep ==
  ASSUME ConfidentInv, NEW w \in Workers, NEW stage \in Stages, NEW j \in Job,
         Become(w, stage, j),
         stage = "decided" /\ j.bill # NoBill => Confident(j.bill, j.due, j.txn)
  PROVE  DecisionsConfident'
<1> SUFFICES ASSUME NEW v \in Workers, pc'[v] = "decided", job'[v].bill # NoBill
             PROVE  Confident(job'[v].bill, job'[v].due, job'[v].txn)
  BY DEF DecisionsConfident, Confident, InWindow, DateEdge, Distance
<1>1. CASE v = w
  BY <1>1 DEF Become, ConfidentInv, TypeInv, TypeOK
<1>2. CASE v # w
  BY <1>2 DEF Become, ConfidentInv, TypeInv, TypeOK, DecisionsConfident
<1>3. QED  BY <1>1, <1>2

LEMMA DecisionsKept ==
  ASSUME ConfidentInv, UNCHANGED <<pc, job>>
  PROVE  DecisionsConfident'
  BY DEF ConfidentInv, DecisionsConfident, Confident, InWindow, DateEdge, Distance

LEMMA LinksKept ==
  ASSUME ConfidentInv, \A l \in links' : l \in links \/ l.how = "accept"
                                         \/ Confident(l.bill, l.due, l.txn)
  PROVE  AutoLinkIsConfident'
  BY DEF ConfidentInv, AutoLinkIsConfident, Confident, InWindow, DateEdge, Distance

\* The scan's choice: an unambiguous, non-edge candidate with a fitting amount.
LEMMA ScanConfident ==
  ASSUME ConfidentInv, NEW w \in Workers, MatchScan(w)
  PROVE  DecisionsConfident'
<1> DEFINE t == job[w].txn
           seen == {b \in Bills : Matchable(b, t)}
           Asking == [NoJob EXCEPT !.txn = t, !.ask = seen]
           Linking(b) == [bill |-> b, txn |-> t, due |-> nextDue[b], ask |-> seen \ {b}]
<1>1. t \in Txns
  BY DEF MatchScan, ConfidentInv, TypeInv, TypeOK, JobOK, WellFormed
<1>2. Asking \in Job /\ Asking.bill = NoBill
  BY <1>1, NoJobType DEF Job, NoJob
<1>3. \A b \in seen : Linking(b) \in Job
  BY <1>1, JobType, PeriodsCursors DEF Matchable
<1>4. \/ Become(w, "decided", Asking)
      \/ \E b \in seen : Confident(b, nextDue[b], t) /\ Become(w, "decided", Linking(b))
  <2>1. PICK verdict \in [seen -> Verdict] :
          LET candidates == {b \in seen : verdict[b] # "out"}
              Edge(b) == verdict[b] = "edge" \/ DateEdge(nextDue[b], t)
              confident == {b \in candidates :
                              Cardinality(candidates) = 1 /\ ~Edge(b)}
          IN /\ \A b \in seen : verdict[b] \in AmountVerdicts[<<b, t>>]
             /\ \/ confident = {} /\ Become(w, "decided", Asking)
                \/ \E b \in confident : Become(w, "decided", Linking(b))
    BY DEF MatchScan
  <2>2. CASE Become(w, "decided", Asking)
    BY <2>2
  <2>3. CASE \E b \in seen : /\ verdict[b] # "out" /\ verdict[b] # "edge"
                             /\ ~DateEdge(nextDue[b], t)
                             /\ Become(w, "decided", Linking(b))
    <3>1. PICK b \in seen : /\ verdict[b] # "out" /\ verdict[b] # "edge"
                            /\ ~DateEdge(nextDue[b], t)
                            /\ Become(w, "decided", Linking(b))
      BY <2>3
    <3>2. verdict[b] = "fit"
      BY <2>1, <3>1 DEF Verdict
    <3>3. "fit" \in AmountVerdicts[<<b, t>>] /\ InWindow(nextDue[b], t)
      BY <2>1, <3>2 DEF Matchable
    <3>4. QED  BY <3>1, <3>3 DEF Confident
  <2>4. QED  BY <2>1, <2>2, <2>3
<1>5. CASE Become(w, "decided", Asking)
  BY <1>2, <1>5, DecisionStep DEF Stages
<1>6. ASSUME NEW b \in seen, Confident(b, nextDue[b], t), Become(w, "decided", Linking(b))
      PROVE  DecisionsConfident'
  <2>1. PICK j \in Job : j = Linking(b)
    BY <1>3
  <2>2. j.bill = b /\ j.due = nextDue[b] /\ j.txn = t
    BY <2>1
  <2>3. QED  BY <1>6, <2>1, <2>2, DecisionStep DEF Stages
<1>7. QED  BY <1>4, <1>5, <1>6

LEMMA MatchConfident ==
  ASSUME ConfidentInv, NEW w \in Workers,
         (\E t \in Txns : MatchBegin(w, t)) \/ MatchScan(w) \/ MatchCommit(w)
  PROVE  AutoLinkIsConfident' /\ DecisionsConfident'
<1>1. ASSUME NEW t \in Txns, MatchBegin(w, t)
      PROVE  AutoLinkIsConfident' /\ DecisionsConfident'
  <2>1. [NoJob EXCEPT !.txn = t] \in Job
    BY NoJobType DEF Job, NoJob
  <2>2. DecisionsConfident'
    BY <1>1, <2>1, DecisionStep DEF MatchBegin, Stages
  <2>3. QED  BY <1>1, <2>2, LinksKept DEF MatchBegin, history
<1>2. CASE MatchScan(w)
  BY <1>2, ScanConfident, LinksKept DEF MatchScan, history
<1>3. CASE MatchCommit(w)
  <2>1. Become(w, "idle", NoJob) /\ pc[w] = "decided"
    BY <1>3 DEF MatchCommit, Finish
  <2>2. DecisionsConfident'
    BY <2>1, DecisionStep, NoJobType DEF Stages
  <2>3. \/ links' = links
        \/ /\ job[w].bill # NoBill
           /\ links' = links \cup {[bill |-> job[w].bill, due |-> job[w].due,
                                    txn |-> job[w].txn, how |-> "auto"]}
    BY <1>3 DEF MatchCommit, LinkBillToTxn, PayPeriod
  <2>4. job[w].bill # NoBill => Confident(job[w].bill, job[w].due, job[w].txn)
    BY <2>1 DEF ConfidentInv, DecisionsConfident
  <2>5. AutoLinkIsConfident'
    BY <2>3, <2>4, LinksKept
  <2>6. QED  BY <2>2, <2>5
<1>4. QED  BY <1>1, <1>2, <1>3

LEMMA ConfidentStep == ConfidentInv /\ [Next]_vars => ConfidentInv'
<1> SUFFICES ASSUME ConfidentInv, [Next]_vars
             PROVE  AutoLinkIsConfident' /\ DecisionsConfident'
  BY TypeStep DEF ConfidentInv
<1>1. ASSUME UNCHANGED links, UNCHANGED <<pc, job>>
      PROVE  AutoLinkIsConfident' /\ DecisionsConfident'
  BY <1>1, LinksKept, DecisionsKept
<1>2. ASSUME UNCHANGED links, NEW w \in Workers, NEW stage \in Stages \ {"decided"},
             NEW j \in Job, Become(w, stage, j)
      PROVE  AutoLinkIsConfident' /\ DecisionsConfident'
  BY <1>2, LinksKept, DecisionStep
<1>3. ASSUME NEW w \in Workers, NEW p \in Pairs, AcceptLoad(w, p)
      PROVE  AutoLinkIsConfident' /\ DecisionsConfident'
  <2>1. [bill |-> p[1], txn |-> p[2], due |-> nextDue[p[1]], ask |-> {}] \in Job
    BY <1>3, JobType, PeriodsCursors DEF AcceptLoad, Pairs
  <2>2. QED  BY <1>2, <1>3, <2>1 DEF AcceptLoad, Stages, history
<1>4. ASSUME NEW w \in Workers, AcceptCommit(w)
      PROVE  AutoLinkIsConfident' /\ DecisionsConfident'
  <2>1. /\ Become(w, "idle", NoJob)
        /\ \A l \in links' : l \in links \/ l.how = "accept"
    BY <1>4 DEF AcceptCommit, Finish, LinkBillToTxn, PayPeriod
  <2>2. QED  BY <2>1, LinksKept, DecisionStep, NoJobType DEF Stages
<1>5. ASSUME NEW w \in Workers,
             DeadlockAbort(w) \/ Crash(w) \/ SweepList(w) \/ SweepAdvance(w)
             \/ MarkWrite(w) \/ SkipAdvance(w)
      PROVE  AutoLinkIsConfident' /\ DecisionsConfident'
  <2>1. UNCHANGED links
    BY <1>5 DEF DeadlockAbort, Crash, SweepList, SweepAdvance, MarkWrite,
                SkipAdvance, history
  <2>2. \E stage \in {"idle", "sweep"} : Become(w, stage, NoJob)
    BY <1>5 DEF DeadlockAbort, Crash, SweepList, SweepAdvance, MarkWrite,
                SkipAdvance, Finish
  <2>3. QED  BY <1>2, <2>1, <2>2, NoJobType DEF Stages
<1>6. ASSUME NEW w \in Workers, SweepFlip(w) \/ SweepCard(w) \/ SkipWrite(w)
      PROVE  AutoLinkIsConfident' /\ DecisionsConfident'
  <2>1. UNCHANGED links /\ job[w] \in Job
    BY <1>6 DEF SweepFlip, SweepCard, SkipWrite, history, ConfidentInv, TypeInv,
                TypeOK
  <2>2. \E stage \in {"card", "advance", "skipped"} : Become(w, stage, job[w])
    BY <1>6 DEF SweepFlip, SweepCard, SkipWrite
  <2>3. QED  BY <1>2, <2>1, <2>2 DEF Stages
<1>7. ASSUME NEW w \in Workers, NEW b \in Bills, MarkRead(w, b) \/ SkipRead(w, b)
      PROVE  AutoLinkIsConfident' /\ DecisionsConfident'
  <2>1. [NoJob EXCEPT !.bill = b, !.due = nextDue[b]] \in Job
    BY <1>7, NoJobType, PeriodsCursors DEF MarkRead, SkipRead, Job, NoJob
  <2>2. UNCHANGED links
    BY <1>7 DEF MarkRead, SkipRead, history
  <2>3. \E stage \in {"mark", "skip"} :
          Become(w, stage, [NoJob EXCEPT !.bill = b, !.due = nextDue[b]])
    BY <1>7 DEF MarkRead, SkipRead
  <2>4. QED
    <3> DEFINE j == [NoJob EXCEPT !.bill = b, !.due = nextDue[b]]
    <3> HIDE DEF j
    <3>1. j \in Job /\ \E stage \in {"mark", "skip"} : Become(w, stage, j)
      BY <2>1, <2>3 DEF j
    <3>2. QED  BY <1>2, <2>2, <3>1 DEF Stages
<1>8. ASSUME NEW w \in Workers, SweepLook(w)
      PROVE  AutoLinkIsConfident' /\ DecisionsConfident'
  <2>1. PICK e \in todo[w], stage \in {"advance", "flip"} :
          Become(w, stage, [NoJob EXCEPT !.bill = e[1], !.due = e[2]])
    BY <1>8 DEF SweepLook
  <2>2. e \in Bills \X Periods
    BY DEF ConfidentInv, TypeInv, TypeOK
  <2>3. [NoJob EXCEPT !.bill = e[1], !.due = e[2]] \in Job
    BY <2>2, NoJobType, PeriodsCursors DEF Job, NoJob
  <2>4. QED
    <3> DEFINE j == [NoJob EXCEPT !.bill = e[1], !.due = e[2]]
    <3> HIDE DEF j
    <3>1. j \in Job /\ Become(w, stage, j)
      BY <2>1, <2>3 DEF j
    <3>2. QED  BY <1>2, <1>8, <3>1 DEF SweepLook, Stages, history
<1>9. CASE User \/ Tick \/ (\E t \in Txns : ImportTxn(t)) \/ UNCHANGED vars
  BY <1>1, <1>9 DEF User, CloseTriage, MoveDueDate, SetPause, SetActive, DismissCard,
     Categorise, DeleteTxn, Tick, ImportTxn, vars, workerVars, history
<1>10. QED
  BY <1>3, <1>4, <1>5, <1>6, <1>7, <1>8, <1>9, MatchConfident
     DEF Next, Start, Proceed

(***************************************************************************)
(* Whatever moves the cursor between the matcher's SELECT and its COMMIT,  *)
(* a charge linked without asking lies well inside the window of the cycle *)
(* it pays and may have a fitting amount.                                  *)
(***************************************************************************)
THEOREM AutoLinkSafe == Spec => []AutoLinkIsConfident
<1>1. Init => ConfidentInv
  BY InitType DEF Init, ConfidentInv, AutoLinkIsConfident, DecisionsConfident
<1>2. ConfidentInv /\ [Next]_vars => ConfidentInv'
  BY ConfidentStep
<1>3. ConfidentInv => AutoLinkIsConfident
  BY DEF ConfidentInv
<1>4. QED  BY <1>1, <1>2, <1>3, PTL DEF Spec

-----------------------------------------------------------------------------
(* Triage rows.  Only the request that holds an open row may close it, and *)
(* the close and the link commit together.                                 *)

Accepts(w, p) == pc[w] = "accept" /\ job[w].bill = p[1] /\ job[w].txn = p[2]
AcceptLinked(p) == \E l \in links : l.how = "accept" /\ <<l.bill, l.txn>> = p

RowsHaveCharges == \A p \in Pairs : triage[p] # "none" => stored[p[2]] = "present"
HeldRowsOpen == \A w \in Workers, p \in Pairs :
    Accepts(w, p) => triage[p] = "open" /\ w \in Requests
OneHolder == \A v, w \in Workers, p \in Pairs :
    Accepts(v, p) /\ Accepts(w, p) => v = w
AcceptedLinked == \A p \in Pairs : stored[p[2]] = "present" =>
    (triage[p] = "accepted" <=> AcceptLinked(p))
LinksHaveCharges == \A p \in Pairs : AcceptLinked(p) => stored[p[2]] # "absent"

RowsOK == RowsHaveCharges /\ HeldRowsOpen /\ OneHolder /\ AcceptedLinked
          /\ LinksHaveCharges
TriageInv == TypeInv /\ RowsOK

Resolved == {"accepted", "rejected", "reassigned"}
KeepsResolutions == \A p \in Pairs :
    triage[p] \in Resolved /\ stored'[p[2]] = "present" => triage'[p] = triage[p]

\* Who holds a row depends on the workers' state alone.
LEMMA HoldersKept ==
  ASSUME UNCHANGED <<pc, job>>, NEW w \in Workers, NEW p \in Pairs, Accepts(w, p)'
  PROVE  Accepts(w, p)
  BY DEF Accepts

\* A worker that moves to a stage other than "accept" lets its row go.
LEMMA HoldersRelease ==
  ASSUME TypeInv, NEW w \in Workers, NEW stage \in Stages \ {"accept"}, NEW j,
         Become(w, stage, j)
  PROVE  \A v \in Workers, p \in Pairs : Accepts(v, p)' => v # w /\ Accepts(v, p)
  BY DEF Accepts, Become, TypeInv, TypeOK

\* A step that touches no row, no charge and no acceptance.
LEMMA RowsQuiet ==
  ASSUME TriageInv, UNCHANGED <<triage, stored>>,
         \A p \in Pairs : AcceptLinked(p)' <=> AcceptLinked(p),
         \A w \in Workers, p \in Pairs : Accepts(w, p)' => Accepts(w, p)
  PROVE  RowsOK' /\ KeepsResolutions
<1>1. KeepsResolutions /\ RowsHaveCharges'
  BY DEF KeepsResolutions, RowsHaveCharges, TriageInv, RowsOK
<1>2. HeldRowsOpen'
  BY DEF HeldRowsOpen, TriageInv, RowsOK
<1>3. OneHolder'
  BY DEF OneHolder, TriageInv, RowsOK
<1>4. AcceptedLinked'
  BY DEF AcceptedLinked, TriageInv, RowsOK
<1>5. LinksHaveCharges'
  BY DEF LinksHaveCharges, TriageInv, RowsOK
<1>6. QED  BY <1>1, <1>2, <1>3, <1>4, <1>5 DEF RowsOK

LEMMA AcceptLinkedKept ==
  ASSUME NEW p, \A l : l.how = "accept" => (l \in links' <=> l \in links)
  PROVE  AcceptLinked(p)' <=> AcceptLinked(p)
  BY DEF AcceptLinked

\* A worker that moves on without touching rows or charges, and commits no
\* acceptance.
LEMMA RowsRelease ==
  ASSUME TriageInv, UNCHANGED <<triage, stored, links>>,
         NEW w \in Workers, NEW stage \in Stages \ {"accept"}, NEW j,
         Become(w, stage, j)
  PROVE  RowsOK' /\ KeepsResolutions
<1>1. \A v \in Workers, p \in Pairs : Accepts(v, p)' => Accepts(v, p)
  BY HoldersRelease DEF TriageInv
<1>2. \A p \in Pairs : AcceptLinked(p)' <=> AcceptLinked(p)
  BY DEF AcceptLinked
<1>3. QED  BY <1>1, <1>2, RowsQuiet

LEMMA RowsMatch ==
  ASSUME TriageInv, NEW w \in Workers, MatchCommit(w)
  PROVE  RowsOK' /\ KeepsResolutions
<1> USE DEF TriageInv, RowsOK
<1>1. /\ \A v \in Workers, p \in Pairs : Accepts(v, p)' => Accepts(v, p)
      /\ UNCHANGED stored
  BY HoldersRelease DEF MatchCommit, Finish, Stages
<1>2. \A p \in Pairs : AcceptLinked(p)' <=> AcceptLinked(p)
  <2>1. \/ links' = links
        \/ \E l : l.how = "auto" /\ links' = links \cup {l}
    <3>1. \/ links' = links
          \/ links' = links \cup {[bill |-> job[w].bill, due |-> job[w].due,
                                   txn |-> job[w].txn, how |-> "auto"]}
      BY DEF MatchCommit, LinkBillToTxn, PayPeriod
    <3>2. [bill |-> job[w].bill, due |-> job[w].due,
           txn |-> job[w].txn, how |-> "auto"].how = "auto"
      OBVIOUS
    <3>3. QED  BY <3>1, <3>2
  <2>2. QED  BY <2>1 DEF AcceptLinked
\* Rows are only queued, and only for a charge that is there.
<1>3. \A p \in Pairs :
        \/ triage'[p] = triage[p]
        \/ triage[p] = "none" /\ triage'[p] = "open" /\ stored[p[2]] = "present"
  BY DEF MatchCommit, TypeInv, TypeOK
<1>4. KeepsResolutions
  BY <1>3 DEF KeepsResolutions, Resolved
<1>5. RowsHaveCharges'
  BY <1>1, <1>3 DEF RowsHaveCharges
<1>6. HeldRowsOpen'
  BY <1>1, <1>3 DEF HeldRowsOpen
<1>7. OneHolder'
  BY <1>1 DEF OneHolder
<1>8. AcceptedLinked'
  BY <1>1, <1>2, <1>3 DEF AcceptedLinked
<1>9. LinksHaveCharges'
  BY <1>1, <1>2 DEF LinksHaveCharges
<1>10. QED  BY <1>4, <1>5, <1>6, <1>7, <1>8, <1>9

LEMMA RowsLoad ==
  ASSUME TriageInv, NEW w \in Workers, NEW p \in Pairs, AcceptLoad(w, p)
  PROVE  RowsOK' /\ KeepsResolutions
<1> USE DEF TriageInv, RowsOK
<1>1. UNCHANGED <<triage, stored, links>>
  BY DEF AcceptLoad, history
<1>2. \A v \in Workers, q \in Pairs : Accepts(v, q)' =>
        \/ v # w /\ Accepts(v, q)
        \/ v = w /\ q = p
  <2>1. PICK d, ask : Become(w, "accept", [bill |-> p[1], txn |-> p[2],
                                            due |-> d, ask |-> ask])
    BY DEF AcceptLoad
  <2>2. /\ job'[w].bill = p[1] /\ job'[w].txn = p[2]
        /\ \A v \in Workers : v # w => pc'[v] = pc[v] /\ job'[v] = job[v]
    BY <2>1 DEF Become, TypeInv, TypeOK
  <2>3. \A q \in Pairs : q[1] = p[1] /\ q[2] = p[2] => q = p
    BY DEF Pairs
  <2>4. QED  BY <2>2, <2>3 DEF Accepts
<1>3. \A v \in Workers : ~Accepts(v, p)
  <2>1. \A v \in Requests : ~Accepts(v, p)
    BY DEF AcceptLoad, Locked, Accepts
  <2>2. QED  BY <2>1 DEF HeldRowsOpen
<1>4. triage[p] = "open" /\ w \in Requests
  BY DEF AcceptLoad
<1>5. HeldRowsOpen'
  BY <1>1, <1>2, <1>4 DEF HeldRowsOpen
<1>6. OneHolder'
  BY <1>2, <1>3 DEF OneHolder
<1>7. \A q \in Pairs : AcceptLinked(q)' <=> AcceptLinked(q)
  BY <1>1 DEF AcceptLinked
<1>8. KeepsResolutions /\ RowsHaveCharges' /\ AcceptedLinked' /\ LinksHaveCharges'
  BY <1>1, <1>7 DEF KeepsResolutions, RowsHaveCharges, AcceptedLinked,
                    LinksHaveCharges
<1>9. QED  BY <1>5, <1>6, <1>8

LEMMA RowsCommit ==
  ASSUME TriageInv, NEW w \in Workers, AcceptCommit(w)
  PROVE  RowsOK' /\ KeepsResolutions
<1> USE DEF TriageInv, RowsOK
<1>1. PICK mine \in Pairs : mine = <<job[w].bill, job[w].txn>>
  BY DEF AcceptCommit, TypeInv, JobOK, WellFormed, Holding, Pairs
<1>2. Accepts(w, mine) /\ triage[mine] = "open" /\ stored[mine[2]] = "present"
  BY <1>1 DEF AcceptCommit, Accepts, HeldRowsOpen, RowsHaveCharges
<1>3. /\ \A q \in Pairs : triage'[q] =
             IF q = mine THEN "accepted"
             ELSE IF q \in Siblings(mine) THEN "reassigned" ELSE triage[q]
      /\ \A q \in Siblings(mine) : ~Locked(q)
      /\ UNCHANGED stored
  BY <1>1 DEF AcceptCommit
<1>4. \A v \in Workers, q \in Pairs : Accepts(v, q)' =>
        Accepts(v, q) /\ q # mine /\ q \notin Siblings(mine)
  <2>1. \A v \in Workers, q \in Pairs : Accepts(v, q)' => v # w /\ Accepts(v, q)
    BY HoldersRelease DEF AcceptCommit, Finish, Stages
  <2>2. \A v \in Workers : Accepts(v, mine) => v = w
    BY <1>2 DEF OneHolder
  <2>3. \A v \in Workers, q \in Siblings(mine) : ~Accepts(v, q)
    BY <1>3 DEF Locked, Accepts, Siblings, HeldRowsOpen
  <2>4. QED  BY <2>1, <2>2, <2>3
<1>5. \A q \in Pairs : AcceptLinked(q)' <=> AcceptLinked(q) \/ q = mine
  <2> DEFINE new == [bill |-> job[w].bill, due |-> job[w].due,
                     txn |-> job[w].txn, how |-> "accept"]
  <2>1. links' = links \cup {new}
    BY DEF AcceptCommit, LinkBillToTxn, PayPeriod
  <2>2. new.how = "accept" /\ <<new.bill, new.txn>> = mine
    BY <1>1
  <2>3. QED
    <3> HIDE DEF new
    <3> QED  BY <2>1, <2>2 DEF AcceptLinked
<1>6. \A q \in Siblings(mine) : triage[q] = "open" /\ q # mine
  BY DEF Siblings
<1>7. KeepsResolutions
  BY <1>2, <1>3, <1>6 DEF KeepsResolutions, Resolved
<1>8. RowsHaveCharges'
  BY <1>2, <1>3, <1>6 DEF RowsHaveCharges
<1>9. HeldRowsOpen'
  BY <1>3, <1>4 DEF HeldRowsOpen
<1>10. OneHolder'
  BY <1>4 DEF OneHolder
<1>11. AcceptedLinked'
  <2>1. ASSUME NEW q \in Pairs, stored'[q[2]] = "present"
        PROVE  triage'[q] = "accepted" <=> AcceptLinked(q)'
    BY <1>2, <1>3, <1>5, <1>6, <2>1 DEF AcceptedLinked
  <2>2. QED  BY <2>1 DEF AcceptedLinked
<1>12. LinksHaveCharges'
  BY <1>2, <1>3, <1>5 DEF LinksHaveCharges
<1>13. QED  BY <1>7, <1>8, <1>9, <1>10, <1>11, <1>12

LEMMA RowsClose ==
  ASSUME TriageInv, NEW p \in Pairs, NEW r \in {"rejected", "reassigned"},
         CloseTriage(p, r)
  PROVE  RowsOK' /\ KeepsResolutions
<1> USE DEF TriageInv, RowsOK
<1>1. /\ triage[p] = "open" /\ UNCHANGED <<stored, links, pc, job>>
      /\ \A q \in Pairs : triage'[q] = IF q = p THEN r ELSE triage[q]
  BY DEF CloseTriage, workerVars, history, TypeInv, TypeOK
<1>2. \A v \in Workers, q \in Pairs : Accepts(v, q)' => Accepts(v, q) /\ q # p
  <2>1. \A v \in Requests : ~Accepts(v, p)
    BY DEF CloseTriage, Locked, Accepts
  <2>2. \A v \in Workers : ~Accepts(v, p)
    BY <2>1 DEF HeldRowsOpen
  <2>3. QED  BY <1>1, <2>2, HoldersKept
<1>3. \A q \in Pairs : AcceptLinked(q)' <=> AcceptLinked(q)
  BY <1>1 DEF AcceptLinked
<1>4. KeepsResolutions
  BY <1>1 DEF KeepsResolutions, Resolved
<1>5. RowsHaveCharges' /\ LinksHaveCharges'
  BY <1>1, <1>3 DEF RowsHaveCharges, LinksHaveCharges
<1>6. HeldRowsOpen'
  BY <1>1, <1>2 DEF HeldRowsOpen
<1>7. OneHolder'
  BY <1>2 DEF OneHolder
<1>8. AcceptedLinked'
  BY <1>1, <1>3 DEF AcceptedLinked
<1>9. QED  BY <1>4, <1>5, <1>6, <1>7, <1>8

LEMMA RowsDelete ==
  ASSUME TriageInv, NEW t \in Txns, DeleteTxn(t)
  PROVE  RowsOK' /\ KeepsResolutions
<1> USE DEF TriageInv, RowsOK
<1>1. /\ UNCHANGED <<links, pc, job>>
      /\ \A q \in Pairs : triage'[q] = IF q[2] = t THEN "none" ELSE triage[q]
      /\ \A q \in Pairs : stored'[q[2]] = IF q[2] = t THEN "deleted" ELSE stored[q[2]]
  BY DEF DeleteTxn, workerVars, history, TypeInv, TypeOK, Pairs
<1>2. \A v \in Workers, q \in Pairs : Accepts(v, q)' => Accepts(v, q) /\ q[2] # t
  <2>1. \A v \in Requests, b \in Bills : ~Accepts(v, <<b, t>>)
    BY DEF DeleteTxn, Locked, Accepts
  <2>2. \A q \in Pairs : q[1] \in Bills /\ q = <<q[1], q[2]>>
    BY DEF Pairs
  <2>3. \A v \in Workers, q \in Pairs : q[2] = t => ~Accepts(v, q)
    BY <2>1, <2>2 DEF HeldRowsOpen
  <2>4. QED  BY <1>1, <2>3, HoldersKept
<1>3. \A q \in Pairs : AcceptLinked(q)' <=> AcceptLinked(q)
  BY <1>1 DEF AcceptLinked
<1>4. KeepsResolutions
  BY <1>1 DEF KeepsResolutions
<1>5. RowsHaveCharges' /\ LinksHaveCharges'
  BY <1>1, <1>3 DEF RowsHaveCharges, LinksHaveCharges
<1>6. HeldRowsOpen'
  BY <1>1, <1>2 DEF HeldRowsOpen
<1>7. OneHolder'
  BY <1>2 DEF OneHolder
<1>8. AcceptedLinked'
  BY <1>1, <1>3 DEF AcceptedLinked
<1>9. QED  BY <1>4, <1>5, <1>6, <1>7, <1>8

LEMMA RowsImport ==
  ASSUME TriageInv, NEW t \in Txns, ImportTxn(t)
  PROVE  RowsOK' /\ KeepsResolutions
<1> USE DEF TriageInv, RowsOK
<1>1. /\ UNCHANGED <<triage, links, pc, job>> /\ stored[t] = "absent"
      /\ \A q \in Pairs : stored'[q[2]] = IF q[2] = t THEN "present" ELSE stored[q[2]]
  BY DEF ImportTxn, workerVars, history, TypeInv, TypeOK, Pairs
<1>2. \A q \in Pairs : AcceptLinked(q)' <=> AcceptLinked(q)
  BY <1>1 DEF AcceptLinked
<1>3. KeepsResolutions
  BY <1>1 DEF KeepsResolutions
<1>4. RowsHaveCharges' /\ LinksHaveCharges'
  BY <1>1, <1>2 DEF RowsHaveCharges, LinksHaveCharges
<1>5. HeldRowsOpen' /\ OneHolder'
  BY <1>1, HoldersKept DEF HeldRowsOpen, OneHolder
<1>6. AcceptedLinked'
  <2>1. \A q \in Pairs : q[2] = t => triage[q] = "none" /\ ~AcceptLinked(q)
    BY <1>1 DEF RowsHaveCharges, LinksHaveCharges
  <2>2. QED  BY <1>1, <1>2, <2>1 DEF AcceptedLinked
<1>7. QED  BY <1>3, <1>4, <1>5, <1>6

LEMMA RowsWorker ==
  ASSUME TriageInv, NEW w \in Workers, Start(w) \/ Proceed(w) \/ Crash(w)
  PROVE  RowsOK' /\ KeepsResolutions
<1>1. ASSUME UNCHANGED <<triage, stored, links>>,
             \E stage \in Stages \ {"accept"} : \E j : Become(w, stage, j)
      PROVE  RowsOK' /\ KeepsResolutions
  BY <1>1, RowsRelease
<1>2. CASE (\E t \in Txns : MatchBegin(w, t)) \/ MatchScan(w)
  BY <1>1, <1>2 DEF MatchBegin, MatchScan, Stages, history
<1>3. CASE DeadlockAbort(w) \/ MarkWrite(w) \/ SkipAdvance(w) \/ Crash(w)
  BY <1>1, <1>3 DEF DeadlockAbort, MarkWrite, SkipAdvance, Crash, Finish, Stages,
                    history
<1>4. CASE SweepList(w) \/ SweepFlip(w) \/ SweepCard(w) \/ SweepAdvance(w)
  BY <1>1, <1>4 DEF SweepList, SweepFlip, SweepCard, SweepAdvance, Stages, history
<1>5. CASE SweepLook(w)
  BY <1>1, <1>5 DEF SweepLook, Stages, history
<1>6. CASE SkipWrite(w) \/ \E b \in Bills : MarkRead(w, b) \/ SkipRead(w, b)
  BY <1>1, <1>6 DEF SkipWrite, MarkRead, SkipRead, Stages, history
<1>7. QED
  BY <1>2, <1>3, <1>4, <1>5, <1>6, RowsMatch, RowsLoad, RowsCommit
     DEF Start, Proceed

LEMMA RowsStep == TriageInv /\ [Next]_vars => TriageInv' /\ KeepsResolutions
<1> SUFFICES ASSUME TriageInv, [Next]_vars PROVE RowsOK' /\ KeepsResolutions
  BY TypeStep DEF TriageInv
<1>1. ASSUME UNCHANGED <<triage, stored, links, pc, job>>
      PROVE  RowsOK' /\ KeepsResolutions
  <2>1. \A p \in Pairs : AcceptLinked(p)' <=> AcceptLinked(p)
    BY <1>1 DEF AcceptLinked
  <2>2. QED  BY <1>1, <2>1, HoldersKept, RowsQuiet
<1>2. ASSUME NEW b \in Bills, (\E k \in Cursors : MoveDueDate(b, k))
             \/ (\E u \in PauseDates \cup {NotPaused} : SetPause(b, u))
             \/ SetActive(b) \/ DismissCard(b)
      PROVE  RowsOK' /\ KeepsResolutions
  BY <1>1, <1>2 DEF MoveDueDate, SetPause, SetActive, DismissCard, workerVars, history
<1>3. ASSUME NEW t \in Txns, Categorise(t) PROVE RowsOK' /\ KeepsResolutions
  BY <1>1, <1>3 DEF Categorise, workerVars, history
<1>4. CASE User
  BY <1>2, <1>3, <1>4, RowsClose, RowsDelete DEF User
<1>5. CASE Tick \/ UNCHANGED vars
  BY <1>1, <1>5 DEF Tick, vars, workerVars, history
<1>6. QED  BY <1>4, <1>5, RowsWorker, RowsImport DEF Next

LEMMA InitTriage == Init => TriageInv
  BY InitType DEF Init, TriageInv, RowsOK, RowsHaveCharges, HeldRowsOpen, OneHolder,
     AcceptedLinked, LinksHaveCharges, AcceptLinked, Accepts, Pairs

(***************************************************************************)
(* For any number of requests a triage row reads 'accepted' exactly when   *)
(* its link was committed: no crash, deadlock or rival comes between.      *)
(***************************************************************************)
THEOREM AcceptanceSafe == Spec => []AcceptanceAtomic
<1>1. TriageInv /\ [Next]_vars => TriageInv'
  BY RowsStep
<1>2. TriageInv => AcceptanceAtomic
  BY DEF TriageInv, RowsOK, AcceptedLinked, AcceptLinked, AcceptanceAtomic
<1>3. QED  BY <1>1, <1>2, InitTriage, PTL DEF Spec

(***************************************************************************)
(* No request, however many resolve rows of one transaction at once,       *)
(* rewrites a resolution an earlier one committed.                         *)
(***************************************************************************)
THEOREM ResolutionsStay == Spec => ResolutionFinal
<1>1. TriageInv /\ [Next]_vars => TriageInv'
  BY RowsStep
<1>2. TriageInv /\ [Next]_vars =>
        [\A p \in Pairs :
           triage[p] \in {"accepted", "rejected", "reassigned"}
           /\ stored'[p[2]] = "present" => triage'[p] = triage[p]]_vars
  BY RowsStep DEF KeepsResolutions, Resolved
<1>3. QED  BY <1>1, <1>2, InitTriage, PTL DEF Spec, ResolutionFinal


=============================================================================
