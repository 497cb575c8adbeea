---------------------------- MODULE BillMatching ----------------------------
(***************************************************************************)
(* The bill matching engine: server/src/domain/bill-matcher.ts and the     *)
(* routes that drive it (routes/bill-matching.ts, routes/bills.ts).        *)
(*                                                                         *)
(* A bill keeps a forward cursor, next_due_date, and a backward ledger,    *)
(* bill_periods.  Five flows move them: the matcher (import hook, rescan), *)
(* the acceptance of a triage row, the overdue sweep, skip-period and      *)
(* mark-paid.  Each reads the cursor in one statement and writes it in a   *)
(* later one, so a worker here carries the value it read (job) and the     *)
(* statement it has reached (pc).                                          *)
(*                                                                         *)
(* A due date is the index of its cycle.  The writes of one database       *)
(* transaction are one action: they become visible at COMMIT, and rows it  *)
(* shares with another transaction are locked until then.                  *)
(***************************************************************************)
EXTENDS Integers, FiniteSets

CONSTANTS
    Bills, Txns,       \* rows of bills and (debit) rows of transactions
    NoBill, NoTxn,     \* SQL NULL
    Requests,          \* HTTP requests and import hooks in flight
    Scheduler,         \* the hourly insights-scheduler tick
    Recurring,         \* bills whose frequency is not 'one-time'
    Categorised,       \* bills with a category_id
    AmountVerdicts,    \* what scoreAmount may answer for a bill and a debit
    TxnDate,           \* transactions.txn_date
    CycleDays,         \* length of a cycle in days
    MatchWindow,       \* bills.match_window_days
    Grace,             \* bills.overdue_grace_days
    PauseDates,        \* dates a user pauses a bill until
    MaxPeriod,         \* bound: cycles 0 .. MaxPeriod - 1 are modelled
    MaxDay,            \* bound: last day of the clock
    MaxEdits,          \* bound: user interventions
    MaxCrashes         \* bound: aborted requests, sweeps and transactions

Workers == Requests \cup {Scheduler}
Pairs == Bills \X Txns
Periods == 0 .. (MaxPeriod - 1)
Cursors == 0 .. MaxPeriod
Verdict == {"fit", "edge", "out"}
NotPaused == -1

ASSUME ConstantsOK ==
    /\ NoBill \notin Bills /\ NoTxn \notin Txns
    /\ Scheduler \notin Requests
    /\ Recurring \subseteq Bills /\ Categorised \subseteq Bills
    /\ AmountVerdicts \in [Pairs -> SUBSET Verdict]
    /\ TxnDate \in [Txns -> Nat]
    /\ CycleDays \in Nat \ {0}
    /\ MatchWindow \in 1 .. 30 /\ Grace \in 0 .. 30
    /\ PauseDates \subseteq Nat
    /\ MaxPeriod \in Nat \ {0}
    /\ MaxDay \in Nat /\ MaxEdits \in Nat /\ MaxCrashes \in Nat

VARIABLES
    today,        \* the server's date
    nextDue,      \* bills.next_due_date
    active,       \* bills.active
    pausedUntil,  \* bills.paused_until
    period,       \* bill_periods.status, "none" where there is no row
    matched,      \* bill_periods.matched_txn_id
    triage,       \* bill_match_triage.resolution, "open" before, "none" without a row
    openCard,     \* an undismissed bill_overdue row of insight_cards
    stored,       \* whether a transaction is in the transactions table
    category,     \* transactions.category_id
    pc, job, todo,    \* a worker's statement, what it has read, and its sweep list
    edits, crashes,   \* counters of the bounds
    (***********************************************************************)
    (* History: nothing in the code reads these.                           *)
    (***********************************************************************)
    acked,        \* cycles the user moved past by hand (mark-paid, PATCH)
    alerted,      \* cycles the sweep has raised a card for, or found one open
    links         \* every link ever committed

billVars == <<nextDue, active, pausedUntil>>
ledgerVars == <<period, matched>>
workerVars == <<pc, job, todo>>
bounds == <<edits, crashes>>
history == <<acked, alerted, links>>
vars == <<today, billVars, ledgerVars, triage, openCard, stored, category,
          workerVars, bounds, history>>

Job == [bill : Bills \cup {NoBill}, txn : Txns \cup {NoTxn},
        due : Cursors, ask : SUBSET Bills]
NoJob == [bill |-> NoBill, txn |-> NoTxn, due |-> 0, ask |-> {}]
Link == [bill : Bills, due : Periods, txn : Txns, how : {"auto", "accept"}]

Stages == {"idle", "match", "decided", "accept", "sweep", "flip", "card",
           "advance", "mark", "skip", "skipped"}

TypeOK ==
    /\ today \in Nat
    /\ nextDue \in [Bills -> Cursors]
    /\ active \in [Bills -> BOOLEAN]
    /\ pausedUntil \in [Bills -> PauseDates \cup {NotPaused}]
    /\ period \in [Bills -> [Periods -> {"none", "paid", "overdue", "skipped"}]]
    /\ matched \in [Bills -> [Periods -> Txns \cup {NoTxn}]]
    /\ triage \in [Pairs -> {"none", "open", "accepted", "rejected", "reassigned"}]
    /\ openCard \in [Bills -> BOOLEAN]
    /\ stored \in [Txns -> {"absent", "present", "deleted"}]
    /\ category \in [Txns -> {"blank", "bill", "user"}]
    /\ pc \in [Workers -> Stages]
    /\ job \in [Workers -> Job]
    /\ todo \in [Workers -> SUBSET (Bills \X Periods)]
    /\ edits \in Nat /\ crashes \in Nat
    /\ acked \in [Bills -> SUBSET Periods]
    /\ alerted \in [Bills -> SUBSET Periods]
    /\ links \subseteq Link

Init ==
    /\ today = 0
    /\ nextDue = [b \in Bills |-> 0]
    /\ active = [b \in Bills |-> TRUE]
    /\ pausedUntil = [b \in Bills |-> NotPaused]
    /\ period = [b \in Bills |-> [k \in Periods |-> "none"]]
    /\ matched = [b \in Bills |-> [k \in Periods |-> NoTxn]]
    /\ triage = [p \in Pairs |-> "none"]
    /\ openCard = [b \in Bills |-> FALSE]
    /\ stored = [t \in Txns |-> "absent"]
    /\ category = [t \in Txns |-> "blank"]
    /\ pc = [w \in Workers |-> "idle"]
    /\ job = [w \in Workers |-> NoJob]
    /\ todo = [w \in Workers |-> {}]
    /\ edits = 0 /\ crashes = 0
    /\ acked = [b \in Bills |-> {}]
    /\ alerted = [b \in Bills |-> {}]
    /\ links = {}

-----------------------------------------------------------------------------
(* Scoring and cursor arithmetic.                                          *)

DueDay(k) == k * CycleDays
Distance(k, t) == IF DueDay(k) < TxnDate[t] THEN TxnDate[t] - DueDay(k)
                                            ELSE DueDay(k) - TxnDate[t]

\* scoreDate: null outside the window; fit below 0.25 is the edge zone.
InWindow(k, t) == Distance(k, t) <= MatchWindow
DateEdge(k, t) == 4 * Distance(k, t) > 3 * MatchWindow

\* A mutant of Advance: the date is moved on twice.
AdvanceTwice(cursor, b, k) ==
    IF b \in Recurring THEN [cursor EXCEPT ![b] = k + 2] ELSE cursor

\* advanceByFrequency: null, and so no UPDATE, for a one-time bill.
Advance(cursor, b, k) ==
    IF b \in Recurring THEN [cursor EXCEPT ![b] = k + 1] ELSE cursor

PaysSomething(t) == \E b \in Bills, k \in Periods : matched[b][k] = t

\* The rows the matcher's SELECT returns, less those scoreDate rejects and
\* those whose merchant_pattern does not occur in the transaction.
Matchable(b, t) ==
    /\ active[b]
    /\ pausedUntil[b] < TxnDate[t]
    /\ AmountVerdicts[<<b, t>>] # {}
    /\ nextDue[b] \in Periods
    /\ InWindow(nextDue[b], t)

PastDue(b) ==
    /\ active[b]
    /\ pausedUntil[b] < today
    /\ nextDue[b] \in Periods
    /\ DueDay(nextDue[b]) + Grace < today

Become(w, stage, j) ==
    /\ pc' = [pc EXCEPT ![w] = stage]
    /\ job' = [job EXCEPT ![w] = j]

Finish(w) == Become(w, "idle", NoJob) /\ todo' = todo

\* The upsert overwrites whatever the period row said.
PayPeriod(b, k, t, how) ==
    /\ period' = [period EXCEPT ![b][k] = "paid"]
    /\ matched' = [matched EXCEPT ![b][k] = t]
    /\ category' = IF category[t] = "blank" /\ b \in Categorised
                   THEN [category EXCEPT ![t] = "bill"] ELSE category
    /\ links' = links \cup {[bill |-> b, due |-> k, txn |-> t, how |-> how]}

\* Mutants of LinkBillToTxn: the cursor is moved on from where it is rather
\* than from where it was read, and the payment goes to the cycle it is at.
LinkThenStep(b, k, t, how) ==
    /\ PayPeriod(b, k, t, how)
    /\ nextDue' = Advance(nextDue, b, IF nextDue[b] \in Periods THEN nextDue[b] ELSE k)
LinkAtCursor(b, k, t, how) ==
    /\ PayPeriod(b, nextDue[b], t, how)
    /\ nextDue' = Advance(nextDue, b, nextDue[b])

LinkBillToTxn(b, k, t, how) ==
    PayPeriod(b, k, t, how) /\ nextDue' = Advance(nextDue, b, k)

-----------------------------------------------------------------------------
(* tryMatchTransaction, called after an import for every inserted row and  *)
(* by /api/bills/rescan for the rows it listed: unmatched, none open in    *)
(* triage.  Listing and the matcher's own "already matched?" are one step: *)
(* what happens between them may as well happen after both.                *)

MatchBegin(w, t) ==
    /\ pc[w] = "idle" /\ w \in Requests
    /\ stored[t] = "present"
    /\ ~PaysSomething(t)
    /\ \A b \in Bills : triage[<<b, t>>] # "open"
    /\ Become(w, "match", [NoJob EXCEPT !.txn = t])
    /\ UNCHANGED <<today, billVars, ledgerVars, triage, openCard, stored,
                   category, todo, bounds, history>>

\* The SELECT over bills and the scoring of each row.
MatchScan(w) ==
    /\ pc[w] = "match"
    /\ LET t == job[w].txn
           seen == {b \in Bills : Matchable(b, t)}
       IN \E verdict \in [seen -> Verdict] :
            LET candidates == {b \in seen : verdict[b] # "out"}
                Edge(b) == verdict[b] = "edge" \/ DateEdge(nextDue[b], t)
                confident == {b \in candidates :
                                Cardinality(candidates) = 1 /\ ~Edge(b)}
            IN /\ \A b \in seen : verdict[b] \in AmountVerdicts[<<b, t>>]
               /\ \/ /\ confident = {}
                     /\ Become(w, "decided",
                               [NoJob EXCEPT !.txn = t, !.ask = seen])
                  \/ \E b \in confident :
                        Become(w, "decided",
                               [bill |-> b, txn |-> t, due |-> nextDue[b],
                                ask |-> seen \ {b}])
    /\ UNCHANGED <<today, billVars, ledgerVars, triage, openCard, stored,
                   category, todo, bounds, history>>

\* COMMIT.  Triage rows go in ON CONFLICT DO NOTHING; a transaction deleted
\* meanwhile fails the foreign keys, and everything rolls back.
MatchCommit(w) ==
    /\ pc[w] = "decided"
    /\ LET j == job[w] IN
         \/ /\ stored[j.txn] = "present"
            /\ triage' = [p \in Pairs |->
                            IF p[1] \in j.ask /\ p[2] = j.txn /\ triage[p] = "none"
                            THEN "open" ELSE triage[p]]
            /\ \/ /\ j.bill # NoBill
                  /\ LinkBillToTxn(j.bill, j.due, j.txn, "auto")
               \/ /\ j.bill = NoBill
                  /\ UNCHANGED <<nextDue, ledgerVars, category, links>>
         \/ /\ stored[j.txn] # "present"
            /\ UNCHANGED <<triage, nextDue, ledgerVars, category, links>>
    /\ Finish(w)
    /\ UNCHANGED <<today, active, pausedUntil, openCard, stored, bounds, acked,
                   alerted>>

-----------------------------------------------------------------------------
(* resolveTriage.                                                          *)

\* A mutant of Locked: the row is read without FOR UPDATE.
NeverLocked(p) == FALSE

Locked(p) == \E w \in Requests :
    pc[w] = "accept" /\ job[w].bill = p[1] /\ job[w].txn = p[2]

\* A mutant of AcceptLoad: the row is closed outside the transaction that links.
CloseBeforeLink(w, p) ==
    /\ pc[w] = "idle" /\ w \in Requests
    /\ triage[p] = "open" /\ ~Locked(p)
    /\ nextDue[p[1]] \in Periods
    /\ triage' = [triage EXCEPT ![p] = "accepted"]
    /\ Become(w, "accept", [bill |-> p[1], txn |-> p[2],
                              due |-> nextDue[p[1]], ask |-> {}])
    /\ UNCHANGED <<today, billVars, ledgerVars, openCard, stored, category,
                   todo, bounds, history>>

\* SELECT ... FOR UPDATE, then the bill is loaded again: the link goes to the
\* cycle the bill is at now, whatever cycle the row was queued for.
AcceptLoad(w, p) ==
    /\ pc[w] = "idle" /\ w \in Requests
    /\ triage[p] = "open" /\ ~Locked(p)
    /\ nextDue[p[1]] \in Periods
    /\ Become(w, "accept", [bill |-> p[1], txn |-> p[2],
                              due |-> nextDue[p[1]], ask |-> {}])
    /\ UNCHANGED <<today, billVars, ledgerVars, triage, openCard, stored,
                   category, todo, bounds, history>>

Siblings(p) == {q \in Pairs : q[2] = p[2] /\ q # p /\ triage[q] = "open"}

\* COMMIT, once no other request holds a sibling row the UPDATE has to close.
AcceptCommit(w) ==
    /\ pc[w] = "accept"
    /\ LET j == job[w]
           mine == <<j.bill, j.txn>>
       IN /\ \A q \in Siblings(mine) : ~Locked(q)
          /\ triage' = [q \in Pairs |-> IF q = mine THEN "accepted"
                                        ELSE IF q \in Siblings(mine)
                                        THEN "reassigned" ELSE triage[q]]
          /\ LinkBillToTxn(j.bill, j.due, j.txn, "accept")
    /\ Finish(w)
    /\ UNCHANGED <<today, active, pausedUntil, openCard, stored, bounds, acked,
                   alerted>>

\* Two acceptances of sibling rows wait for each other; PostgreSQL aborts one.
DeadlockAbort(w) ==
    /\ pc[w] = "accept"
    /\ \E q \in Siblings(<<job[w].bill, job[w].txn>>) : Locked(q)
    /\ Finish(w)
    /\ UNCHANGED <<today, billVars, ledgerVars, triage, openCard, stored,
                   category, bounds, history>>

\* 'rejected', or 'reassigned' sent by the user: the row is closed, no more.
CloseTriage(p, resolution) ==
    /\ edits < MaxEdits
    /\ triage[p] = "open" /\ ~Locked(p)
    /\ triage' = [triage EXCEPT ![p] = resolution]
    /\ edits' = edits + 1
    /\ UNCHANGED <<today, billVars, ledgerVars, openCard, stored, category,
                   workerVars, crashes, history>>

-----------------------------------------------------------------------------
(* sweepOverdueBills: no transaction, one statement at a time.             *)

SweepList(w) ==
    /\ pc[w] = "idle"
    /\ \E b \in Bills : PastDue(b)
    /\ todo' = [todo EXCEPT ![w] = {<<b, nextDue[b]>> : b \in {c \in Bills : PastDue(c)}}]
    /\ Become(w, "sweep", NoJob)
    /\ UNCHANGED <<today, billVars, ledgerVars, triage, openCard, stored,
                   category, bounds, history>>

\* A mutant of SweepLook: a paid cycle is passed over and left at the cursor.
SkipPaid(w) ==
    /\ pc[w] = "sweep"
    /\ \E e \in todo[w] :
         LET rest == todo[w] \ {e} IN
         /\ todo' = [todo EXCEPT ![w] = rest]
         /\ Become(w, IF period[e[1]][e[2]] # "paid" THEN "flip"
                      ELSE IF rest = {} THEN "idle" ELSE "sweep",
                   [NoJob EXCEPT !.bill = e[1], !.due = e[2]])
    /\ UNCHANGED <<today, billVars, ledgerVars, triage, openCard, stored,
                   category, bounds, history>>

\* The row read decides between advancing at once and flagging the cycle.
SweepLook(w) ==
    /\ pc[w] = "sweep"
    /\ \E e \in todo[w] :
         /\ todo' = [todo EXCEPT ![w] = @ \ {e}]
         /\ Become(w, IF period[e[1]][e[2]] = "paid" THEN "advance" ELSE "flip",
                   [NoJob EXCEPT !.bill = e[1], !.due = e[2]])
    /\ UNCHANGED <<today, billVars, ledgerVars, triage, openCard, stored,
                   category, bounds, history>>

\* The upsert leaves an existing row alone: no flow writes 'pending'.
SweepFlip(w) ==
    /\ pc[w] = "flip"
    /\ period' = [period EXCEPT ![job[w].bill][job[w].due] =
                    IF @ = "none" THEN "overdue" ELSE @]
    /\ Become(w, "card", job[w])
    /\ UNCHANGED <<today, billVars, matched, triage, openCard, stored,
                   category, todo, bounds, history>>

SweepCard(w) ==
    /\ pc[w] = "card"
    /\ openCard' = [openCard EXCEPT ![job[w].bill] = TRUE]
    /\ alerted' = [alerted EXCEPT ![job[w].bill] = @ \cup {job[w].due}]
    /\ Become(w, "advance", job[w])
    /\ UNCHANGED <<today, billVars, ledgerVars, triage, stored, category,
                   todo, bounds, acked, links>>

SweepAdvance(w) ==
    /\ pc[w] = "advance"
    /\ nextDue' = Advance(nextDue, job[w].bill, job[w].due)
    /\ Become(w, IF todo[w] = {} THEN "idle" ELSE "sweep", NoJob)
    /\ UNCHANGED <<today, active, pausedUntil, ledgerVars, triage, openCard,
                   stored, category, todo, bounds, history>>

-----------------------------------------------------------------------------
(* POST /api/bills/:id/mark-paid and /api/bills/:id/skip-period.           *)

MarkRead(w, b) ==
    /\ pc[w] = "idle" /\ w \in Requests
    /\ edits < MaxEdits /\ edits' = edits + 1
    /\ nextDue[b] \in Periods
    /\ Become(w, "mark", [NoJob EXCEPT !.bill = b, !.due = nextDue[b]])
    /\ UNCHANGED <<today, billVars, ledgerVars, triage, openCard, stored,
                   category, todo, crashes, history>>

\* Moves the cursor, or retires a one-time bill; writes no period row.
MarkWrite(w) ==
    /\ pc[w] = "mark"
    /\ LET b == job[w].bill IN
         /\ nextDue' = Advance(nextDue, b, job[w].due)
         /\ active' = IF b \in Recurring THEN active
                                         ELSE [active EXCEPT ![b] = FALSE]
         /\ acked' = [acked EXCEPT ![b] = @ \cup {job[w].due}]
    /\ Finish(w)
    /\ UNCHANGED <<today, pausedUntil, ledgerVars, triage, openCard, stored,
                   category, bounds, alerted, links>>

SkipRead(w, b) ==
    /\ pc[w] = "idle" /\ w \in Requests
    /\ edits < MaxEdits /\ edits' = edits + 1
    /\ nextDue[b] \in Periods
    /\ Become(w, "skip", [NoJob EXCEPT !.bill = b, !.due = nextDue[b]])
    /\ UNCHANGED <<today, billVars, ledgerVars, triage, openCard, stored,
                   category, todo, crashes, history>>

SkipWrite(w) ==
    /\ pc[w] = "skip"
    /\ period' = [period EXCEPT ![job[w].bill][job[w].due] = "skipped"]
    /\ Become(w, "skipped", job[w])
    /\ UNCHANGED <<today, billVars, matched, triage, openCard, stored,
                   category, todo, bounds, history>>

SkipAdvance(w) ==
    /\ pc[w] = "skipped"
    /\ nextDue' = Advance(nextDue, job[w].bill, job[w].due)
    /\ Finish(w)
    /\ UNCHANGED <<today, active, pausedUntil, ledgerVars, triage, openCard,
                   stored, category, bounds, history>>

-----------------------------------------------------------------------------
(* Single-statement requests, the bank, the clock, and failures.           *)

\* PATCH nextDueDate: the cycles jumped over were jumped over by the user.
MoveDueDate(b, k) ==
    /\ edits < MaxEdits /\ edits' = edits + 1
    /\ k # nextDue[b]
    /\ nextDue' = [nextDue EXCEPT ![b] = k]
    /\ acked' = [acked EXCEPT ![b] = @ \cup nextDue[b] .. (k - 1)]
    /\ UNCHANGED <<today, active, pausedUntil, ledgerVars, triage, openCard,
                   stored, category, workerVars, crashes, alerted, links>>

SetActive(b) ==
    /\ edits < MaxEdits /\ edits' = edits + 1
    /\ active' = [active EXCEPT ![b] = ~@]
    /\ UNCHANGED <<today, nextDue, pausedUntil, ledgerVars, triage, openCard,
                   stored, category, workerVars, crashes, history>>

\* /pause with a date, /unpause with NotPaused.
SetPause(b, until) ==
    /\ edits < MaxEdits /\ edits' = edits + 1
    /\ pausedUntil[b] # until
    /\ pausedUntil' = [pausedUntil EXCEPT ![b] = until]
    /\ UNCHANGED <<today, nextDue, active, ledgerVars, triage, openCard,
                   stored, category, workerVars, crashes, history>>

DismissCard(b) ==
    /\ edits < MaxEdits /\ edits' = edits + 1
    /\ openCard[b]
    /\ openCard' = [openCard EXCEPT ![b] = FALSE]
    /\ UNCHANGED <<today, billVars, ledgerVars, triage, stored, category,
                   workerVars, crashes, history>>

Categorise(t) ==
    /\ edits < MaxEdits /\ edits' = edits + 1
    /\ stored[t] = "present"
    /\ category' = [category EXCEPT ![t] = "user"]
    /\ UNCHANGED <<today, billVars, ledgerVars, triage, openCard, stored,
                   workerVars, crashes, history>>

\* bulk-delete: matched_txn_id is SET NULL, triage rows cascade; it waits for
\* a request that holds one of them.
DeleteTxn(t) ==
    /\ edits < MaxEdits /\ edits' = edits + 1
    /\ stored[t] = "present"
    /\ \A b \in Bills : ~Locked(<<b, t>>)
    /\ stored' = [stored EXCEPT ![t] = "deleted"]
    /\ matched' = [b \in Bills |-> [k \in Periods |->
                     IF matched[b][k] = t THEN NoTxn ELSE matched[b][k]]]
    /\ triage' = [p \in Pairs |-> IF p[2] = t THEN "none" ELSE triage[p]]
    /\ UNCHANGED <<today, billVars, period, openCard, category, workerVars,
                   crashes, history>>

ImportTxn(t) ==
    /\ stored[t] = "absent" /\ TxnDate[t] <= today
    /\ stored' = [stored EXCEPT ![t] = "present"]
    /\ UNCHANGED <<today, billVars, ledgerVars, triage, openCard, category,
                   workerVars, bounds, history>>

Tick ==
    /\ today < MaxDay
    /\ today' = today + 1
    /\ UNCHANGED <<billVars, ledgerVars, triage, openCard, stored, category,
                   workerVars, bounds, history>>

\* A failed statement, a lost connection or a restart: a transaction rolls
\* back, a sweep or a skip stops where it is.
Crash(w) ==
    /\ crashes < MaxCrashes /\ crashes' = crashes + 1
    /\ pc[w] # "idle"
    /\ Become(w, "idle", NoJob)
    /\ todo' = [todo EXCEPT ![w] = {}]
    /\ UNCHANGED <<today, billVars, ledgerVars, triage, openCard, stored,
                   category, edits, history>>

-----------------------------------------------------------------------------
Start(w) ==
    \/ \E t \in Txns : MatchBegin(w, t)
    \/ \E p \in Pairs : AcceptLoad(w, p)
    \/ SweepList(w)
    \/ \E b \in Bills : MarkRead(w, b) \/ SkipRead(w, b)

Proceed(w) ==
    \/ MatchScan(w) \/ MatchCommit(w)
    \/ AcceptCommit(w) \/ DeadlockAbort(w)
    \/ SweepLook(w) \/ SweepFlip(w) \/ SweepCard(w) \/ SweepAdvance(w)
    \/ MarkWrite(w) \/ SkipWrite(w) \/ SkipAdvance(w)

User ==
    \/ \E p \in Pairs, r \in {"rejected", "reassigned"} : CloseTriage(p, r)
    \/ \E b \in Bills, k \in Cursors : MoveDueDate(b, k)
    \/ \E b \in Bills, u \in PauseDates \cup {NotPaused} : SetPause(b, u)
    \/ \E b \in Bills : SetActive(b) \/ DismissCard(b)
    \/ \E t \in Txns : Categorise(t) \/ DeleteTxn(t)

Next ==
    \/ \E w \in Workers : Start(w) \/ Proceed(w) \/ Crash(w)
    \/ User
    \/ \E t \in Txns : ImportTxn(t)
    \/ Tick

Spec == Init /\ [][Next]_vars

\* A request that has begun runs on, and the hourly tick keeps sweeping.
FairSpec ==
    /\ Spec
    /\ \A w \in Workers : WF_vars(Proceed(w))
    /\ WF_vars(SweepList(Scheduler))
    /\ WF_vars(Tick)

-----------------------------------------------------------------------------
(* Safety.                                                                 *)

Settled(b, k) ==
    \/ k \in acked[b]
    \/ period[b][k] \in {"paid", "skipped"}
    \/ period[b][k] = "overdue" /\ k \in alerted[b]

BelowSettled(b, d) == \A k \in 0 .. (d - 1) : Settled(b, k)

(***************************************************************************)
(* No cycle is lost: whatever sweeps, links, skips and crashes interleave, *)
(* every cycle behind the cursor was paid, skipped, reported overdue, or   *)
(* passed over by the user's own mark-paid or PATCH.                       *)
(***************************************************************************)
LedgerComplete == \A b \in Bills : BelowSettled(b, nextDue[b])

(***************************************************************************)
(* What the matcher links without asking lies in the inner three quarters  *)
(* of the window of the very cycle it pays and had a fitting amount, even  *)
(* when the cursor moved between the matcher's SELECT and its COMMIT.      *)
(***************************************************************************)
AutoLinkIsConfident ==
    \A l \in links : l.how = "auto" =>
        /\ InWindow(l.due, l.txn) /\ ~DateEdge(l.due, l.txn)
        /\ "fit" \in AmountVerdicts[<<l.bill, l.txn>>]

(***************************************************************************)
(* A triage row reads 'accepted' exactly when its link was committed:      *)
(* resolveTriage closes the row and links in one transaction, and a crash  *)
(* or a deadlock leaves neither.                                           *)
(***************************************************************************)
AcceptanceAtomic ==
    \A p \in Pairs : stored[p[2]] = "present" =>
        (triage[p] = "accepted" <=>
            \E l \in links : l.how = "accept" /\ <<l.bill, l.txn>> = p)

(***************************************************************************)
(* A resolution is final: of two requests that resolve the same row, or    *)
(* accept two rows of one transaction, the later never rewrites what the   *)
(* earlier decided.                                                        *)
(***************************************************************************)
ResolutionFinal ==
    [][\A p \in Pairs :
         triage[p] \in {"accepted", "rejected", "reassigned"}
         /\ stored'[p[2]] = "present" => triage'[p] = triage[p]]_vars

-----------------------------------------------------------------------------
(* Liveness, under FairSpec.                                               *)

(***************************************************************************)
(* A recurring bill left past its grace does not stay there: the hourly    *)
(* sweep moves its cursor on, though sweeps may fail half way.             *)
(***************************************************************************)
PastDueIsSwept ==
    \A b \in Recurring, k \in Periods :
        (PastDue(b) /\ nextDue[b] = k) ~> ~(PastDue(b) /\ nextDue[b] = k)

-----------------------------------------------------------------------------
(* What the comments of the code promise and the code does not keep.       *)

(***************************************************************************)
(* bill-matcher.ts:33, "only the FIRST matching transaction in a period    *)
(* links to the bill": while its transaction exists, the payment recorded  *)
(* for a paid cycle is not replaced by another.                            *)
(***************************************************************************)
FirstPaymentKept ==
    [][\A b \in Bills, k \in Periods :
         (/\ period[b][k] = "paid" /\ period'[b][k] = "paid"
          /\ matched[b][k] # NoTxn /\ stored' = stored)
         => matched'[b][k] = matched[b][k]]_vars

(***************************************************************************)
(* 071_bills_matching.sql, "rejected = user said no, this txn is not that   *)
(* bill": a pair the user rejected is not linked afterwards.               *)
(***************************************************************************)
RejectedStaysUnlinked ==
    [][\A p \in Pairs : triage[p] = "rejected" =>
         \A l \in links' \ links : <<l.bill, l.txn>> # p]_vars
=============================================================================
