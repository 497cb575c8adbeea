---------------------------- MODULE StagedBatches ----------------------------
(***************************************************************************)
(* The assistant's staged changes: domain/assistant/staging.ts, the write  *)
(* tools of domain/assistant/tools.ts, and routes/assistant.ts.            *)
(*                                                                         *)
(* A chat in stage mode stores a plan; a request applies it action by      *)
(* action inside a transaction, another undoes it by stored inverses.  The *)
(* tools do not use that transaction: each takes a connection of the pool  *)
(* for itself and is committed when it returns.                            *)
(***************************************************************************)
EXTENDS Integers, Sequences, FiniteSets

CONSTANTS
    Txns, Categories, \* a user's transactions, and the categories to choose from
    Batches,          \* ids of staged batches
    Requests,         \* HTTP requests that apply or undo one
    Plans,            \* what the model may propose: sequences of tool calls
    Connections,      \* PG_POOL_MAX
    MaxGoals,         \* bound: savings goals ever created
    MaxEdits,         \* bound: changes made beside the batches
    MaxFailures       \* bound: failed statements and crashes

NoCategory == "none"
Deleted == "deleted"          \* in place of the category of a deleted transaction
Gone == -1                    \* in place of the amount of a goal not there

Tools == {"update_transaction_category", "bulk_recategorize", "create_savings_goal",
          "update_savings_goal", "create_budget", "mark_bill_paid",
          "split_transaction"}
Call == [tool : Tools, on : Txns \cup {"none"}, to : Categories \cup {NoCategory},
         padded : BOOLEAN]            \* blanks about the name of the goal to create

StagingOK ==
    /\ IsFiniteSet(Requests) /\ Connections \in Nat \ {0}
    /\ Plans \subseteq Seq(Call) \ {<<>>}    \* nothing staged, no batch
    /\ \A p \in Plans : \A i \in 1 .. Len(p) :
         p[i].tool \in {"update_transaction_category", "split_transaction"} => p[i].on \in Txns
    /\ NoCategory \notin Categories /\ Deleted \notin Categories /\ "none" \notin Batches
    /\ MaxGoals \in Nat \ {0} /\ MaxEdits \in Nat /\ MaxFailures \in Nat

VARIABLES
    data,            \* the user's rows that tools write
    status, plan, inverses,   \* assistant_staged_batches
    pc, job,         \* a request's next statement; its batch, position, inverses
    edits, failures, \* counters of the bounds
    (***********************************************************************)
    (* History: nothing in the code reads these.                           *)
    (***********************************************************************)
    before,          \* the rows when a batch was first confirmed
    clean            \* batches nothing and nobody has interfered with

vars == <<data, status, plan, inverses, pc, job, edits, failures, before, clean>>

GoalIds == 1 .. MaxGoals
Data == [category : [Txns -> Categories \cup {NoCategory, Deleted}],
         goals : [GoalIds -> Int],     \* all stored under one name and target
         created : 0 .. MaxGoals,      \* ids up to this one have been used
         due : Nat,                    \* the cycle of the bill's due date
         shares : [Txns -> Nat],       \* rows of transaction_shares
         sharer : BOOLEAN]             \* the one who shares is in split_participants

Inverse == [kind : {"noop", "category", "delete_goal", "goal"},
            on : Txns \cup {"none"}, to : Categories \cup {NoCategory}, amount : Int,
            padded : BOOLEAN]
Noop == [kind |-> "noop", on |-> "none", to |-> NoCategory, amount |-> 0, padded |-> FALSE]

NoJob == [batch |-> "none", at |-> 0, inverses |-> <<>>]
Stages == {"idle", "connect", "capture", "execute", "clear", "insert", "commit", "mark",
           "rollback", "fail", "undoConnect", "undo", "undoMark"}
Statuses == {"none", "pending", "applied", "undone", "failed"}

TypeOK ==
    /\ data \in Data
    /\ status \in [Batches -> Statuses]
    /\ \A b \in Batches : plan[b] \in Plans \cup {<<>>}
    /\ \A b \in Batches : inverses[b] \in Seq(Inverse)
    /\ pc \in [Requests -> Stages]
    /\ \A r \in Requests :
         /\ job[r].batch \in Batches \cup {"none"}
         /\ job[r].inverses \in Seq(Inverse)
         /\ pc[r] = "idle" <=> job[r] = NoJob
         /\ pc[r] \in {"capture", "execute", "clear", "insert"}
            => job[r].at \in 1 .. Len(plan[job[r].batch])
    /\ edits \in Nat /\ failures \in Nat
    /\ clean \subseteq Batches

Pristine ==
    [category |-> [t \in Txns |-> NoCategory],
     goals |-> [g \in GoalIds |-> IF g = 1 THEN 0 ELSE Gone],
     created |-> 1, due |-> 0, shares |-> [t \in Txns |-> 0], sharer |-> FALSE]

Init ==
    /\ data = Pristine
    /\ status = [b \in Batches |-> "none"]
    /\ plan = [b \in Batches |-> <<>>] /\ inverses = [b \in Batches |-> <<>>]
    /\ pc = [r \in Requests |-> "idle"] /\ job = [r \in Requests |-> NoJob]
    /\ edits = 0 /\ failures = 0
    /\ before = [b \in Batches |-> data] /\ clean = Batches

-----------------------------------------------------------------------------
(* The tools.                                                              *)

Goals(d) == {g \in GoalIds : d.goals[g] # Gone}
Newest(d) == CHOOSE g \in Goals(d) : \A h \in Goals(d) : h <= g

\* create_budget names a unique index that migration 007 has dropped.
Throws(a, d) ==
    \/ a.tool = "create_budget"
    \/ a.tool \in {"update_transaction_category", "split_transaction"}
       /\ d.category[a.on] = Deleted
    \/ a.tool = "update_savings_goal" /\ d.goals[1] = Gone
    \/ a.tool = "create_savings_goal" /\ d.created = MaxGoals

UpdateTransactionCategory(t, c, d) == [d EXCEPT !.category[t] = c]

BulkRecategorize(c, d) ==
    [d EXCEPT !.category = [t \in Txns |-> IF @[t] = Deleted THEN Deleted ELSE c]]

\* Stored under the name without its blanks.
CreateSavingsGoal(d) == [d EXCEPT !.goals[d.created + 1] = 0, !.created = @ + 1]

UpdateSavingsGoal(d) == [d EXCEPT !.goals[1] = @ + 1]

\* Not the routes' mark-paid: the date moves, no period is written.
MarkBillPaid(d) == [d EXCEPT !.due = @ + 1]

\* The participant is looked up or made; ClearShares and InsertShares follow.
SplitTransaction(d) == [d EXCEPT !.sharer = TRUE]

\* What a call has changed when its first statement is done.
Effect(a, d) ==
    CASE a.tool = "update_transaction_category" -> UpdateTransactionCategory(a.on, a.to, d)
      [] a.tool = "bulk_recategorize" -> BulkRecategorize(a.to, d)
      [] a.tool = "create_savings_goal" -> CreateSavingsGoal(d)
      [] a.tool = "update_savings_goal" -> UpdateSavingsGoal(d)
      [] a.tool = "mark_bill_paid" -> MarkBillPaid(d)
      [] a.tool = "split_transaction" -> SplitTransaction(d)

\* captureInverse, before the call.  bulk_recategorize is asked for ids its
\* input never has; the name of a goal is kept as the input has it.
CaptureInverse(a, d) ==
    CASE a.tool = "update_transaction_category" /\ d.category[a.on] # Deleted ->
           [Noop EXCEPT !.kind = "category", !.on = a.on, !.to = d.category[a.on]]
      [] a.tool = "create_savings_goal" ->
           [Noop EXCEPT !.kind = "delete_goal", !.padded = a.padded]
      [] a.tool = "update_savings_goal" /\ d.goals[1] # Gone ->
           [Noop EXCEPT !.kind = "goal", !.amount = d.goals[1]]
      [] OTHER -> Noop

\* applyInverse: absolute values, and the newest goal of the name and target.
\* No goal has a name with blanks about it.
ApplyInverse(i, d) ==
    CASE i.kind = "category" /\ d.category[i.on] # Deleted ->
           [d EXCEPT !.category[i.on] = i.to]
      [] i.kind = "delete_goal" /\ ~i.padded /\ Goals(d) # {} ->
           [d EXCEPT !.goals[Newest(d)] = Gone]
      [] i.kind = "goal" /\ d.goals[1] # Gone -> [d EXCEPT !.goals[1] = i.amount]
      [] OTHER -> d

\* A mutant of Reversed: the inverses run in the order of the actions.
InOrder(is, d) ==
    LET after[n \in 0 .. Len(is)] ==
          IF n = 0 THEN d ELSE ApplyInverse(is[n], after[n - 1])
    IN  after[Len(is)]

\* All inverses, the last action's first.
Reversed(is, d) ==
    LET after[n \in 0 .. Len(is)] ==
          IF n = 0 THEN d ELSE ApplyInverse(is[Len(is) + 1 - n], after[n - 1])
    IN  after[Len(is)]

-----------------------------------------------------------------------------
(* The pool: a transaction keeps its connection, a query takes one.        *)

InTransaction == {"capture", "execute", "clear", "insert", "commit", "rollback", "undo"}
Free == Cardinality({r \in Requests : pc[r] \in InTransaction}) < Connections

\* Every connection is held for a tool that waits for another.
Exhausted ==
    Cardinality({r \in Requests : pc[r] \in {"execute", "clear", "insert"}}) >= Connections

At(r) == plan[job[r].batch][job[r].at]
Spoil(bs) ==
    /\ clean' = clean \ bs
    /\ before' = [b \in Batches |-> IF b \in bs THEN Pristine ELSE before[b]]
Working(b) == {r \in Requests : job[r].batch = b}
Goto(r, stage) == pc' = [pc EXCEPT ![r] = stage]
Leave(r) == Goto(r, "idle") /\ job' = [job EXCEPT ![r] = NoJob]
Take(r, stage, j) == Goto(r, stage) /\ job' = [job EXCEPT ![r] = j]

batchVars == <<status, plan, inverses>>
bounds == <<edits, failures>>

\* POST /api/assistant/chat, mode "stage", and createBatch.
CreateBatch(b, p) ==
    /\ status[b] = "none" /\ Free
    /\ status' = [status EXCEPT ![b] = "pending"] /\ plan' = [plan EXCEPT ![b] = p]
    /\ UNCHANGED <<data, inverses, pc, job, bounds, before, clean>>

\* The route's getBatch and its check; nothing keeps the status as it is.
CommitLoad(r, b) ==
    /\ pc[r] = "idle" /\ Free /\ status[b] = "pending"
    /\ Take(r, "connect", [NoJob EXCEPT !.batch = b, !.at = 1])
    /\ IF Working(b) = {} /\ b \in clean
       THEN before' = [before EXCEPT ![b] = data] /\ UNCHANGED clean
       ELSE Spoil({b})
    /\ UNCHANGED <<data, batchVars, bounds>>

Connect(r) ==
    /\ pc[r] = "connect" /\ Free
    /\ Goto(r, "capture")
    /\ UNCHANGED <<data, batchVars, job, bounds, before, clean>>

\* On the transaction's own connection.
Capture(r) ==
    /\ pc[r] = "capture"
    /\ Take(r, "execute", [job[r] EXCEPT !.inverses = Append(@, CaptureInverse(At(r), data))])
    /\ UNCHANGED <<data, batchVars, bounds, before, clean>>

\* A mutant of Advance: one action too many.
AdvancePast(r) ==
    IF job[r].at <= Len(plan[job[r].batch])
    THEN Take(r, "capture", [job[r] EXCEPT !.at = @ + 1])
    ELSE Goto(r, "commit") /\ UNCHANGED job

\* On to the next action, or to COMMIT.
Advance(r) ==
    IF job[r].at < Len(plan[job[r].batch])
    THEN Take(r, "capture", [job[r] EXCEPT !.at = @ + 1])
    ELSE Goto(r, "commit") /\ UNCHANGED job

\* A change to the rows by b, which for all other batches is one from outside.
Interferes(b) == Spoil(Batches \ {b})

\* tool.execute: on a connection of its own, committed at once.
Execute(r) ==
    /\ pc[r] = "execute" /\ Free
    /\ \/ /\ Throws(At(r), data)
          /\ Goto(r, "rollback") /\ UNCHANGED <<data, job, before, clean>>
       \/ /\ ~Throws(At(r), data)
          /\ data' = Effect(At(r), data)
          /\ IF At(r).tool = "split_transaction" THEN Goto(r, "clear") /\ UNCHANGED job
                                                 ELSE Advance(r)
          /\ Interferes(job[r].batch)
    /\ UNCHANGED <<batchVars, bounds>>

\* split_transaction deletes the shares there are.
ClearShares(r) ==
    /\ pc[r] = "clear" /\ Free
    /\ data' = [data EXCEPT !.shares[At(r).on] = 0]
    /\ Goto(r, "insert") /\ Interferes(job[r].batch)
    /\ UNCHANGED <<batchVars, job, bounds>>

\* And inserts the new ones; the transaction may be gone by now.
InsertShares(r) ==
    /\ pc[r] = "insert" /\ Free
    /\ IF data.category[At(r).on] = Deleted
       THEN Goto(r, "rollback") /\ UNCHANGED <<data, job, before, clean>>
       ELSE /\ data' = [data EXCEPT !.shares[At(r).on] = @ + 1]
            /\ Advance(r) /\ Interferes(job[r].batch)
    /\ UNCHANGED <<batchVars, bounds>>

\* COMMIT or ROLLBACK of a transaction that has only read; its connection
\* goes back.
EndTransaction(r) ==
    /\ \/ pc[r] = "commit" /\ Goto(r, "mark")
       \/ pc[r] = "rollback" /\ Goto(r, "fail")
    /\ UNCHANGED <<data, batchVars, job, bounds, before, clean>>

\* The UPDATEs that close the batch do not look at its status.
MarkApplied(r) ==
    /\ pc[r] = "mark" /\ Free
    /\ status' = [status EXCEPT ![job[r].batch] = "applied"]
    /\ inverses' = [inverses EXCEPT ![job[r].batch] = job[r].inverses]
    /\ Leave(r)
    /\ UNCHANGED <<data, plan, bounds, before, clean>>

MarkFailed(r) ==
    /\ pc[r] = "fail" /\ Free
    /\ status' = [status EXCEPT ![job[r].batch] = "failed"]
    /\ Leave(r)
    /\ UNCHANGED <<data, plan, inverses, bounds, before, clean>>

UndoLoad(r, b) ==
    /\ pc[r] = "idle" /\ Free /\ status[b] = "applied"
    /\ Take(r, "undoConnect", [NoJob EXCEPT !.batch = b, !.inverses = inverses[b]])
    /\ Spoil(IF Working(b) = {} THEN {} ELSE {b})
    /\ UNCHANGED <<data, batchVars, bounds>>

UndoConnect(r) ==
    /\ pc[r] = "undoConnect" /\ Free
    /\ Goto(r, "undo")
    /\ UNCHANGED <<data, batchVars, job, bounds, before, clean>>

\* A mutant of Undo: the inverses go through the pool, as the tools do.
UndoThroughPool(r) ==
    /\ pc[r] = "undo" /\ Free
    /\ data' = Reversed(job[r].inverses, data)
    /\ Goto(r, "undoMark") /\ Interferes(job[r].batch)
    /\ UNCHANGED <<batchVars, job, bounds>>

\* The inverses do run in the transaction.
Undo(r) ==
    /\ pc[r] = "undo"
    /\ data' = Reversed(job[r].inverses, data)
    /\ Goto(r, "undoMark") /\ Interferes(job[r].batch)
    /\ UNCHANGED <<batchVars, job, bounds>>

UndoMark(r) ==
    /\ pc[r] = "undoMark" /\ Free
    /\ status' = [status EXCEPT ![job[r].batch] = "undone"]
    /\ Leave(r)
    /\ UNCHANGED <<data, plan, inverses, bounds, before, clean>>

\* A statement fails, at a lost connection for instance.
Stumble(r) ==
    /\ pc[r] # "idle" /\ failures < MaxFailures /\ failures' = failures + 1
    /\ \/ pc[r] \in {"capture", "execute", "clear", "insert"}
          /\ Goto(r, "rollback") /\ UNCHANGED job
       \/ pc[r] \in {"connect", "commit", "mark"} /\ Goto(r, "fail") /\ UNCHANGED job
       \/ pc[r] \in {"fail", "undoConnect", "undo", "undoMark"} /\ Leave(r)
    /\ Spoil({job[r].batch})
    /\ UNCHANGED <<data, batchVars, edits>>

\* The server dies with its requests; a batch stays as its row says.
Crash ==
    /\ \E r \in Requests : pc[r] # "idle"
    /\ failures < MaxFailures /\ failures' = failures + 1
    /\ pc' = [r \in Requests |-> "idle"] /\ job' = [r \in Requests |-> NoJob]
    /\ Spoil({b \in Batches : Working(b) # {}})
    /\ UNCHANGED <<data, batchVars, edits>>

\* A chat in mode "auto" calls one tool at once; the user deletes a row.
Chat(a) ==
    /\ Free /\ ~Throws(a, data) /\ edits < MaxEdits /\ edits' = edits + 1
    /\ data' = Effect(a, data) /\ Interferes("none")
    /\ UNCHANGED <<batchVars, pc, job, failures>>

DeleteTxn(t) ==
    /\ Free /\ data.category[t] # Deleted /\ edits < MaxEdits /\ edits' = edits + 1
    /\ data' = [data EXCEPT !.category[t] = Deleted, !.shares[t] = 0]
    /\ Interferes("none")
    /\ UNCHANGED <<batchVars, pc, job, failures>>

Continue(r) ==
    \/ Connect(r) \/ Capture(r) \/ Execute(r) \/ ClearShares(r) \/ InsertShares(r)
    \/ EndTransaction(r) \/ MarkApplied(r) \/ MarkFailed(r)
    \/ UndoConnect(r) \/ Undo(r) \/ UndoMark(r)

Planned == UNION {{p[i] : i \in 1 .. Len(p)} : p \in Plans}

Next ==
    \/ \E b \in Batches, p \in Plans : CreateBatch(b, p)
    \/ \E r \in Requests, b \in Batches : CommitLoad(r, b) \/ UndoLoad(r, b)
    \/ \E r \in Requests : Continue(r) \/ Stumble(r)
    \/ Crash
    \/ \E a \in Planned : a.tool # "split_transaction" /\ Chat(a)
    \/ \E t \in Txns : DeleteTxn(t)

Spec == Init /\ [][Next]_vars

\* A request that has a connection, or can have one, goes on.
FairSpec == Spec /\ \A r \in Requests : WF_vars(Continue(r))

-----------------------------------------------------------------------------
(* Properties.                                                             *)

Calls(b, tools) == {i \in 1 .. Len(plan[b]) : plan[b][i].tool \in tools}

\* A batch confirmed by one request and undone by one, with nobody else at
\* the same rows, is what its two buttons say: applied, each of its actions
\* is done once; undone, all is as before except what has no inverse, the bulk
\* change and the goals of a plan with a padded name, however often the plan
\* comes back to the same row.
AppliedOnce(b) ==
    /\ data.due = before[b].due + Cardinality(Calls(b, {"mark_bill_paid"}))
    /\ data.created = before[b].created + Cardinality(Calls(b, {"create_savings_goal"}))
    /\ data.goals[1] =
         before[b].goals[1] + Cardinality(Calls(b, {"update_savings_goal"}))
    /\ \A t \in Txns : \A i \in Calls(b, {"update_transaction_category"}) :
         plan[b][i].on = t /\ (\A k \in Calls(b, Tools) : k > i => plan[b][k].on # t
                                    /\ plan[b][k].tool # "bulk_recategorize")
         => data.category[t] = plan[b][i].to

Padded(b) == {i \in Calls(b, {"create_savings_goal"}) : plan[b][i].padded}

RestoredExactly(b) ==
    /\ Padded(b) = {} => data.goals = before[b].goals
    /\ Calls(b, {"bulk_recategorize"}) = {} => data.category = before[b].category

UndoIsInverse ==
    \A b \in clean : Working(b) = {} =>
        /\ status[b] = "applied" => AppliedOnce(b)
        /\ status[b] = "undone" => RestoredExactly(b)

\* Requests that apply and undo batches wait for each other in one way only:
\* every connection is held by a commit whose tool asks for one more.
RequestsEnd == \A r \in Requests : pc[r] # "idle" ~> (pc[r] = "idle" \/ Exhausted)

\* staging.ts, commitBatch: "so we can roll back during the transaction if
\* anything throws midway".  A failed batch nobody else touched leaves no trace.
FailedLeavesNothing ==
    \A b \in clean : status[b] = "failed" => data = before[b]

=============================================================================
