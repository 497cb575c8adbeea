----------------------------- MODULE MCRequests -----------------------------
(***************************************************************************)
(* Instances for TLC of the services of which something is promised to     *)
(* happen: receipts that are read, batches the assistant has staged, and   *)
(* what a household should notice.  They share no rows: a behaviour is one *)
(* of one of them, which the initial state chooses.  The receipts keep     *)
(* their own names, in the others' behaviours they rest; v1, v2, ... hold  *)
(* the variables of the other two.                                         *)
(***************************************************************************)
EXTENDS Attachments, Sequences, TLC

VARIABLES
    service,
    v1, v2, v3, v4, v5, v6, v7, v8, v9, v10

On(tool, t, c) == [tool |-> tool, on |-> t, to |-> c, padded |-> FALSE]
Bare(tool) == On(tool, "none", "none")

\* The same row twice; two goals; what has no inverse; what always fails.
Plans ==
    {<<On("update_transaction_category", "t1", "c1"),
       On("update_transaction_category", "t1", "c2")>>,
     <<Bare("update_savings_goal"), Bare("create_savings_goal")>>,
     <<On("bulk_recategorize", "none", "c1"), Bare("mark_bill_paid"),
       On("split_transaction", "t1", "none")>>,
     <<On("update_transaction_category", "t1", "c1"), Bare("create_budget")>>}

\* Two requests on one batch of each plan, one edit beside, one failure; as many
\* connections as requests.
G == INSTANCE StagedBatches WITH
       Txns <- {"t1"}, Categories <- {"c1", "c2"}, Batches <- {"b1"},
       Requests <- {"r1", "r2"}, Plans <- Plans, Connections <- 2,
       MaxGoals <- 3, MaxEdits <- 1, MaxFailures <- 1,
       data <- v1, status <- v2, plan <- v3, inverses <- v4, pc <- v5, job <- v6,
       edits <- v7, failures <- v8, before <- v9, clean <- v10

\* Two signals of one household, beside one whose scan always fails.
N == INSTANCE InsightCards WITH
       Houses <- {"h1", "h2"}, Signals <- {"s1", "s2"},
       HouseOf <- [s1 |-> "h1", s2 |-> "h1"], Broken <- {"h2"},
       Ticks <- {"r1"}, Calls <- {"r2"}, Gap <- 1, MaxFailures <- 1,
       live <- v1, open <- v2, overdue <- v3, age <- v4, pc <- v5, job <- v6,
       failures <- v7

ASSUME AttachmentsOK /\ G!StagingOK /\ N!InsightsOK

more == <<v8, v9, v10>>
others == <<v1, v2, v3, v4, v5, v6, v7, more>>

-----------------------------------------------------------------------------

MoreRests == v8 = 0 /\ v9 = 0 /\ v10 = 0
OthersRest ==
    /\ v1 = 0 /\ v2 = 0 /\ v3 = 0 /\ v4 = 0 /\ v5 = 0 /\ v6 = 0 /\ v7 = 0
    /\ MoreRests

Start ==
    /\ Init
    /\ \/ service = "receipts" /\ OthersRest
       \/ service = "staged" /\ kekRun = 0 /\ G!Init
       \/ service = "insights" /\ kekRun = 0 /\ N!Init /\ MoreRests

Receipts(A) == service = "receipts" /\ A /\ UNCHANGED <<service, others>>
Staged(A) == service = "staged" /\ A /\ UNCHANGED <<service, vars>>
Insights(A) == service = "insights" /\ A /\ UNCHANGED <<service, vars, more>>

Step == Receipts(Next) \/ Staged(G!Next) \/ Insights(N!Next)
all == <<service, vars, others>>

\* The fairness each service's own specification states.  A behaviour is one of
\* one service, so one condition serves for an action of each; no receipt has
\* version 1 here.
FairServices ==
    /\ Start /\ [][Step]_all
    /\ WF_all(Receipts(Boot) \/ Insights(N!Hour))
    /\ \A own \in {<<"f1", "r1">>, <<"f2", "r2">>} :
         WF_all(\/ Receipts(OcrEnds(own[1]))
                \/ Staged(G!Continue(own[2])) \/ Insights(N!Continue(own[2])))
    /\ \A f \in Files, v \in {0, 2} : WF_all(Receipts(SweepRow(f, v)))

-----------------------------------------------------------------------------
(* What the services promise.  FilesHeld and SettledStays are the receipts'. *)

\* Every variable has its type, and each record the shape its stage gives it.
Types ==
    /\ TypeOK
    /\ service = "staged" => G!TypeOK
    /\ service = "insights" => N!TypeOK

\* What the user sees as "pending" is answered: of a receipt old enough for
\* the sweep that somebody has in hand, across crashes and unreadable files.
\* The files are alike, so one stands for both.
ReceiptAnswered ==
    (service = "receipts" /\ "f1" \in Unanswered /\ InHand("f1"))
      ~> (service = "receipts" /\ "f1" \notin Unanswered)

\* Requests that apply and undo batches end, unless every connection of the
\* pool is held by a commit whose tool waits for one more.  They are alike, too.
RequestsEnd ==
    (service = "staged" /\ v5["r1"] # "idle")
      ~> (service = "staged" /\ (v5["r1"] = "idle" \/ G!Exhausted))

\* A signal that lasts has an open card again and again, however often it is
\* dismissed and whatever fails for other households, but for a household with
\* bills falling due without end.  The signals are alike.
SignalSurfaces ==
    <>[](service = "insights" /\ N!Settled("s1")) => []<>(service = "insights" /\ "s1" \in v2)

=============================================================================
