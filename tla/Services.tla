------------------------------- MODULE Services -------------------------------
(***************************************************************************)
(* The services that share no rows with one another: a behaviour is one of *)
(* one service, which the initial state chooses.  The households keep      *)
(* their own names, in the others' behaviours they rest; v1, v2, ... hold  *)
(* the variables of any other service, in the order in which its module    *)
(* declares them.                                                          *)
(*                                                                         *)
(* Where a service has been proved about, the instance is of the module    *)
(* with its proofs: it says what the service's own module says, and its    *)
(* theorems are at hand.  Such a module may hold several services: then    *)
(* what the others declare is nothing here.                                *)
(***************************************************************************)
EXTENDS Households

CONSTANTS
    Founder,          \* of Households: who is Settled, in which household
    \* Records with the CONSTANTS of the other services' modules, ...
    Billing,          \* ... of Subscriptions,
    Movements,        \* Transfers,
    Labels,           \* Categorisation,
    Sharing,          \* CostSharing,
    Changes,          \* ScheduleChanges,
    Reviewing,        \* RecurringReview,
    Restoring,        \* Backups, about restores,
    Pruning,          \* Backups, about what is pruned,
    Staging,          \* StagedBatches,
    Keys              \* Attachments; their Requests but for Keys are Requests

VARIABLES
    service,
    v1, v2, v3, v4, v5, v6, v7, v8, v9, v10, v11, v12, v13, v14, v15, v16, v17,
    v18, v19, v20, v21, v22, v23, v24

\* The webhook, quotas and connections: S!Spec.
S == INSTANCE SubscriptionsProofs WITH
       Requests <- Requests, Script <- Billing.Script, Quota <- Billing.Quota,
       Connections <- Billing.Connections, Amounts <- Billing.Amounts,
       Grants <- Billing.Grants, MaxTime <- Billing.MaxTime,
       MaxStarts <- Billing.MaxStarts, MaxFailures <- Billing.MaxFailures,
       now <- v1, sent <- v2, claimed <- v3, acked <- v4, sub <- v5,
       counter <- v6, links <- v7, pc <- v8, job <- v9, starts <- v10,
       failures <- v11, applied <- v12, doubted <- v13, lost <- v14,
       granted <- v15, leaked <- v16, raced <- v17, declined <- v18,
       Txns <- {}, Categories <- {}, Batches <- {}, Proposed <- {}, Pool <- 0,
       MaxGoals <- 0, MaxEdits <- 0,
       data <- 0, standing <- 0, planned <- 0, inverses <- 0, edits <- 0, before <- 0,
       clean <- 0

\* The assistant's staged batches: SB!G!Spec.
SB == INSTANCE SubscriptionsProofs WITH
       Txns <- Staging.Txns, Categories <- Staging.Categories,
       Batches <- Staging.Batches, Requests <- Requests, Proposed <- Staging.Plans,
       Pool <- Staging.Connections, MaxGoals <- Staging.MaxGoals,
       MaxEdits <- Staging.MaxEdits, MaxFailures <- Staging.MaxFailures,
       data <- v1, standing <- v2, planned <- v3, inverses <- v4, pc <- v5, job <- v6,
       edits <- v7, failures <- v8, before <- v9, clean <- v10,
       Script <- <<>>, Quota <- <<>>, Connections <- <<>>, Amounts <- {}, Grants <- {},
       MaxTime <- 0, MaxStarts <- 0,
       now <- 0, sent <- 0, claimed <- 0, acked <- 0, sub <- 0, counter <- 0, links <- 0,
       starts <- 0, applied <- 0, doubted <- 0, lost <- 0, granted <- 0, leaked <- 0,
       raced <- 0, declined <- 0

\* Transfers: T!Spec.
T == INSTANCE TransactionsProofs WITH
       Txns <- Movements.Txns, Account <- Movements.Account,
       Currency <- Movements.Currency, Amount <- Movements.Amount,
       Date <- Movements.Date, Requests <- Requests,
       MaxGroups <- Movements.MaxGroups, MaxStarts <- Movements.MaxStarts,
       rows <- v1, group <- v2, groups <- v3, pc <- v4, job <- v5,
       starts <- v6, parted <- v7,
       Cats <- {}, Rules <- <<>>, Fits <- <<>>, Verbatim <- <<>>, Proposals <- {},
       Loaded <- {}, LoadedTag <- 0, MaxSuggestions <- 0,
       row <- 0, cat <- 0, rule <- 0, suggestions <- 0, chosen <- 0,
       Accounts <- {}, Participants <- {}, Categories <- {}, AccountOf <- <<>>,
       Day <- <<>>, Divisions <- <<>>,
       present <- 0, custody <- 0, mixed <- 0, shrunk <- 0

\* The categories of transactions: CA!A!Spec.
CA == INSTANCE TransactionsProofs WITH
       Txns <- Labels.Txns, Cats <- Labels.Cats, Rules <- Labels.Rules,
       Fits <- Labels.Fits, Verbatim <- Labels.Verbatim,
       Proposals <- Labels.Proposals, Requests <- Requests, Loaded <- Labels.Loaded,
       LoadedTag <- Labels.LoadedTag, MaxSuggestions <- Labels.MaxSuggestions,
       MaxStarts <- Labels.MaxStarts,
       row <- v1, cat <- v2, rule <- v3, suggestions <- v4, pc <- v5, job <- v6,
       starts <- v7, chosen <- v8,
       Account <- <<>>, Currency <- <<>>, Amount <- <<>>, Date <- <<>>, MaxGroups <- 0,
       rows <- 0, group <- 0, groups <- 0, parted <- 0,
       Accounts <- {}, Participants <- {}, Categories <- {}, AccountOf <- <<>>,
       Day <- <<>>, Divisions <- <<>>,
       present <- 0, custody <- 0, mixed <- 0, shrunk <- 0

\* The parts of transactions and accounts: CS!C!Spec.
CS == INSTANCE TransactionsProofs WITH
       Txns <- Sharing.Txns, Accounts <- Sharing.Accounts,
       Participants <- Sharing.Participants, Categories <- Sharing.Categories,
       AccountOf <- Sharing.AccountOf, Amount <- Sharing.Amount, Day <- Sharing.Day,
       Divisions <- Sharing.Divisions, Requests <- Requests,
       MaxStarts <- Sharing.MaxStarts,
       present <- v1, rows <- v2, custody <- v3, pc <- v4, job <- v5,
       starts <- v6, mixed <- v7, shrunk <- v8,
       Account <- <<>>, Currency <- <<>>, Date <- <<>>, MaxGroups <- 0,
       group <- 0, groups <- 0, parted <- 0,
       Cats <- {}, Rules <- <<>>, Fits <- <<>>, Verbatim <- <<>>, Proposals <- {},
       Loaded <- {}, LoadedTag <- 0, MaxSuggestions <- 0,
       row <- 0, cat <- 0, rule <- 0, suggestions <- 0, chosen <- 0

\* Schedule changes: CL!L!Spec.
CL == INSTANCE ScheduledProofs WITH
       Callers <- Requests, MaxChanges <- Changes.MaxChanges,
       MaxDay <- Changes.MaxDay, MaxEdits <- Changes.MaxEdits,
       today <- v1, changes <- v2, created <- v3, applied <- v4, parent <- v5,
       pc <- v6, batch <- v7, edits <- v8, uses <- v9, late <- v10, crossed <- v11,
       Runs <- {}, Files <- {}, Retention <- 0, MaxRestores <- 0, MaxRemovals <- 0,
       known <- 0, stored <- 0, uploading <- 0, backups <- 0, dirs <- 0, copy <- 0,
       stage <- 0, removing <- 0, restoring <- 0, holes <- 0, excused <- 0,
       restores <- 0, removals <- 0, asked <- 0,
       Houses <- {}, Keys <- {}, BillKeys <- {}, Patterns <- <<>>, MaxRows <- 0,
       rows <- 0, stale <- 0, refused <- 0,
       Requests <- {}, MaxStarts <- 0, job <- 0, starts <- 0

\* The review of recurring charges: RD!D!Spec.
RD == INSTANCE ScheduledProofs WITH
       Houses <- Reviewing.Houses, Keys <- Reviewing.Keys, BillKeys <- Reviewing.BillKeys,
       Patterns <- Reviewing.Patterns, Requests <- Requests, MaxRows <- Reviewing.MaxRows,
       MaxStarts <- Reviewing.MaxStarts,
       rows <- v1, pc <- v2, job <- v3, starts <- v4, stale <- v5, crossed <- v6,
       refused <- v7,
       Runs <- {}, Files <- {}, Retention <- 0, MaxRestores <- 0, MaxRemovals <- 0,
       known <- 0, stored <- 0, uploading <- 0, backups <- 0, dirs <- 0, copy <- 0,
       stage <- 0, removing <- 0, restoring <- 0, holes <- 0, excused <- 0,
       restores <- 0, removals <- 0, asked <- 0,
       Callers <- {}, MaxChanges <- 0, MaxEdits <- 0,
       changes <- 0, created <- 0, applied <- 0, parent <- 0, batch <- 0,
       edits <- 0, uses <- 0, late <- 0,
       MaxDay <- 0, today <- 0

\* Backups: BR!Spec and BP!Spec.
BR == INSTANCE ScheduledProofs WITH
       Runs <- Restoring.Runs, Files <- Restoring.Files, Retention <- Restoring.Retention,
       MaxDay <- Restoring.MaxDay, MaxRestores <- Restoring.MaxRestores,
       MaxRemovals <- Restoring.MaxRemovals,
       today <- v1, known <- v2, stored <- v3, uploading <- v4, backups <- v5,
       dirs <- v6, copy <- v7, stage <- v8, removing <- v9, restoring <- v10,
       holes <- v11, excused <- v12, restores <- v13, removals <- v14, asked <- v15,
       Callers <- {}, MaxChanges <- 0, MaxEdits <- 0,
       changes <- 0, created <- 0, applied <- 0, parent <- 0, batch <- 0,
       edits <- 0, uses <- 0, late <- 0,
       Houses <- {}, Keys <- {}, BillKeys <- {}, Patterns <- <<>>, MaxRows <- 0,
       rows <- 0, stale <- 0, refused <- 0,
       Requests <- {}, MaxStarts <- 0,
       pc <- 0, job <- 0, starts <- 0, crossed <- 0

BP == INSTANCE ScheduledProofs WITH
       Runs <- Pruning.Runs, Files <- Pruning.Files, Retention <- Pruning.Retention,
       MaxDay <- Pruning.MaxDay, MaxRestores <- Pruning.MaxRestores,
       MaxRemovals <- Pruning.MaxRemovals,
       today <- v1, known <- v2, stored <- v3, uploading <- v4, backups <- v5,
       dirs <- v6, copy <- v7, stage <- v8, removing <- v9, restoring <- v10,
       holes <- v11, excused <- v12, restores <- v13, removals <- v14, asked <- v15,
       Callers <- {}, MaxChanges <- 0, MaxEdits <- 0,
       changes <- 0, created <- 0, applied <- 0, parent <- 0, batch <- 0,
       edits <- 0, uses <- 0, late <- 0,
       Houses <- {}, Keys <- {}, BillKeys <- {}, Patterns <- <<>>, MaxRows <- 0,
       rows <- 0, stale <- 0, refused <- 0,
       Requests <- {}, MaxStarts <- 0,
       pc <- 0, job <- 0, starts <- 0, crossed <- 0

\* Receipts and what they are encrypted under: K!Spec.
K == INSTANCE AttachmentsProofs WITH
       Files <- Keys.Files, Legacy0 <- Keys.Legacy0, Legacy1 <- Keys.Legacy1,
       Requests <- Keys.Requests, Rotators <- Requests, Secrets <- Keys.Secrets,
       InitialKeks <- Keys.InitialKeks, MaxDeks <- Keys.MaxDeks,
       MaxKeks <- Keys.MaxKeks, MaxEdits <- Keys.MaxEdits,
       MaxFailures <- Keys.MaxFailures,
       up <- v1, kekRun <- v2, kekEnv <- v3, kekSetting <- v4, keyRow <- v5,
       secrets <- v6, disk <- v7, version <- v8, ocr <- v9, old <- v10,
       pc <- v11, job <- v12, extracting <- v13, sweep <- v14, rpc <- v15,
       rjob <- v16, kpc <- v17, kjob <- v18, minted <- v19, keks <- v20,
       edits <- v21, failures <- v22, torn <- v23, late <- v24

ASSUME ServicesOK ==
    /\ HouseholdsOK
    /\ Founder.user \in Users /\ Founder.house \in Houses /\ Founder.session \in Sessions
    /\ S!SubscriptionsOK /\ T!TransfersOK /\ CA!A!CategorisationOK
    /\ CS!C!CostSharingOK /\ CL!L!ChangesOK /\ RD!D!ReviewOK
    /\ BR!BackupsOK /\ BP!BackupsOK /\ SB!G!StagingOK /\ K!AttachmentsOK

\* What a service has no use for rests.
after18 == <<v19, v20, v21, v22, v23, v24>>
after15 == <<v16, v17, v18, after18>>
after11 == <<v12, v13, v14, v15, after15>>
after10 == <<v11, after11>>
after8 == <<v9, v10, after10>>
after7 == <<v8, after8>>
others == <<v1, v2, v3, v4, v5, v6, v7, after7>>

After18Rest == v19 = 0 /\ v20 = 0 /\ v21 = 0 /\ v22 = 0 /\ v23 = 0 /\ v24 = 0
After15Rest == v16 = 0 /\ v17 = 0 /\ v18 = 0 /\ After18Rest
After11Rest == v12 = 0 /\ v13 = 0 /\ v14 = 0 /\ v15 = 0 /\ After15Rest
After10Rest == v11 = 0 /\ After11Rest
After8Rest == v9 = 0 /\ v10 = 0 /\ After10Rest
After7Rest == v8 = 0 /\ After8Rest
OthersRest == /\ v1 = 0 /\ v2 = 0 /\ v3 = 0 /\ v4 = 0 /\ v5 = 0 /\ v6 = 0 /\ v7 = 0
              /\ After7Rest

all == <<service, vars, others>>

Start ==
    \/ /\ service = "households" /\ OthersRest
       /\ Init \/ \E role \in Roles : Settled(Founder.user, Founder.house, Founder.session, role)
    \/ /\ Init
       /\ \/ service = "subscriptions" /\ S!Init /\ After18Rest
          \/ service = "transfers" /\ T!Init /\ After7Rest
          \/ service = "cost_sharing" /\ CS!C!Init /\ After8Rest
          \/ service = "schedule_changes" /\ CL!L!Init /\ After11Rest
          \/ service = "keys" /\ K!Init
          \/ service = "backup_restore" /\ BR!Init /\ After15Rest
          \/ service = "backup_prune" /\ BP!Init /\ After15Rest
          \/ service = "recurring" /\ RD!D!Init /\ After7Rest
          \/ service = "categories" /\ CA!A!Init /\ After8Rest
          \/ service = "staged" /\ SB!G!Init /\ After10Rest

Step ==
    /\ UNCHANGED service
    /\ \/ service = "households" /\ Next /\ UNCHANGED others
       \/ /\ UNCHANGED vars
          /\ \/ service = "subscriptions" /\ S!Next /\ UNCHANGED after18
             \/ service = "transfers" /\ T!Next /\ UNCHANGED after7
             \/ service = "cost_sharing" /\ CS!C!Next /\ UNCHANGED after8
             \/ service = "schedule_changes" /\ CL!L!Next /\ UNCHANGED after11
             \/ service = "keys" /\ K!Next
             \/ service = "backup_restore" /\ BR!Next /\ UNCHANGED after15
             \/ service = "backup_prune" /\ BP!Next /\ UNCHANGED after15
             \/ service = "recurring" /\ RD!D!Next /\ UNCHANGED after7
             \/ service = "categories" /\ CA!A!Next /\ UNCHANGED after8
             \/ service = "staged" /\ SB!G!Next /\ UNCHANGED after10

Services == Start /\ [][Step]_all

-----------------------------------------------------------------------------
(* Each other service's properties, under their names in its module.       *)

Of(name, P) == service = name => P
OfBackups(P, Q) == Of("backup_restore", P) /\ Of("backup_prune", Q)

\* Every variable has its type, and each record the shape its stage gives it.
Types ==
    /\ TypeOK /\ Of("subscriptions", S!TypeOK)
    /\ Of("transfers", T!TypeOK) /\ Of("cost_sharing", CS!C!TypeOK)
    /\ Of("schedule_changes", CL!L!TypeOK) /\ Of("keys", K!TypeOK)
    /\ OfBackups(BR!TypeOK, BP!TypeOK)
    /\ Of("recurring", RD!D!TypeOK) /\ Of("categories", CA!A!TypeOK)
    /\ Of("staged", SB!G!TypeOK)

\* What Stripe has been told is received has been written or is being
\* handled, but for an event whose request died with the claim or whose handler
\* declined it.
AckedApplied == Of("subscriptions", S!AckedApplied)

\* webhook-handlers.ts says an event is never applied twice; it is when the
\* reply to the write is lost, and only then.
AppliedOnce == Of("subscriptions", S!AppliedOnce)

\* However many requests ask at once, no period's grants exceed the largest
\* quota the household has had.
QuotaHeld == Of("subscriptions", S!QuotaHeld)

\* The counter of a period is what was granted in it, and what is about to be
\* given back or never will be because its request died.
CounterExact == Of("subscriptions", S!CounterExact)

\* There are no more bank connections than a plan the household has had
\* allows, but for those counted while another was being inserted.
SlotsHeld == Of("subscriptions", S!SlotsHeld)

\* A group is a pair on two accounts, whatever was detected, linked and
\* unlinked before, unless its partner was deleted or two requests wrote what
\* each had seen before the other wrote.
PairsWhole == Of("transfers", T!PairsWhole)

\* The lines of a transaction add up to it, whoever divides and clears it, and
\* the totals count a transaction outside custody once, but for tolerance and
\* rounding, if its account is shared and not at all if it is not: unless two
\* requests divided the same at once or a participant of the account was
\* deleted.
DivisionsAddUp == Of("cost_sharing", CS!C!LinesAddUp /\ CS!C!SharesAddUp)

\* "100% attributed to that participant ... so we don't double-count": a
\* custodian's share of a transaction is the transaction.
CustodyCountsOnce == Of("cost_sharing", CS!C!CustodyCountsOnce)

\* "Lock the candidate rows so a parallel caller doesn't double-apply": no
\* change is folded in twice, so none comes back over a later edit.
FoldedOnce == Of("schedule_changes", CL!L!FoldedOnce)

\* A field a change has set is the one the latest applied change gives it,
\* unless promotions overlapped (the one that locked the older rows may commit
\* last) or an older change was added after a later one.
LatestWins == Of("schedule_changes", CL!L!LatestWins)

\* However uploads, their race for the first key, deletions, rotations of
\* either key and crashes interleave, a stored receipt is under the key its
\* row points at, except in the known cases that history marks: the rewritten
\* files of a rotation that is running or did not finish, uploads that
\* overlapped a rotation, rotations that overlapped each other, and files
\* directly under a KEK the server has not any more.
FilesHeld == Of("keys", K!FilesHeld)

\* Rotating the KEK loses no key and no bank login: all that is wrapped is
\* under one KEK, the one .env holds or is about to, except what a server
\* had wrapped with another or stored while the script was at work.
KeysFollow == Of("keys", K!KeysFollow)

\* Every attachment row has its file, after a restore too, except for files
\* deleted while the backup was between its two parts, uploads and backups that
\* ran beside a restore, restores that had no archive or did not get to it, and
\* restores that overlapped so that the files of one came after the rows of
\* another.
RestoredWhole == OfBackups(BR!RestoredWhole, BP!RestoredWhole)

\* As long as no administrator deletes backups or restores one, a success is
\* always left to restore: a schedule that has begun to fail does not prune
\* the last good backup away.
LastGoodKept == OfBackups(BR!LastGoodKept, BP!LastGoodKept)

\* A suggestion has a bill exactly when it is confirmed, and one only, whatever
\* verdict of the model or rejection comes after it, unless two confirmations
\* had read it; and what a household has rejected is not suggested to it again,
\* unless two detections were under way.
AnswersStand == Of("recurring", RD!D!AnswersStand)

\* "Other tenants' rows with the same key don't suppress this tenant's
\* suggestions": no INSERT of a household fails because of another's row.
OthersDontSuppress == Of("recurring", RD!D!OthersDontSuppress)

\* A category the user has given a transaction stays, whatever the rules, an
\* import's pass, the bill matcher and a model asked before the edit write
\* later, until the user says otherwise.
ManualKept == Of("categories", CA!A!ManualKept)

\* A batch confirmed by one request and undone by one, with nobody else at the
\* same rows: applied, each of its actions is done once; undone, all is as
\* before except what has no inverse, however often its plan comes back to the
\* same row.
UndoIsInverse == Of("staged", SB!G!UndoIsInverse)

=============================================================================
