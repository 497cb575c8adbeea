----------------------------- MODULE BankIngest -----------------------------
(***************************************************************************)
(* How transactions enter the books: persistBatch and its dedup hashes     *)
(* (server/src/import/importer.ts, dedup.ts), file uploads, and the sync   *)
(* of a Plaid item by the scheduler's tick (domain/auto-sync.ts) and by    *)
(* requests (routes/plaid.ts, routes/auto-sync.ts), which share one stored *)
(* cursor and no lock.                                                     *)
(*                                                                         *)
(* A key stands for an account and a base hash: a bank reference, or date, *)
(* amount and description where the source gives none.  A row is a key and *)
(* an occurrence, which is what the unique index (account_id, dedup_hash)  *)
(* tells apart.  A batch is a bag of keys of one account.                  *)
(***************************************************************************)
EXTENDS Integers, Sequences, FiniteSets, FiniteSetsExt

CONSTANTS
    Accounts, Liability,  \* accounts, and those of a liability type
    Keys, HomeOf,         \* keys and the account of each
    Credits,              \* keys whose mapped amount is positive
    Feed,                 \* Plaid's log of changes, [key, kind] in order
    Files,                \* bags of keys that users upload
    Requests,             \* users' POST /api/plaid/items/:id/sync
    Ticks, Scheduler,     \* runs of runAutoSyncTick, and the timer's own
    MaxWindow,            \* changes one sync reads at most (50 pages)
    MaxEdits, MaxFailures \* bounds on user interventions and on failures

Workers == Requests \cup Ticks
Batch == [Keys -> Nat]
FeedKeys == {Feed[i].key : i \in 1 .. Len(Feed)}
AccountOf(batch) == {HomeOf[k] : k \in {x \in Keys : batch[x] > 0}}

ASSUME IngestConstantsOK ==
    /\ IsFiniteSet(Keys) /\ HomeOf \in [Keys -> Accounts]
    /\ Liability \subseteq Accounts /\ Credits \subseteq Keys
    /\ Feed \in Seq([key : Keys, kind : {"added", "modified", "removed"}])
    /\ Files \subseteq Batch
    /\ \A f \in Files : \E a \in Accounts : AccountOf(f) = {a}
    /\ \A f \in Files, k \in FeedKeys : f[k] = 0
    /\ Scheduler \in Ticks /\ Requests \cap Ticks = {}
    /\ MaxWindow \in Nat \ {0} /\ MaxEdits \in Nat /\ MaxFailures \in Nat

VARIABLES
    published,   \* how much of Feed the bank has put out
    cursor,      \* plaid_items.sync_cursor
    links,       \* accounts plaid_account_links maps
    rows,        \* transactions
    flipped,     \* rows persistBatch stored with their sign reversed
    pc, job,     \* a sync's stage and what it carries
    edits, failures,
    (***********************************************************************)
    (* History: nothing in the code reads these.                           *)
    (***********************************************************************)
    gone,        \* rows a user has deleted
    unmapped,    \* keys a request's answer counted as of no linked account
    dropped,     \* such keys that a tick passed without telling anybody
    most         \* most copies of a key that any one batch held

tables == <<rows, flipped, most>>
bounds == <<edits, failures>>
told == <<unmapped, dropped>>
vars == <<published, cursor, links, tables, pc, job, bounds, gone, told>>

Positions == 0 .. Len(Feed)
Job == [from : Positions, to : Positions, links : SUBSET Accounts,
        left : SUBSET Accounts]
NoJob == [from |-> 0, to |-> 0, links |-> {}, left |-> {}]

TypeOK ==
    /\ published \in Positions /\ cursor \in Positions
    /\ links \subseteq Accounts
    /\ rows \subseteq Keys \X Nat /\ flipped \subseteq rows
    /\ pc \in [Workers -> {"idle", "fetch", "persist"}]
    /\ job \in [Workers -> Job]
    /\ edits \in Nat /\ failures \in Nat
    /\ gone \subseteq Keys \X Nat
    /\ unmapped \subseteq Keys /\ dropped \subseteq Keys
    /\ most \in Batch

Init ==
    /\ published = 0 /\ cursor = 0 /\ links = {}
    /\ rows = {} /\ flipped = {}
    /\ pc = [w \in Workers |-> "idle"]
    /\ job = [w \in Workers |-> NoJob]
    /\ edits = 0 /\ failures = 0
    /\ gone = {} /\ unmapped = {} /\ dropped = {}
    /\ most = [k \in Keys |-> 0]

-----------------------------------------------------------------------------
(* persistBatch.                                                           *)

\* assignDedupHashes: the n-th row of a base hash gets occurrence n - 1.
Copies(batch) == UNION {{k} \X (0 .. (batch[k] - 1)) : k \in Keys}

Size(batch, S) == MapThenSumSet(LAMBDA k : batch[k], S)

\* A liability batch with more credits than charges is taken to come from a
\* source that writes charges as credits, and is stored reversed.
Reversed(batch) ==
    /\ AccountOf(batch) \subseteq Liability
    /\ Size(batch, Credits) > Size(batch, Keys \ Credits)

Store(new, batch) ==
    /\ rows' = rows \cup new
    /\ flipped' = IF Reversed(batch) THEN flipped \cup (new \ rows) ELSE flipped
    /\ most' = [k \in Keys |-> IF batch[k] > most[k] THEN batch[k] ELSE most[k]]

\* A mutant of PersistBatch: occurrences go on from the rows already stored.
PersistCounted(batch) ==
    Store(UNION {{k} \X {Cardinality({r \in rows : r[1] = k}) + n :
                          n \in 0 .. (batch[k] - 1)} : k \in Keys}, batch)

\* One transaction; INSERT ... ON CONFLICT (account_id, dedup_hash) DO NOTHING.
PersistBatch(batch) == Store(Copies(batch), batch)

Upload(file) ==
    /\ edits < MaxEdits /\ edits' = edits + 1
    /\ PersistBatch(file)
    /\ UNCHANGED <<published, cursor, links, pc, job, failures, gone, told>>

-----------------------------------------------------------------------------
(* A sync.  What it read of the item is stale as soon as it has read it.   *)

\* Changes after position m, up to n, that fetchPlaidItemTransactions turns
\* into rows: Plaid mentions a transaction once in a window, "modified" rows
\* are appended to "added" ones, and "removed" ones are not looked at.
Sent(m, n) ==
    {Feed[i].key : i \in {x \in (m + 1) .. n :
        /\ Feed[x].kind # "removed"
        /\ \A y \in x .. n : Feed[y].key = Feed[x].key => Feed[y].kind # "removed"}}

SyncRead(w) ==
    /\ pc[w] = "idle"
    /\ pc' = [pc EXCEPT ![w] = "fetch"]
    /\ job' = [job EXCEPT ![w] = [from |-> cursor, to |-> cursor,
                                  links |-> links, left |-> {}]]
    /\ UNCHANGED <<published, cursor, links, tables, bounds, gone, told>>

\* Where the last page ends.
WindowEnd(from) ==
    IF published - from > MaxWindow THEN from + MaxWindow ELSE published

\* A mutant of SyncFetch: the cursor is saved before the rows are.
FetchAndSave(w) ==
    /\ pc[w] = "fetch"
    /\ LET j == job[w]
           to == WindowEnd(j.from)
       IN /\ job' = [job EXCEPT ![w] = [j EXCEPT !.to = to,
                       !.left = {a \in j.links : \E k \in Sent(j.from, to) : HomeOf[k] = a}]]
          /\ cursor' = to
    /\ pc' = [pc EXCEPT ![w] = "persist"]
    /\ UNCHANGED <<published, links, tables, bounds, gone, told>>

SyncFetch(w) ==
    /\ pc[w] = "fetch"
    /\ LET j == job[w]
           to == WindowEnd(j.from)
       IN job' = [job EXCEPT ![w] = [j EXCEPT !.to = to,
                    !.left = {a \in j.links : \E k \in Sent(j.from, to) : HomeOf[k] = a}]]
    /\ pc' = [pc EXCEPT ![w] = "persist"]
    /\ UNCHANGED <<published, cursor, links, tables, bounds, gone, told>>

SyncBatch(j, a) ==
    [k \in Keys |-> IF k \in Sent(j.from, j.to) /\ HomeOf[k] = a THEN 1 ELSE 0]

\* One persistBatch per linked account.
SyncPersist(w, a) ==
    /\ pc[w] = "persist" /\ a \in job[w].left
    /\ PersistBatch(SyncBatch(job[w], a))
    /\ job' = [job EXCEPT ![w].left = @ \ {a}]
    /\ UNCHANGED <<published, cursor, links, pc, bounds, gone, told>>

\* The changes of a window that belong to no account its links name.
Unlinked(j) == {k \in Sent(j.from, j.to) : HomeOf[k] \notin j.links}

\* The request's answer counts them; the tick looks at byAccount only.
TellUnlinked(w) ==
    IF w \in Requests
      THEN unmapped' = unmapped \cup Unlinked(job[w]) /\ dropped' = dropped
      ELSE dropped' = dropped \cup Unlinked(job[w]) /\ unmapped' = unmapped

\* Mutants of SyncSave: one account's rows are left for later, or the cursor
\* is taken to name the next change rather than the last.
SaveUnfinished(w) ==
    /\ pc[w] = "persist" /\ Cardinality(job[w].left) <= 1
    /\ cursor' = job[w].to
    /\ TellUnlinked(w)
    /\ pc' = [pc EXCEPT ![w] = "idle"] /\ job' = [job EXCEPT ![w] = NoJob]
    /\ UNCHANGED <<published, links, tables, bounds, gone>>
SaveNext(w) ==
    /\ pc[w] = "persist" /\ job[w].left = {}
    /\ cursor' = job[w].to + 1
    /\ pc' = [pc EXCEPT ![w] = "idle"] /\ job' = [job EXCEPT ![w] = NoJob]
    /\ UNCHANGED <<published, links, tables, bounds, gone, told>>

\* The cursor is overwritten whatever it is by now, past what belongs to no
\* linked account too.
SyncSave(w) ==
    /\ pc[w] = "persist" /\ job[w].left = {}
    /\ cursor' = job[w].to
    /\ TellUnlinked(w)
    /\ pc' = [pc EXCEPT ![w] = "idle"] /\ job' = [job EXCEPT ![w] = NoJob]
    /\ UNCHANGED <<published, links, tables, bounds, gone>>

\* A mutant of Fail: the tick's running flag is not reset in a finally.
FailStuck(w) ==
    /\ failures < MaxFailures /\ failures' = failures + 1
    /\ pc[w] # "idle"
    /\ pc' = [pc EXCEPT ![w] = "running"]
    /\ UNCHANGED <<published, cursor, links, tables, job, edits, gone, told>>

\* The bank, a statement or the process fails: accounts already persisted
\* stay so, the error is noted on the item and the cursor is left.
Fail(w) ==
    /\ failures < MaxFailures /\ failures' = failures + 1
    /\ pc[w] # "idle"
    /\ pc' = [pc EXCEPT ![w] = "idle"] /\ job' = [job EXCEPT ![w] = NoJob]
    /\ UNCHANGED <<published, cursor, links, tables, edits, gone, told>>

-----------------------------------------------------------------------------
(* The bank and the users.                                                 *)

Publish ==
    /\ published < Len(Feed)
    /\ published' = published + 1
    /\ UNCHANGED <<cursor, links, tables, pc, job, bounds, gone, told>>

LinkAccount(a) ==
    /\ edits < MaxEdits /\ edits' = edits + 1
    /\ a \notin links
    /\ links' = links \cup {a}
    /\ UNCHANGED <<published, cursor, tables, pc, job, failures, gone, told>>

DeleteRow(r) ==
    /\ edits < MaxEdits /\ edits' = edits + 1
    /\ rows' = rows \ {r} /\ flipped' = flipped \ {r}
    /\ gone' = gone \cup {r}
    /\ UNCHANGED <<published, cursor, links, pc, job, failures, told, most>>

Proceed(w) ==
    \/ SyncFetch(w)
    \/ \E a \in Accounts : SyncPersist(w, a)
    \/ SyncSave(w)

Next ==
    \/ \E w \in Workers : SyncRead(w) \/ Proceed(w) \/ Fail(w)
    \/ Publish
    \/ \E a \in Accounts : LinkAccount(a)
    \/ \E f \in Files : Upload(f)
    \/ \E r \in rows : DeleteRow(r)

Spec == Init /\ [][Next]_vars

\* A sync that has begun runs on, and the tick starts another.
FairSpec ==
    /\ Spec
    /\ \A w \in Workers : WF_vars(Proceed(w))
    /\ WF_vars(SyncRead(Scheduler))

-----------------------------------------------------------------------------
Live(n) == Sent(0, n)
Entered == {k \in FeedKeys : <<k, 0>> \in rows \cup gone}
Passed == unmapped \cup dropped

\* Accounts that are linked, and that no sync in progress read as unlinked.
Open == {a \in links : \A w \in Workers : pc[w] # "idle" => a \in job[w].links}

(***************************************************************************)
(* The cursor never stands beyond a transaction that reached no account    *)
(* although a finished sync had it for a linked one: overlapping syncs, a  *)
(* sync that fails between two accounts of its window and an older cursor  *)
(* written over a newer one lose nothing.                                  *)
(***************************************************************************)
NothingSkipped == Live(cursor) \subseteq Entered \cup Passed

(***************************************************************************)
(* However files and sync windows overlap, and however often they are      *)
(* imported, a key has as many rows as the batch that held most of it:     *)
(* neither are repeats stored twice nor identical rows of one file merged. *)
(***************************************************************************)
CopiesExact ==
    \A k \in Keys :
        {r[2] : r \in {x \in rows \cup gone : x[1] = k}} = 0 .. (most[k] - 1)

(***************************************************************************)
(* Synchronisation implements FeedLedger: what is entered was announced    *)
(* and is never forgotten, the cursor is only saved when all before it is  *)
(* entered or passed, and nothing of an open account is passed.            *)
(***************************************************************************)
Ledger == INSTANCE FeedLedger
            WITH mark <- cursor, entered <- Entered, passed <- Passed, open <- Open
ImplementsLedger == Ledger!LedgerSpec

(***************************************************************************)
(* Under FairSpec every transaction of an open account that no sync had    *)
(* passed before is entered, or the bank takes it back, though requests    *)
(* overlap the tick and syncs fail between two accounts.                   *)
(***************************************************************************)
Due(k) == k \in Live(published) \ Passed /\ HomeOf[k] \in Open
EventuallyEntered ==
    \A k \in FeedKeys : Due(k) ~> (k \in Entered \/ k \notin Live(published))

(***************************************************************************)
(* domain/plaid.ts:255, "Plaid's amount sign convention is OPPOSITE of     *)
(* SmrtCash's ... So we negate": what Plaid sent is stored with the sign   *)
(* it was mapped to.                                                       *)
(***************************************************************************)
SignKept == \A r \in flipped : r[1] \notin FeedKeys
=============================================================================
