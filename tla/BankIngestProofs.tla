-------------------------- MODULE BankIngestProofs --------------------------
(***************************************************************************)
(* Proofs about BankIngest: types, NothingSkipped, CopiesExact, and that   *)
(* it implements FeedLedger.                                               *)
(***************************************************************************)
EXTENDS BankIngest, TLAPS

(***************************************************************************)
(* The windows a sync reads.                                               *)
(***************************************************************************)
LEMMA FeedType ==
  /\ Len(Feed) \in Nat
  /\ \A i \in 1 .. Len(Feed) : Feed[i].key \in Keys
<1> DEFINE Change == [key : Keys, kind : {"added", "modified", "removed"}]
<1>1. Feed \in Seq(Change)
  BY IngestConstantsOK
<1> HIDE DEF Change
<1>2. Len(Feed) \in Nat /\ \A i \in 1 .. Len(Feed) : Feed[i] \in Change
  BY <1>1
<1>3. \A c \in Change : c.key \in Keys
  BY DEF Change
<1>4. QED BY <1>2, <1>3

\* What a window names is in the bank's log up to the window's end.
LEMMA SentHeard ==
  ASSUME NEW m \in Positions, NEW n \in Positions
  PROVE  /\ Sent(m, n) \subseteq FeedKeys /\ FeedKeys \subseteq Keys
         /\ \A p \in Positions : n <= p => Sent(m, n) \subseteq Ledger!Mentioned(p)
  BY FeedType DEF Sent, FeedKeys, Positions, Ledger!Mentioned

\* Two windows, one after the other, name what one window over both does.
LEMMA SentSplit ==
  ASSUME NEW m \in Positions, NEW n \in Positions, NEW p \in Positions,
         n <= p
  PROVE  Sent(m, p) \subseteq Sent(m, n) \cup Sent(n, p)
<1> SUFFICES ASSUME NEW k \in Sent(m, p) PROVE k \in Sent(m, n) \cup Sent(n, p)
  OBVIOUS
<1>1. PICK i \in (m + 1) .. p :
        /\ Feed[i].key = k /\ Feed[i].kind # "removed"
        /\ \A y \in i .. p : Feed[y].key = Feed[i].key => Feed[y].kind # "removed"
  BY DEF Sent
<1>2. CASE i <= n
  <2>1. i \in (m + 1) .. n /\ \A y \in i .. n : y \in i .. p
    BY <1>2 DEF Positions
  <2>2. k \in Sent(m, n)
    BY <1>1, <2>1 DEF Sent
  <2>3. QED BY <2>2
<1>3. CASE i > n
  <2>1. i \in (n + 1) .. p
    BY <1>3 DEF Positions
  <2>2. k \in Sent(n, p)
    BY <1>1, <2>1 DEF Sent
  <2>3. QED BY <2>2
<1>4. QED BY <1>2, <1>3 DEF Positions

(***************************************************************************)
(* Batches.                                                                *)
(***************************************************************************)
LEMMA CopiesMember ==
  ASSUME NEW batch \in Batch
  PROVE  /\ Copies(batch) \subseteq Keys \X Nat
         /\ \A k \in Keys, n \in Nat : <<k, n>> \in Copies(batch) <=> n < batch[k]
<1>1. \A k \in Keys : batch[k] \in Nat
  BY DEF Batch
<1>2. \A k \in Keys, n \in Nat : n \in 0 .. (batch[k] - 1) <=> n < batch[k]
  BY <1>1
<1>3. \A k \in Keys : 0 .. (batch[k] - 1) \subseteq Nat
  BY <1>1
<1>4. Copies(batch) \subseteq Keys \X Nat
  BY <1>3 DEF Copies
<1>5. \A k \in Keys, n \in Nat :
        <<k, n>> \in Copies(batch) <=> n \in 0 .. (batch[k] - 1)
  BY DEF Copies
<1>6. QED BY <1>2, <1>4, <1>5

LEMMA SyncBatchType ==
  ASSUME NEW j \in Job, NEW a \in Accounts
  PROVE  /\ SyncBatch(j, a) \in Batch
         /\ \A k \in Keys : SyncBatch(j, a)[k] > 0 <=>
              k \in Sent(j.from, j.to) /\ HomeOf[k] = a
  BY DEF SyncBatch, Batch

LEMMA StoreStep ==
  ASSUME TypeOK, NEW batch \in Batch, PersistBatch(batch)
  PROVE  /\ rows' = rows \cup Copies(batch) /\ rows' \subseteq Keys \X Nat
         /\ flipped' \subseteq rows' /\ most' \in Batch
<1>1. rows' = rows \cup Copies(batch)
  BY DEF PersistBatch, Store
<1>2. rows' \subseteq Keys \X Nat
  BY <1>1, CopiesMember DEF TypeOK
<1>3. flipped' \subseteq rows'
  BY <1>1 DEF TypeOK, PersistBatch, Store
<1>4. most' \in Batch
  BY DEF TypeOK, PersistBatch, Store, Batch
<1>5. QED BY <1>1, <1>2, <1>3, <1>4

(***************************************************************************)
(* Types.                                                                  *)
(***************************************************************************)
LEMMA WindowEndType ==
  ASSUME NEW from \in Positions, published \in Positions
  PROVE  /\ WindowEnd(from) \in Positions
         /\ from <= published =>
              from <= WindowEnd(from) /\ WindowEnd(from) <= published
  BY IngestConstantsOK DEF WindowEnd, Positions

LEMMA NoJobType == NoJob \in Job
  BY FeedType DEF NoJob, Job, Positions

LEMMA SyncReadType ==
  ASSUME TypeOK, NEW w \in Workers, SyncRead(w)
  PROVE  TypeOK'
<1>1. [from |-> cursor, to |-> cursor, links |-> links, left |-> {}] \in Job
  BY DEF TypeOK, Job
<1>2. job' \in [Workers -> Job] /\ pc' \in [Workers -> {"idle", "fetch", "persist"}]
  BY <1>1 DEF TypeOK, SyncRead
<1>3. QED BY <1>2 DEF TypeOK, SyncRead, tables, bounds, told

LEMMA SyncFetchType ==
  ASSUME TypeOK, NEW w \in Workers, SyncFetch(w)
  PROVE  TypeOK'
<1>1. PICK j \in Job : j = job[w]
  BY DEF TypeOK
<1>2. WindowEnd(j.from) \in Positions
  BY <1>1, WindowEndType DEF TypeOK, Job
<1>3. [j EXCEPT !.to = WindowEnd(j.from),
        !.left = {a \in j.links : \E k \in Sent(j.from, WindowEnd(j.from)) :
                                     HomeOf[k] = a}] \in Job
  BY <1>2 DEF Job
<1>4. job' \in [Workers -> Job] /\ pc' \in [Workers -> {"idle", "fetch", "persist"}]
  BY <1>1, <1>3 DEF TypeOK, SyncFetch
<1>5. QED BY <1>4 DEF TypeOK, SyncFetch, tables, bounds, told

LEMMA SyncPersistType ==
  ASSUME TypeOK, NEW w \in Workers, NEW a \in Accounts, SyncPersist(w, a)
  PROVE  TypeOK'
<1>1. PICK j \in Job : j = job[w]
  BY DEF TypeOK
<1>2. [j EXCEPT !.left = @ \ {a}] \in Job
  BY DEF Job
<1>3. job' \in [Workers -> Job]
  BY <1>1, <1>2 DEF TypeOK, SyncPersist
<1>4. PICK b \in Batch : b = SyncBatch(j, a)
  BY SyncBatchType
<1>5. rows' \subseteq Keys \X Nat /\ flipped' \subseteq rows' /\ most' \in Batch
  BY <1>1, <1>4, StoreStep DEF SyncPersist
<1>6. QED BY <1>3, <1>5 DEF TypeOK, SyncPersist, bounds, told

LEMMA SyncSaveType ==
  ASSUME TypeOK, NEW w \in Workers, SyncSave(w)
  PROVE  TypeOK'
<1>1. PICK j \in Job : j = job[w]
  BY DEF TypeOK
<1>2. Sent(j.from, j.to) \subseteq Keys /\ j.to \in Positions
  BY SentHeard DEF Job
<1>3. unmapped' \subseteq Keys /\ dropped' \subseteq Keys /\ cursor' \in Positions
  BY <1>1, <1>2 DEF TypeOK, SyncSave, TellUnlinked, Unlinked
<1>4. job' \in [Workers -> Job] /\ pc' \in [Workers -> {"idle", "fetch", "persist"}]
  BY NoJobType DEF TypeOK, SyncSave
<1>5. QED BY <1>3, <1>4 DEF TypeOK, SyncSave, tables, bounds, told

LEMMA FailType ==
  ASSUME TypeOK, NEW w \in Workers, Fail(w)
  PROVE  TypeOK'
<1>1. job' \in [Workers -> Job] /\ pc' \in [Workers -> {"idle", "fetch", "persist"}]
  BY NoJobType DEF TypeOK, Fail
<1>2. failures' \in Nat
  BY DEF TypeOK, Fail
<1>3. QED BY <1>1, <1>2 DEF TypeOK, Fail, tables, told

LEMMA UploadType ==
  ASSUME TypeOK, NEW f \in Files, Upload(f)
  PROVE  TypeOK'
<1>1. f \in Batch
  BY IngestConstantsOK
<1>2. rows' \subseteq Keys \X Nat /\ flipped' \subseteq rows' /\ most' \in Batch
  BY <1>1, StoreStep DEF Upload
<1>3. edits' \in Nat
  BY DEF TypeOK, Upload
<1>4. QED BY <1>2, <1>3 DEF TypeOK, Upload, told

LEMMA DeleteRowType ==
  ASSUME TypeOK, NEW r \in rows, DeleteRow(r)
  PROVE  TypeOK'
<1>1. edits' \in Nat
  BY DEF TypeOK, DeleteRow
<1>2. QED BY <1>1 DEF TypeOK, DeleteRow, told

LEMMA PublishType == TypeOK /\ Publish => TypeOK'
<1> SUFFICES ASSUME TypeOK, Publish PROVE TypeOK'
  OBVIOUS
<1>1. published' \in Positions
  BY FeedType DEF TypeOK, Publish, Positions
<1>2. QED BY <1>1 DEF TypeOK, Publish, tables, bounds, told

LEMMA LinkAccountType ==
  ASSUME TypeOK, NEW a \in Accounts, LinkAccount(a)
  PROVE  TypeOK'
<1>1. edits' \in Nat
  BY DEF TypeOK, LinkAccount
<1>2. QED BY <1>1 DEF TypeOK, LinkAccount, tables, told

LEMMA StepType == TypeOK /\ [Next]_vars => TypeOK'
<1> SUFFICES ASSUME TypeOK, [Next]_vars PROVE TypeOK'
  OBVIOUS
<1>1. ASSUME NEW w \in Workers, SyncRead(w) PROVE TypeOK'
  BY <1>1, SyncReadType
<1>2. ASSUME NEW w \in Workers, SyncFetch(w) PROVE TypeOK'
  BY <1>2, SyncFetchType
<1>3. ASSUME NEW w \in Workers, NEW a \in Accounts, SyncPersist(w, a) PROVE TypeOK'
  BY <1>3, SyncPersistType
<1>4. ASSUME NEW w \in Workers, SyncSave(w) PROVE TypeOK'
  BY <1>4, SyncSaveType
<1>5. ASSUME NEW w \in Workers, Fail(w) PROVE TypeOK'
  BY <1>5, FailType
<1>6. CASE Publish
  BY <1>6, PublishType
<1>7. ASSUME NEW a \in Accounts, LinkAccount(a) PROVE TypeOK'
  BY <1>7, LinkAccountType
<1>8. ASSUME NEW f \in Files, Upload(f) PROVE TypeOK'
  BY <1>8, UploadType
<1>9. ASSUME NEW r \in rows, DeleteRow(r) PROVE TypeOK'
  BY <1>9, DeleteRowType
<1>10. CASE UNCHANGED vars
  BY <1>10 DEF TypeOK, vars, tables, bounds, told
<1>11. QED
  BY <1>1, <1>2, <1>3, <1>4, <1>5, <1>6, <1>7, <1>8, <1>9, <1>10
     DEF Next, Proceed

(***************************************************************************)
(* What each sync carries: a place the cursor has been, and rows for all   *)
(* its window named but the accounts it still has to do.                   *)
(***************************************************************************)
HasRow(k) == <<k, 0>> \in rows \cup gone
Known == Entered \cup Passed

CarriesOK(w) ==
    LET j == job[w] IN
    /\ pc[w] # "idle" =>
         j.from <= j.to /\ j.to <= published /\ Live(j.from) \subseteq Known
    /\ pc[w] = "persist" =>
         \A k \in Sent(j.from, j.to) :
            HomeOf[k] \notin j.links \/ HomeOf[k] \in j.left \/ HasRow(k)

SyncOK ==
    /\ cursor <= published
    /\ Live(cursor) \subseteq Known
    /\ \A w \in Workers : CarriesOK(w)

IngestInv == TypeOK /\ SyncOK

LEMMA InitOK == Init => IngestInv
<1> SUFFICES ASSUME Init PROVE IngestInv
  OBVIOUS
<1>1. 0 \in Positions
  BY FeedType DEF Positions
<1>2. TypeOK
  BY <1>1 DEF Init, TypeOK, NoJob, Job, Batch
<1>3. Live(0) = {}
  BY DEF Live, Sent
<1>4. SyncOK
  BY <1>3 DEF Init, SyncOK, CarriesOK
<1>5. QED BY <1>2, <1>4 DEF IngestInv

\* What is known stays known while rows leave only for "gone".
LEMMA KnownGrows ==
  ASSUME rows \cup gone \subseteq rows' \cup gone', Passed \subseteq Passed'
  PROVE  /\ Known \subseteq Known'
         /\ \A k : HasRow(k) => HasRow(k)'
  BY DEF Known, Entered, HasRow

\* A worker whose own stage does not change keeps what it carries.
LEMMA CarriesKept ==
  ASSUME NEW w \in Workers, CarriesOK(w), TypeOK,
         pc'[w] = pc[w], job'[w] = job[w],
         published' \in Nat, published <= published',
         rows \cup gone \subseteq rows' \cup gone', Passed \subseteq Passed'
  PROVE  CarriesOK(w)'
<1>1. Known \subseteq Known' /\ \A k : HasRow(k) => HasRow(k)'
  BY KnownGrows
<1>2. job[w].to \in Nat /\ published \in Nat
  BY DEF TypeOK, Job, Positions
<1>3. QED BY <1>1, <1>2 DEF CarriesOK, Live, Sent

\* The rows a step takes away are remembered, and reports are never withdrawn.
LEMMA NothingForgotten ==
  ASSUME TypeOK, [Next]_vars
  PROVE  rows \cup gone \subseteq rows' \cup gone' /\ Passed \subseteq Passed'
<1>1. CASE \E w \in Workers : SyncRead(w) \/ SyncFetch(w) \/ Fail(w)
  BY <1>1 DEF SyncRead, SyncFetch, Fail, tables, told, Passed
<1>2. CASE \E w \in Workers, a \in Accounts : SyncPersist(w, a)
  BY <1>2 DEF SyncPersist, PersistBatch, Store, told, Passed
<1>3. CASE \E f \in Files : Upload(f)
  BY <1>3 DEF Upload, PersistBatch, Store, told, Passed
<1>4. CASE \E r \in rows : DeleteRow(r)
  BY <1>4 DEF DeleteRow, told, Passed
<1>5. CASE Publish \/ \E a \in Accounts : LinkAccount(a)
  BY <1>5 DEF Publish, LinkAccount, tables, told, Passed
<1>6. CASE UNCHANGED vars
  BY <1>6 DEF vars, tables, told, Passed
<1>7. CASE \E w \in Workers : SyncSave(w)
  BY <1>7 DEF SyncSave, TellUnlinked, tables, Passed
<1>8. QED BY <1>1, <1>2, <1>3, <1>4, <1>5, <1>6, <1>7 DEF Next, Proceed

\* A step that leaves the cursor and the workers alone: the bank announces,
\* users link, upload and delete.
LEMMA QuietStep ==
  ASSUME IngestInv, TypeOK', [Next]_vars,
         pc' = pc, job' = job, cursor' = cursor, published <= published'
  PROVE  SyncOK'
<1>1. rows \cup gone \subseteq rows' \cup gone' /\ Passed \subseteq Passed'
  BY NothingForgotten DEF IngestInv
<1>2. cursor \in Nat /\ published \in Nat /\ published' \in Nat
  BY DEF IngestInv, TypeOK, Positions
<1>3. \A w \in Workers : CarriesOK(w)'
  BY <1>1, <1>2, CarriesKept DEF IngestInv, SyncOK
<1>4. Live(cursor)' = Live(cursor)
  BY DEF Live, Sent
<1>5. Known \subseteq Known'
  BY <1>1, KnownGrows
<1>6. QED BY <1>2, <1>3, <1>4, <1>5 DEF IngestInv, SyncOK

LEMMA SyncReadOK ==
  ASSUME IngestInv, NEW w \in Workers, SyncRead(w)
  PROVE  SyncOK'
<1>1. UNCHANGED <<published, cursor, rows, gone, Passed, unmapped, dropped>>
  BY DEF SyncRead, tables, told, Passed
<1>2. cursor \in Nat /\ published \in Nat
  BY DEF IngestInv, TypeOK, Positions
<1>3. Live(cursor)' = Live(cursor) /\ Known' = Known
  BY <1>1 DEF Live, Sent, Known, Entered, Passed
<1>4. ASSUME NEW v \in Workers, v # w PROVE CarriesOK(v)'
  <2>1. pc'[v] = pc[v] /\ job'[v] = job[v]
    BY <1>4 DEF IngestInv, TypeOK, SyncRead
  <2>2. QED BY <1>1, <1>2, <2>1, CarriesKept DEF IngestInv, SyncOK
<1>5. CarriesOK(w)'
  <2>1. pc'[w] = "fetch" /\ job'[w].from = cursor /\ job'[w].to = cursor
    BY DEF IngestInv, TypeOK, SyncRead
  <2>2. Live(cursor) \subseteq Known' /\ cursor <= published'
    BY <1>1, <1>3 DEF IngestInv, SyncOK
  <2>3. QED BY <1>2, <2>1, <2>2 DEF CarriesOK, Live, Sent
<1>6. QED BY <1>1, <1>3, <1>4, <1>5 DEF IngestInv, SyncOK

LEMMA SyncFetchOK ==
  ASSUME IngestInv, NEW w \in Workers, SyncFetch(w)
  PROVE  SyncOK'
<1>1. UNCHANGED <<published, cursor, rows, gone, Passed, unmapped, dropped>>
  BY DEF SyncFetch, tables, told, Passed
<1>2. cursor \in Nat /\ published \in Nat
  BY DEF IngestInv, TypeOK, Positions
<1>3. Live(cursor)' = Live(cursor) /\ Known' = Known
  BY <1>1 DEF Live, Sent, Known, Entered, Passed
<1>4. ASSUME NEW v \in Workers, v # w PROVE CarriesOK(v)'
  <2>1. pc'[v] = pc[v] /\ job'[v] = job[v]
    BY <1>4 DEF IngestInv, TypeOK, SyncFetch
  <2>2. QED BY <1>1, <1>2, <2>1, CarriesKept DEF IngestInv, SyncOK
<1>5. CarriesOK(w)'
  <2>1. PICK j \in Job : j = job[w]
    BY DEF IngestInv, TypeOK
  <2>2. PICK to : to = WindowEnd(j.from)
    OBVIOUS
  <2>3. j.from <= published /\ Live(j.from) \subseteq Known
    <3>1. j.from <= j.to /\ j.to <= published /\ Live(j.from) \subseteq Known
      BY <2>1 DEF IngestInv, SyncOK, CarriesOK, SyncFetch
    <3>2. j.from \in Nat /\ j.to \in Nat
      BY DEF Job, Positions
    <3>3. QED BY <1>2, <3>1, <3>2
  <2>4. j.from <= to /\ to <= published
    BY <2>2, <2>3, WindowEndType DEF IngestInv, TypeOK, Job
  <2>5. /\ pc'[w] = "persist"
        /\ job'[w] = [j EXCEPT !.to = to,
             !.left = {a \in j.links : \E k \in Sent(j.from, to) : HomeOf[k] = a}]
    BY <2>1, <2>2 DEF IngestInv, TypeOK, SyncFetch
  <2>6. /\ job'[w].from = j.from /\ job'[w].to = to /\ job'[w].links = j.links
        /\ job'[w].left = {a \in j.links : \E k \in Sent(j.from, to) : HomeOf[k] = a}
    BY <2>5 DEF Job
  <2>7. \A k \in Sent(j.from, to) : HomeOf[k] \notin j.links \/ HomeOf[k] \in job'[w].left
    BY <2>6
  <2>8. QED BY <1>1, <1>3, <2>3, <2>4, <2>6, <2>7 DEF CarriesOK, Live, Sent
<1>6. QED BY <1>1, <1>3, <1>4, <1>5 DEF IngestInv, SyncOK

LEMMA SyncPersistOK ==
  ASSUME IngestInv, NEW w \in Workers, NEW a \in Accounts, SyncPersist(w, a)
  PROVE  SyncOK'
<1>1. UNCHANGED <<published, cursor, gone, pc, Passed, unmapped, dropped>>
  BY DEF SyncPersist, told, Passed
<1>2. cursor \in Nat /\ published \in Nat
  BY DEF IngestInv, TypeOK, Positions
<1>3. PICK j \in Job : j = job[w]
  BY DEF IngestInv, TypeOK
<1>4. PICK b \in Batch : b = SyncBatch(j, a)
  BY SyncBatchType
<1>5. rows' = rows \cup Copies(b)
  BY <1>3, <1>4, StoreStep DEF SyncPersist, IngestInv
<1>6. Known \subseteq Known' /\ \A k : HasRow(k) => HasRow(k)'
  BY <1>1, <1>5, KnownGrows
<1>7. Live(cursor)' = Live(cursor)
  BY <1>1 DEF Live, Sent
<1>8. ASSUME NEW v \in Workers, v # w PROVE CarriesOK(v)'
  <2>1. pc'[v] = pc[v] /\ job'[v] = job[v]
    BY <1>8 DEF IngestInv, TypeOK, SyncPersist
  <2>2. QED BY <1>1, <1>2, <1>5, <2>1, CarriesKept DEF IngestInv, SyncOK
<1>9. CarriesOK(w)'
  <2>1. pc[w] = "persist" /\ pc'[w] = "persist"
    BY <1>1 DEF SyncPersist
  <2>2. job'[w] = [j EXCEPT !.left = @ \ {a}]
    BY <1>3 DEF IngestInv, TypeOK, SyncPersist
  <2>3. /\ job'[w].from = j.from /\ job'[w].to = j.to /\ job'[w].links = j.links
        /\ job'[w].left = j.left \ {a}
    BY <2>2 DEF Job
  <2>4. /\ j.from <= j.to /\ j.to <= published /\ Live(j.from) \subseteq Known
        /\ \A k \in Sent(j.from, j.to) :
              HomeOf[k] \notin j.links \/ HomeOf[k] \in j.left \/ HasRow(k)
    BY <1>3, <2>1 DEF IngestInv, SyncOK, CarriesOK
  <2>5. ASSUME NEW k \in Sent(j.from, j.to), HomeOf[k] = a PROVE HasRow(k)'
    <3>1. k \in Keys
      BY SentHeard DEF Job
    <3>2. b[k] > 0
      BY <1>4, <2>5, <3>1, SyncBatchType
    <3>3. <<k, 0>> \in Copies(b)
      BY <3>1, <3>2, CopiesMember
    <3>4. QED BY <1>5, <3>3 DEF HasRow
  <2>6. \A k \in Sent(j.from, j.to) :
          HomeOf[k] \notin j.links \/ HomeOf[k] \in j.left \ {a} \/ HasRow(k)'
    BY <1>6, <2>4, <2>5
  <2>7. QED BY <1>1, <1>6, <2>1, <2>3, <2>4, <2>6 DEF CarriesOK, Live, Sent
<1>10. QED BY <1>1, <1>6, <1>7, <1>8, <1>9 DEF IngestInv, SyncOK

\* The step the argument is for: all before the window was known when the
\* cursor stood at its start, and all in it has been entered or is reported.
LEMMA SyncSaveOK ==
  ASSUME IngestInv, NEW w \in Workers, SyncSave(w)
  PROVE  SyncOK'
<1>1. UNCHANGED <<published, rows, gone>> /\ cursor' = job[w].to
  BY DEF SyncSave, tables
<1>2. PICK j \in Job : j = job[w]
  BY DEF IngestInv, TypeOK
<1>3. /\ j.from \in Positions /\ j.to \in Positions /\ 0 \in Positions
      /\ published \in Nat
  BY FeedType DEF Job, IngestInv, TypeOK, Positions
<1>4. /\ j.from <= j.to /\ j.to <= published /\ Live(j.from) \subseteq Known
      /\ \A k \in Sent(j.from, j.to) : HomeOf[k] \notin j.links \/ HasRow(k)
  BY <1>2 DEF IngestInv, SyncOK, CarriesOK, SyncSave
<1>5. /\ Passed' = Passed \cup Unlinked(j)
      /\ Unlinked(j) = {k \in Sent(j.from, j.to) : HomeOf[k] \notin j.links}
  BY <1>2 DEF SyncSave, TellUnlinked, Passed, Unlinked
<1>6. Known \subseteq Known' /\ \A k : HasRow(k) => HasRow(k)'
  BY <1>1, <1>5, KnownGrows
<1>7. Sent(j.from, j.to) \subseteq Known'
  <2>1. Sent(j.from, j.to) \subseteq FeedKeys
    BY <1>3, SentHeard
  <2>2. \A k \in Sent(j.from, j.to) :
          k \in Passed' \/ <<k, 0>> \in rows' \cup gone'
    BY <1>1, <1>4, <1>5 DEF HasRow
  <2>3. QED BY <2>1, <2>2 DEF Known, Entered
<1>8. Live(cursor)' \subseteq Known'
  <2>1. Sent(0, j.to) \subseteq Sent(0, j.from) \cup Sent(j.from, j.to)
    BY <1>3, <1>4, SentSplit
  <2>2. Sent(0, j.from) \subseteq Known'
    BY <1>4, <1>6 DEF Live
  <2>3. Live(cursor)' = Sent(0, j.to)
    BY <1>1, <1>2 DEF Live, Sent
  <2>4. QED BY <1>7, <2>1, <2>2, <2>3
<1>9. ASSUME NEW v \in Workers PROVE CarriesOK(v)'
  <2>1. CASE v # w
    <3>1. pc'[v] = pc[v] /\ job'[v] = job[v]
      BY <2>1 DEF IngestInv, TypeOK, SyncSave
    <3>2. QED BY <1>1, <1>3, <1>5, <3>1, CarriesKept DEF IngestInv, SyncOK
  <2>2. CASE v = w
    BY <2>2 DEF IngestInv, TypeOK, SyncSave, CarriesOK
  <2>3. QED BY <2>1, <2>2
<1>10. QED BY <1>1, <1>2, <1>4, <1>8, <1>9 DEF SyncOK

LEMMA FailOK ==
  ASSUME IngestInv, NEW w \in Workers, Fail(w)
  PROVE  SyncOK'
<1>1. UNCHANGED <<published, cursor, rows, gone, Passed, unmapped, dropped>>
  BY DEF Fail, tables, told, Passed
<1>2. cursor \in Nat /\ published \in Nat
  BY DEF IngestInv, TypeOK, Positions
<1>3. Live(cursor)' = Live(cursor) /\ Known' = Known
  BY <1>1 DEF Live, Sent, Known, Entered, Passed
<1>4. ASSUME NEW v \in Workers PROVE CarriesOK(v)'
  <2>1. CASE v # w
    <3>1. pc'[v] = pc[v] /\ job'[v] = job[v]
      BY <2>1 DEF IngestInv, TypeOK, Fail
    <3>2. QED BY <1>1, <1>2, <3>1, CarriesKept DEF IngestInv, SyncOK
  <2>2. CASE v = w
    BY <2>2 DEF IngestInv, TypeOK, Fail, CarriesOK
  <2>3. QED BY <2>1, <2>2
<1>5. QED BY <1>1, <1>3, <1>4 DEF IngestInv, SyncOK

LEMMA StepOK == IngestInv /\ [Next]_vars => IngestInv'
<1> SUFFICES ASSUME IngestInv, [Next]_vars PROVE IngestInv'
  OBVIOUS
<1>1. TypeOK'
  BY StepType DEF IngestInv
<1>2. SyncOK'
  <2>1. ASSUME NEW w \in Workers, SyncRead(w) PROVE SyncOK'
    BY <2>1, SyncReadOK
  <2>2. ASSUME NEW w \in Workers, SyncFetch(w) PROVE SyncOK'
    BY <2>2, SyncFetchOK
  <2>3. ASSUME NEW w \in Workers, NEW a \in Accounts, SyncPersist(w, a) PROVE SyncOK'
    BY <2>3, SyncPersistOK
  <2>4. ASSUME NEW w \in Workers, SyncSave(w) PROVE SyncOK'
    BY <2>4, SyncSaveOK
  <2>5. ASSUME NEW w \in Workers, Fail(w) PROVE SyncOK'
    BY <2>5, FailOK
  <2>6. ASSUME \/ Publish
               \/ \E a \in Accounts : LinkAccount(a)
               \/ \E f \in Files : Upload(f)
               \/ \E r \in rows : DeleteRow(r)
               \/ UNCHANGED vars
        PROVE  SyncOK'
    <3>1. published \in Nat
      BY DEF IngestInv, TypeOK, Positions
    <3>2. pc' = pc /\ job' = job /\ cursor' = cursor /\ published <= published'
      BY <2>6, <3>1 DEF Publish, LinkAccount, Upload, DeleteRow, vars
    <3>3. QED BY <1>1, <3>2, QuietStep
  <2>7. CASE UNCHANGED vars
    BY <2>6, <2>7
  <2>8. CASE Next
    BY <2>1, <2>2, <2>3, <2>4, <2>5, <2>6, <2>8 DEF Next, Proceed
  <2>9. QED BY <2>7, <2>8
<1>3. QED BY <1>1, <1>2 DEF IngestInv

(***************************************************************************)
(* The tables and what every sync carries between its statements keep      *)
(* their types.                                                            *)
(***************************************************************************)
THEOREM IngestTypeCorrect == Spec => []TypeOK
<1>1. Init => TypeOK
  BY InitOK DEF IngestInv
<1>2. TypeOK /\ [Next]_vars => TypeOK'
  BY StepType
<1>3. QED BY <1>1, <1>2, PTL DEF Spec

(***************************************************************************)
(* However many syncs overlap, fail half way and overwrite each other's    *)
(* cursor, the cursor never passes a transaction but one entered or of an  *)
(* account a finished sync had read as not linked.                         *)
(***************************************************************************)
THEOREM IngestSafe == Spec => []NothingSkipped
<1>1. IngestInv => NothingSkipped
  BY DEF IngestInv, SyncOK, NothingSkipped, Known
<1>2. QED BY InitOK, StepOK, <1>1, PTL DEF Spec

(***************************************************************************)
(* Copies.  Membership is easier to keep than the counted form.            *)
(***************************************************************************)
CopiesIff ==
    \A k \in Keys, n \in Nat : <<k, n>> \in rows \cup gone <=> n < most[k]

LEMMA PersistCopies ==
  ASSUME TypeOK, CopiesIff, NEW batch \in Batch, PersistBatch(batch), gone' = gone
  PROVE  CopiesIff'
<1>1. rows' = rows \cup Copies(batch)
  BY StoreStep
<1>2. SUFFICES ASSUME NEW k \in Keys, NEW n \in Nat
              PROVE  <<k, n>> \in rows' \cup gone' <=> n < most'[k]
  BY DEF CopiesIff
<1>3. most[k] \in Nat /\ batch[k] \in Nat
  BY DEF TypeOK, Batch
<1>4. most'[k] = IF batch[k] > most[k] THEN batch[k] ELSE most[k]
  BY DEF PersistBatch, Store
<1>5. <<k, n>> \in Copies(batch) <=> n < batch[k]
  BY CopiesMember
<1>6. <<k, n>> \in rows \cup gone <=> n < most[k]
  BY DEF CopiesIff
<1>7. <<k, n>> \in rows' \cup gone' <=> n < most[k] \/ n < batch[k]
  BY <1>1, <1>5, <1>6
<1>8. QED BY <1>3, <1>4, <1>7

LEMMA StepCopies == TypeOK /\ CopiesIff /\ [Next]_vars => CopiesIff'
<1> SUFFICES ASSUME TypeOK, CopiesIff, [Next]_vars PROVE CopiesIff'
  OBVIOUS
<1>1. ASSUME NEW w \in Workers, NEW a \in Accounts, SyncPersist(w, a) PROVE CopiesIff'
  <2>1. PICK j \in Job : j = job[w]
    BY DEF TypeOK
  <2>2. PICK b \in Batch : b = SyncBatch(j, a)
    BY SyncBatchType
  <2>3. QED BY <1>1, <2>1, <2>2, PersistCopies DEF SyncPersist
<1>2. ASSUME NEW f \in Files, Upload(f) PROVE CopiesIff'
  <2>1. f \in Batch
    BY IngestConstantsOK
  <2>2. QED BY <1>2, <2>1, PersistCopies DEF Upload
<1>3. ASSUME NEW r \in rows, DeleteRow(r) PROVE CopiesIff'
  <2>1. rows' \cup gone' = rows \cup gone /\ most' = most
    BY <1>3 DEF DeleteRow
  <2>2. QED BY <2>1 DEF CopiesIff
<1>4. ASSUME \/ \E w \in Workers : SyncRead(w) \/ SyncFetch(w) \/ SyncSave(w) \/ Fail(w)
             \/ Publish
             \/ \E a \in Accounts : LinkAccount(a)
             \/ UNCHANGED vars
      PROVE  CopiesIff'
  <2>1. UNCHANGED <<rows, gone, most>>
    BY <1>4 DEF SyncRead, SyncFetch, SyncSave, Fail, Publish, LinkAccount, vars, tables
  <2>2. QED BY <2>1 DEF CopiesIff
<1>5. CASE UNCHANGED vars
  BY <1>4, <1>5
<1>6. CASE Next
  BY <1>1, <1>2, <1>3, <1>4, <1>6 DEF Next, Proceed
<1>7. QED BY <1>5, <1>6

(***************************************************************************)
(* A key has as many rows as the batch that held most of it, in whatever   *)
(* order files and windows arrive and however often they do.               *)
(***************************************************************************)
THEOREM IngestCopies == Spec => []CopiesExact
<1>1. Init => TypeOK /\ CopiesIff
  BY InitOK DEF IngestInv, Init, CopiesIff
<1>2. TypeOK /\ CopiesIff => CopiesExact
  <2> SUFFICES ASSUME TypeOK, CopiesIff, NEW k \in Keys
               PROVE  {r[2] : r \in {x \in rows \cup gone : x[1] = k}}
                        = 0 .. (most[k] - 1)
    BY DEF CopiesExact
  <2>1. most[k] \in Nat /\ rows \cup gone \subseteq Keys \X Nat
    BY DEF TypeOK, Batch
  <2>2. ASSUME NEW r \in rows \cup gone, r[1] = k PROVE r[2] \in 0 .. (most[k] - 1)
    <3>1. r = <<k, r[2]>> /\ r[2] \in Nat
      BY <2>1, <2>2
    <3>2. r[2] < most[k]
      BY <3>1 DEF CopiesIff
    <3>3. QED BY <2>1, <3>1, <3>2
  <2>3. ASSUME NEW n \in 0 .. (most[k] - 1)
        PROVE  \E r \in rows \cup gone : r[1] = k /\ r[2] = n
    <3>1. n \in Nat /\ n < most[k]
      BY <2>1
    <3>2. <<k, n>> \in rows \cup gone
      BY <3>1 DEF CopiesIff
    <3>3. QED BY <3>2
  <2>4. QED BY <2>2, <2>3
<1>3. QED BY <1>1, <1>2, StepType, StepCopies, PTL DEF Spec

(***************************************************************************)
(* Refinement.  Nothing is known but what the bank has announced.          *)
(***************************************************************************)
KnownHeard ==
    /\ \A r \in rows \cup gone :
         r[1] \in FeedKeys => r[1] \in Ledger!Mentioned(published)
    /\ Passed \subseteq Ledger!Mentioned(published)

LEMMA MentionedGrows ==
  ASSUME NEW m \in Positions, NEW n \in Positions, m <= n
  PROVE  Ledger!Mentioned(m) \subseteq Ledger!Mentioned(n)
  BY DEF Ledger!Mentioned, Positions

LEMMA StepHeard == IngestInv /\ KnownHeard /\ [Next]_vars => KnownHeard'
<1> SUFFICES ASSUME IngestInv, KnownHeard, [Next]_vars PROVE KnownHeard'
  OBVIOUS
<1>0. published \in Positions
  BY DEF IngestInv, TypeOK
<1>1. ASSUME NEW w \in Workers, NEW a \in Accounts, SyncPersist(w, a) PROVE KnownHeard'
  <2>1. PICK j \in Job : j = job[w]
    BY DEF IngestInv, TypeOK
  <2>2. PICK b \in Batch : b = SyncBatch(j, a)
    BY SyncBatchType
  <2>3. rows' = rows \cup Copies(b) /\ UNCHANGED <<published, gone, Passed>>
    BY <1>1, <2>1, <2>2, StoreStep DEF SyncPersist, IngestInv, told, Passed
  <2>4. j.from \in Positions /\ j.to \in Positions /\ j.to <= published
    BY <1>1, <2>1 DEF IngestInv, SyncOK, CarriesOK, SyncPersist, Job
  <2>5. Sent(j.from, j.to) \subseteq Ledger!Mentioned(published)
    BY <1>0, <2>4, SentHeard
  <2>6. ASSUME NEW r \in Copies(b) PROVE r[1] \in Sent(j.from, j.to)
    <3>1. r \in Keys \X Nat /\ r = <<r[1], r[2]>> /\ r[1] \in Keys /\ r[2] \in Nat
      BY CopiesMember
    <3>2. r[2] < b[r[1]] /\ b[r[1]] \in Nat
      BY <3>1, CopiesMember DEF Batch
    <3>3. b[r[1]] > 0
      BY <3>1, <3>2
    <3>4. QED BY <2>2, <3>1, <3>3, SyncBatchType
  <2>7. QED BY <2>3, <2>5, <2>6 DEF KnownHeard, Ledger!Mentioned
<1>2. ASSUME NEW f \in Files, Upload(f) PROVE KnownHeard'
  <2>1. f \in Batch /\ \A k \in FeedKeys : f[k] = 0
    BY IngestConstantsOK
  <2>2. rows' = rows \cup Copies(f) /\ UNCHANGED <<published, gone, Passed>>
    BY <1>2, <2>1, StoreStep DEF Upload, IngestInv, told, Passed
  <2>3. ASSUME NEW r \in Copies(f) PROVE r[1] \notin FeedKeys
    <3>1. r = <<r[1], r[2]>> /\ r[1] \in Keys /\ r[2] \in Nat
      BY <2>1, CopiesMember
    <3>2. r[2] < f[r[1]]
      BY <2>1, <3>1, CopiesMember
    <3>3. QED BY <2>1, <3>1, <3>2
  <2>4. QED BY <2>2, <2>3 DEF KnownHeard, Ledger!Mentioned
<1>3. ASSUME NEW w \in Workers, SyncSave(w) PROVE KnownHeard'
  <2>1. PICK j \in Job : j = job[w]
    BY DEF IngestInv, TypeOK
  <2>2. j.from \in Positions /\ j.to \in Positions /\ j.to <= published
    BY <1>3, <2>1 DEF IngestInv, SyncOK, CarriesOK, SyncSave, Job
  <2>3. Sent(j.from, j.to) \subseteq Ledger!Mentioned(published)
    BY <1>0, <2>2, SentHeard
  <2>4. Passed' = Passed \cup Unlinked(j) /\ Unlinked(j) \subseteq Sent(j.from, j.to)
    BY <1>3, <2>1 DEF SyncSave, TellUnlinked, Passed, Unlinked
  <2>5. QED BY <1>3, <2>3, <2>4 DEF SyncSave, tables, KnownHeard, Ledger!Mentioned
<1>4. CASE Publish
  <2>1. published' \in Positions /\ published <= published'
    BY <1>0, <1>4, FeedType DEF Publish, Positions
  <2>2. Ledger!Mentioned(published) \subseteq Ledger!Mentioned(published')
    BY <1>0, <2>1, MentionedGrows
  <2>3. QED BY <1>4, <2>2 DEF Publish, tables, told, Passed, KnownHeard, Ledger!Mentioned
<1>5. ASSUME NEW r \in rows, DeleteRow(r) PROVE KnownHeard'
  BY <1>5 DEF DeleteRow, told, Passed, KnownHeard, Ledger!Mentioned
<1>6. ASSUME \/ \E w \in Workers : SyncRead(w) \/ SyncFetch(w) \/ Fail(w)
             \/ \E a \in Accounts : LinkAccount(a)
             \/ UNCHANGED vars
      PROVE  KnownHeard'
  <2>1. UNCHANGED <<rows, gone, Passed, published>>
    BY <1>6 DEF SyncRead, SyncFetch, Fail, LinkAccount, vars, tables, told, Passed
  <2>2. QED BY <2>1 DEF KnownHeard, Ledger!Mentioned
<1>7. CASE UNCHANGED vars
  BY <1>6, <1>7
<1>8. CASE Next
  BY <1>1, <1>2, <1>3, <1>4, <1>5, <1>6, <1>8 DEF Next, Proceed
<1>9. QED BY <1>7, <1>8

\* An account that is open stays so: a sync that begins reads its link.
LEMMA OpenGrows ==
  ASSUME TypeOK, [Next]_vars
  PROVE  Open \subseteq Open'
<1>1. ASSUME NEW w \in Workers, SyncRead(w) PROVE Open \subseteq Open'
  <2>1. links' = links /\ job'[w].links = links
    BY <1>1 DEF TypeOK, SyncRead
  <2>2. \A v \in Workers : v # w => pc'[v] = pc[v] /\ job'[v] = job[v]
    BY <1>1 DEF TypeOK, SyncRead
  <2>3. QED BY <2>1, <2>2 DEF Open
<1>2. ASSUME NEW w \in Workers, SyncFetch(w) PROVE Open \subseteq Open'
  <2>1. links' = links /\ pc[w] = "fetch" /\ job'[w].links = job[w].links
    BY <1>2 DEF TypeOK, SyncFetch, Job
  <2>2. \A v \in Workers : v # w => pc'[v] = pc[v] /\ job'[v] = job[v]
    BY <1>2 DEF TypeOK, SyncFetch
  <2>3. QED BY <2>1, <2>2 DEF Open
<1>3. ASSUME NEW w \in Workers, NEW a \in Accounts, SyncPersist(w, a)
      PROVE  Open \subseteq Open'
  <2>1. PICK j \in Job : j = job[w]
    BY DEF TypeOK
  <2>2. links' = links /\ pc' = pc /\ job' = [job EXCEPT ![w] = [j EXCEPT !.left = @ \ {a}]]
    BY <1>3, <2>1 DEF SyncPersist
  <2>3. [j EXCEPT !.left = @ \ {a}].links = j.links
    BY DEF Job
  <2>4. \A v \in Workers : job'[v].links = job[v].links
    BY <2>1, <2>2, <2>3 DEF TypeOK
  <2>5. QED BY <2>2, <2>4 DEF Open
<1>4. ASSUME NEW w \in Workers, SyncSave(w) \/ Fail(w) PROVE Open \subseteq Open'
  <2>1. links' = links /\ pc'[w] = "idle"
    BY <1>4 DEF TypeOK, SyncSave, Fail
  <2>2. \A v \in Workers : v # w => pc'[v] = pc[v] /\ job'[v] = job[v]
    BY <1>4 DEF TypeOK, SyncSave, Fail
  <2>3. QED BY <2>1, <2>2 DEF Open
<1>5. ASSUME \/ Publish
             \/ \E a \in Accounts : LinkAccount(a)
             \/ \E f \in Files : Upload(f)
             \/ \E r \in rows : DeleteRow(r)
             \/ UNCHANGED vars
      PROVE  Open \subseteq Open'
  <2>1. links \subseteq links' /\ pc' = pc /\ job' = job
    BY <1>5 DEF Publish, LinkAccount, Upload, DeleteRow, vars
  <2>2. QED BY <2>1 DEF Open
<1>6. CASE UNCHANGED vars
  BY <1>5, <1>6
<1>7. CASE Next
  BY <1>1, <1>2, <1>3, <1>4, <1>5, <1>7 DEF Next, Proceed
<1>8. QED BY <1>6, <1>7

\* The next-state relation of FeedLedger allows every step.
LedgerStep == [Ledger!LedgerNext]_<<published, cursor, Entered, Passed, Open>>

LEMMA StepMaps ==
  ASSUME IngestInv, KnownHeard, IngestInv', KnownHeard', [Next]_vars
  PROVE  LedgerStep
<1>1. Entered \subseteq Entered' /\ Passed \subseteq Passed' /\ Open \subseteq Open'
  BY NothingForgotten, OpenGrows DEF IngestInv, Entered
<1>2. /\ Entered' \subseteq Ledger!Mentioned(published')
      /\ Passed' \subseteq Ledger!Mentioned(published')
  BY DEF KnownHeard, Entered, Ledger!Mentioned
<1>3. CASE Publish
  <2>1. UNCHANGED <<Entered, Passed, Open>>
    BY <1>3 DEF Publish, tables, told, Entered, Passed, Open
  <2>2. Ledger!Announce
    BY <1>3, <2>1 DEF Publish, Ledger!Announce
  <2>3. QED BY <2>2 DEF Ledger!LedgerNext, LedgerStep
<1>4. ASSUME NEW w \in Workers, SyncSave(w) PROVE LedgerStep
  <2>1. published' = published /\ Entered' = Entered
    BY <1>4 DEF SyncSave, tables, Entered
  <2>2. cursor' \in 0 .. published
    BY <2>1 DEF IngestInv, TypeOK, SyncOK, Positions
  <2>3. Ledger!Sent(0, cursor') \subseteq Entered' \cup Passed'
    BY DEF IngestInv, SyncOK, Live, Sent, Ledger!Sent, Known
  <2>4. ASSUME NEW k \in Passed' \ Passed PROVE HomeOf[k] \notin Open
    <3>1. k \in Unlinked(job[w]) /\ pc[w] = "persist"
      BY <1>4, <2>4 DEF SyncSave, TellUnlinked, Passed
    <3>2. HomeOf[k] \notin job[w].links
      BY <3>1 DEF Unlinked
    <3>3. QED BY <3>1, <3>2 DEF Open
  <2>5. Ledger!Resume
    BY <1>1, <1>2, <2>1, <2>2, <2>3, <2>4 DEF Ledger!Resume, Ledger!Mentioned
  <2>6. QED BY <2>5 DEF Ledger!LedgerNext, LedgerStep
<1>5. ASSUME UNCHANGED <<published, cursor, Passed>> PROVE LedgerStep
  <2>1. Ledger!Enter
    BY <1>1, <1>2, <1>5 DEF Ledger!Enter, Ledger!Mentioned
  <2>2. QED BY <2>1 DEF Ledger!LedgerNext, LedgerStep
<1>6. ASSUME \/ \E w \in Workers : SyncRead(w) \/ SyncFetch(w) \/ Fail(w)
             \/ \E w \in Workers, a \in Accounts : SyncPersist(w, a)
             \/ \E a \in Accounts : LinkAccount(a)
             \/ \E f \in Files : Upload(f)
             \/ \E r \in rows : DeleteRow(r)
             \/ UNCHANGED vars
      PROVE  UNCHANGED <<published, cursor, Passed>>
  BY <1>6 DEF SyncRead, SyncFetch, Fail, SyncPersist, LinkAccount, Upload,
              DeleteRow, vars, told, Passed
<1>7. CASE UNCHANGED vars
  BY <1>5, <1>6, <1>7
<1>8. CASE Next
  BY <1>3, <1>4, <1>5, <1>6, <1>8 DEF Next, Proceed
<1>9. QED BY <1>7, <1>8

(***************************************************************************)
(* Synchronisation, with its windows, overlaps, failures and shared        *)
(* cursor, implements the ledger that enters what the bank announces and   *)
(* resumes only from where all is entered or was of no open account.       *)
(***************************************************************************)
THEOREM IngestImplements == Spec => ImplementsLedger
<1>1. Init => IngestInv /\ KnownHeard /\ Ledger!LedgerInit
  BY InitOK DEF Init, KnownHeard, Ledger!LedgerInit, Entered, Passed, Open
<1>2. IngestInv /\ KnownHeard /\ [Next]_vars => IngestInv' /\ KnownHeard'
  BY StepOK, StepHeard
<1>3. /\ IngestInv /\ KnownHeard /\ IngestInv' /\ KnownHeard' /\ [Next]_vars
      => [Ledger!LedgerNext]_<<published, cursor, Entered, Passed, Open>>
  BY StepMaps DEF LedgerStep
<1>4. QED
  BY <1>1, <1>2, <1>3, PTL DEF Spec, ImplementsLedger, Ledger!LedgerSpec
=============================================================================
