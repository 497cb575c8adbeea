------------------------------- MODULE Backups -------------------------------
(***************************************************************************)
(* Backups and restore (domain/backup-runner.ts, backup-scheduler.ts,      *)
(* routes/backups.ts) beside the uploads and deletions of the attachments  *)
(* they must save.  A run dumps the database and then packs the directory  *)
(* of attachments, so the two copies are of different moments; a restore   *)
(* brings both back, and the table of backups with them.                   *)
(***************************************************************************)
EXTENDS Integers, FiniteSets

CONSTANTS
    Runs,          \* rows of the backups table, each with the run that writes it
    Files,         \* attachments
    Retention,     \* BACKUP_RETENTION_DAYS
    MaxDay,        \* bound: the clock
    MaxRestores,   \* bound: restores ever begun
    MaxRemovals    \* bound: prunes and deletions by hand

BackupsOK ==
    /\ Retention \in Nat \ {0}    \* pruneOldBackups returns on any other
    /\ MaxDay \in Nat \ {0} /\ MaxRestores \in Nat /\ MaxRemovals \in Nat
    /\ "admin" \notin Runs

NoRow == [status |-> "none", kind |-> "none", at |-> 0, end |-> 0]
NoTable == [x \in Runs |-> NoRow]
NoCopy == [dumped |-> FALSE, rows |-> {}, table |-> NoTable, packed |-> FALSE, files |-> {}]

VARIABLES
    today,
    known,         \* attachment rows of the database
    stored,        \* files in the attachments directory
    uploading,     \* files whose row is still to be inserted
    backups,       \* the table
    dirs, copy,    \* the directories of backups there are, and what is in them
    stage,         \* of each run: 0 before it, 1 and 2 a part to save, 3 the row, 4 after it
    removing,      \* what a prune or a DELETE still has to remove
    asked,         \* runs whose restore was asked for and found in order
    restoring,     \* restores, by number and run, whose files are still to come
    holes,         \* history, by run: rows it saved without their file
    excused,       \* history: rows that came back, or came in, without a file
    restores,      \* how many have begun
    removals       \* how often an administrator has removed any
vars == <<today, known, stored, uploading, backups, dirs, copy, stage, removing, asked, restoring,
          holes, excused, restores, removals>>
steady == <<asked, restoring, holes, excused, restores, removals>>

\* A run prunes after it; one more caller prunes or deletes by hand.
Removers == Runs \cup {"admin"}

\* A mutant of Parts: the files are packed first.
PartsSwapped == <<"files", "rows">>

\* What a run saves, in this order.
Parts == <<"rows", "files">>
Begun(x) == stage[x] # 0
Live(x) == stage[x] \in 1..3
Restorable(x) == backups[x].status = "success" /\ x \in dirs /\ copy[x].dumped

TypeOK ==
    /\ today \in 1..MaxDay /\ known \cup stored \cup uploading \cup excused \subseteq Files
    /\ \A x \in Runs :
         /\ backups[x].status \in {"none", "running", "success", "failed", "deleted"}
         /\ backups[x].at <= today /\ backups[x].end <= today
         /\ ~Begun(x) => x \notin dirs /\ backups[x] = NoRow /\ copy[x] = NoCopy
         /\ backups[x].status = "success" => copy[x].dumped
    /\ \A p \in Removers : \A x \in removing[p] : Begun(x)

Init ==
    /\ today = 1 /\ known = {} /\ stored = {} /\ uploading = {}
    /\ backups = NoTable /\ dirs = {} /\ copy = [x \in Runs |-> NoCopy]
    /\ stage = [x \in Runs |-> 0] /\ removing = [p \in Removers |-> {}]
    /\ asked = {} /\ restoring = {} /\ holes = [x \in Runs |-> {}] /\ excused = {}
    /\ restores = 0 /\ removals = 0

-----------------------------------------------------------------------------
(* The attachments that come and go.                                       *)

\* The file, under a name of its own, is written first and the row inserted
\* after it.
Upload(f) ==
    /\ f \notin known \cup uploading \cup UNION {copy[x].rows : x \in Runs}
    /\ stored' = stored \cup {f} /\ uploading' = uploading \cup {f}
    /\ excused' = excused \ {f}
    /\ UNCHANGED <<today, known, backups, dirs, copy, stage, removing, asked, restoring, holes, restores, removals>>

UploadRow(f) ==
    /\ f \in uploading /\ uploading' = uploading \ {f}
    /\ known' = known \cup {f}
    /\ excused' = IF restoring = {} THEN excused ELSE excused \cup {f}
    /\ UNCHANGED <<today, stored, backups, dirs, copy, stage, removing, asked, restoring, holes, restores, removals>>

Remove(f) ==
    /\ f \in known
    /\ known' = known \ {f} /\ stored' = stored \ {f}
    /\ holes' = [x \in Runs |-> IF stage[x] = 2 THEN holes[x] \cup {f} ELSE holes[x]]
    /\ UNCHANGED <<today, uploading, backups, dirs, copy, stage, removing, asked, restoring, excused, restores, removals>>

-----------------------------------------------------------------------------
(* A run.                                                                  *)

\* mkdir and INSERT.
Begin(x, kind) ==
    /\ ~Begun(x)
    /\ backups' = [backups EXCEPT ![x] =
                     [status |-> "running", kind |-> kind, at |-> today, end |-> 0]]
    /\ dirs' = dirs \cup {x}
    /\ stage' = [stage EXCEPT ![x] = 1]
    /\ UNCHANGED <<today, known, stored, uploading, copy, removing>> /\ UNCHANGED steady

Succeeded == {x \in Runs : backups[x].status = "success" /\ backups[x].kind = "scheduled"}

\* A tick at or after the time of day, BACKUP_FREQUENCY daily.
Tick(x) == (\A y \in Succeeded : today - backups[y].end >= 1) /\ Begin(x, "scheduled")
Manual(x) == Begin(x, "manual")

\* pg_dump takes one snapshot of all tables; tar the files there are.
Save(x) ==
    /\ stage[x] \in {1, 2} /\ x \in dirs
    /\ copy' = [copy EXCEPT ![x] =
                  IF Parts[stage[x]] = "rows"
                  THEN [@ EXCEPT !.dumped = TRUE, !.rows = known, !.table = backups]
                  ELSE [@ EXCEPT !.packed = TRUE, !.files = stored]]
    /\ stage' = [stage EXCEPT ![x] = @ + 1]
    /\ holes' = [holes EXCEPT ![x] = IF restoring = {} THEN @ \cup excused ELSE Files]
    /\ UNCHANGED <<today, known, stored, uploading, backups, dirs, removing,
                   asked, restoring, excused, restores, removals>>

\* A failure of tar is swallowed.
TarFails(x) ==
    /\ stage[x] \in {1, 2} /\ Parts[stage[x]] = "files" /\ x \in dirs
    /\ stage' = [stage EXCEPT ![x] = @ + 1]
    /\ UNCHANGED <<today, known, stored, uploading, backups, dirs, copy, removing>> /\ UNCHANGED steady

\* What a prune selects.
Stale == {y \in Runs : backups[y].status = "success" /\ today - backups[y].at > Retention}

\* The UPDATE of the row, if a restore has left it, at the end of a run.
Ended(x, status) ==
    /\ backups' = IF backups[x] = NoRow THEN backups
                  ELSE [backups EXCEPT ![x].status = status, ![x].end = today]
    /\ stage' = [stage EXCEPT ![x] = 4]
    /\ UNCHANGED <<today, known, stored, uploading, dirs, copy>> /\ UNCHANGED steady

\* A scheduled run that succeeded, and got its row back, goes on to prune.
Finish(x) ==
    /\ stage[x] = 3 /\ Ended(x, "success")
    /\ removing' = IF backups[x].kind = "scheduled"
                   THEN [removing EXCEPT ![x] = Stale] ELSE removing

\* A mutant of Fail: the tick prunes whatever the run's status.
FailPrune(x) ==
    /\ Live(x) /\ Ended(x, "failed")
    /\ removing' = IF backups[x].kind = "scheduled"
                   THEN [removing EXCEPT ![x] = Stale] ELSE removing

\* pg_dump, a write or the UPDATE throws.
Fail(x) == Live(x) /\ Ended(x, "failed") /\ UNCHANGED removing

-----------------------------------------------------------------------------
(* Removing backups.                                                       *)

\* POST /api/backups/prune, and DELETE /api/backups/:id whatever its status.
AdminRemoves(S) ==
    /\ removing["admin"] = {} /\ S # {}
    /\ S = Stale \/ \E y \in Runs : backups[y].status \notin {"none", "deleted"} /\ S = {y}
    /\ removing' = [removing EXCEPT !["admin"] = S]
    /\ removals < MaxRemovals /\ removals' = removals + 1
    /\ UNCHANGED <<today, known, stored, uploading, backups, dirs, copy, stage, asked, restoring, holes, excused, restores>>

\* rm -r of the directory.
RemoveDir(p, y) ==
    /\ y \in removing[p] \cap dirs /\ dirs' = dirs \ {y}
    /\ UNCHANGED <<today, known, stored, uploading, backups, copy, stage, removing>> /\ UNCHANGED steady

\* The UPDATE after it.
MarkDeleted(p, y) ==
    /\ y \in removing[p] \ dirs
    /\ backups' = IF backups[y] = NoRow THEN backups ELSE [backups EXCEPT ![y].status = "deleted"]
    /\ removing' = [removing EXCEPT ![p] = @ \ {y}]
    /\ UNCHANGED <<today, known, stored, uploading, dirs, copy, stage>> /\ UNCHANGED steady

-----------------------------------------------------------------------------
(* Restoring.                                                              *)

\* POST /api/backups/:id/restore: the row says "success", the dump is there.
AskRestore(x) ==
    /\ Restorable(x) /\ restores < MaxRestores
    /\ asked' = asked \cup {x}
    /\ UNCHANGED <<today, known, stored, uploading, backups, dirs, copy, stage, removing, restoring, holes, excused, restores, removals>>

\* pg_restore begins, whatever has happened since.  Others may have asked for
\* the same, so x stays.  A backup under way saves neither what was nor what
\* will be.
Restore(x) ==
    /\ x \in asked \cap dirs /\ UNCHANGED asked
    /\ restores < MaxRestores /\ restores' = restores + 1
    /\ holes' = [y \in Runs |-> IF Live(y) THEN Files ELSE holes[y]]
    /\ UNCHANGED <<today, stored, uploading, dirs, copy, stage, removing, removals>>

\* pg_restore --clean: every table is as the dump saw it.  Nothing keeps it
\* from running beside another restore.
RestoreRows(x) ==
    /\ Restore(x)
    /\ known' = copy[x].rows /\ backups' = copy[x].table
    /\ restoring' = restoring \cup {<<restores', x>>}
    /\ excused' = IF copy[x].packed THEN holes[x] ELSE known'

\* pg_restore goes on past an error and then fails, or dies: each table is as
\* it was, as the dump saw it or empty, and the files are not reached.
RestoreFails(x) ==
    /\ Restore(x)
    /\ known' \in {known, copy[x].rows, {}}
    /\ backups' \in {backups, copy[x].table, NoTable}
    /\ excused' = IF known' = known THEN excused ELSE known' \cup (excused \cap uploading)
    /\ UNCHANGED restoring

\* The restore numbered n brings the files of the rows there are, or it is
\* not the last and the last is still to bring its own.
Matches(n) == n = restores \/ \E e \in restoring : e[1] = restores

\* rm -r of the attachments directory and tar -x, the failure of which is a
\* warning; without an archive, or with the backup removed meanwhile, the
\* directory is left as it is.
RestoreFiles(n, x) ==
    /\ <<n, x>> \in restoring /\ restoring' = restoring \ {<<n, x>>}
    /\ \/ /\ x \in dirs /\ copy[x].packed
          /\ \/ /\ stored' = copy[x].files
                /\ excused' = IF Matches(n) THEN excused \cup uploading
                              ELSE known \cup uploading
             \/ stored' = {} /\ excused' = known \cup uploading
       \/ /\ ~(x \in dirs /\ copy[x].packed)
          /\ UNCHANGED stored /\ excused' = known \cup uploading
    /\ UNCHANGED <<today, known, uploading, backups, dirs, copy, stage, removing, asked, holes, restores, removals>>

\* The server stops: rows stay "running", removals and restores halfway.
Crash ==
    /\ \/ \E x \in Runs : Live(x)
       \/ \E p \in Removers : removing[p] # {}
       \/ restoring # {}
    /\ stage' = [x \in Runs |-> IF Begun(x) THEN 4 ELSE 0]
    /\ removing' = [p \in Removers |-> {}]
    /\ asked' = {} /\ restoring' = {} /\ uploading' = {}
    /\ IF restoring = {} THEN UNCHANGED <<stored, excused>>
       ELSE stored' \in {stored, {}} /\ excused' = known
    /\ UNCHANGED <<today, known, backups, dirs, copy, holes, restores, removals>>

\* Bound: a run takes less than a day.
Tomorrow ==
    /\ today < MaxDay /\ today' = today + 1
    /\ \A x \in Runs : Live(x) /\ backups[x] # NoRow => backups[x].at = today
    /\ UNCHANGED <<known, stored, uploading, backups, dirs, copy, stage, removing>> /\ UNCHANGED steady

Next ==
    \/ \E f \in Files : Upload(f) \/ UploadRow(f) \/ Remove(f)
    \/ \E x \in Runs :
         \/ Tick(x) \/ Manual(x) \/ Save(x) \/ TarFails(x) \/ Finish(x) \/ Fail(x)
         \/ AskRestore(x) \/ RestoreRows(x) \/ RestoreFails(x)
         \/ \E n \in 1..MaxRestores : RestoreFiles(n, x)
    \/ \E S \in SUBSET Runs : AdminRemoves(S)
    \/ \E p \in Removers : \E y \in removing[p] : RemoveDir(p, y) \/ MarkDeleted(p, y)
    \/ Crash \/ Tomorrow

Spec == Init /\ [][Next]_vars

-----------------------------------------------------------------------------
(* Properties.                                                             *)

\* Every attachment row has its file, after a restore too, except for files
\* deleted while the backup was between its two parts, uploads and backups that
\* ran beside a restore, restores that had no archive or did not get to it, and
\* restores that overlapped so that the files of one came after the rows of
\* another.
RestoredWhole == restoring = {} => known \ excused \subseteq stored

\* As long as no administrator deletes backups or restores one, a success is
\* always left to restore: a schedule that has begun to fail does not prune
\* the last good backup away.
LastGoodKept ==
    removals = 0 /\ restores = 0
        /\ (\E x \in Runs : backups[x].status \in {"success", "deleted"})
        => \E x \in Runs : Restorable(x)

=============================================================================
