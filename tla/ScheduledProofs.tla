---------------------------- MODULE ScheduledProofs ----------------------------
(***************************************************************************)
(* Proofs about what comes round by the day: Backups (RestoredWhole and    *)
(* LastGoodKept), ScheduleChanges (FoldedOnce and LatestWins) and          *)
(* RecurringReview (AnswersStand), for any number of runs, files, changes, *)
(* households, keys, days and requests.                                    *)
(***************************************************************************)
EXTENDS Backups, SequenceTheorems, WellFoundedInduction, TLAPS

CONSTANTS
    Callers, MaxChanges, MaxEdits,                               \* of ScheduleChanges
    Houses, Keys, BillKeys, Patterns, Requests, MaxRows, MaxStarts   \* of RecurringReview
VARIABLES
    changes, created, applied, parent, pc, batch, edits, uses, late, crossed,
    rows, job, starts, stale, refused

\* The three share the clock and the bound of it, and no step.
L == INSTANCE ScheduleChanges
D == INSTANCE RecurringReview

-----------------------------------------------------------------------------
(* Backups.                                                                *)

Status == {"none", "running", "success", "failed", "deleted"}
Row == [status : Status, kind : {"none", "scheduled", "manual"}, at : Nat, end : Nat]
Copy == [dumped : BOOLEAN, rows : SUBSET Files, table : [Runs -> Row],
         packed : BOOLEAN, files : SUBSET Files]

SystemTypes ==
    /\ today \in 1..MaxDay
    /\ known \subseteq Files /\ stored \subseteq Files /\ uploading \subseteq Files
    /\ excused \subseteq Files /\ restores \in Nat /\ removals \in Nat
    /\ asked \subseteq Runs /\ \A x \in asked : stage[x] = 4
    /\ restoring \subseteq (1..restores) \X Runs /\ \A e \in restoring : stage[e[2]] = 4

RunTypes ==
    /\ backups \in [Runs -> Row] /\ dirs \subseteq Runs /\ copy \in [Runs -> Copy]
    /\ stage \in [Runs -> 0..4] /\ removing \in [Removers -> SUBSET Runs]
    /\ holes \in [Runs -> SUBSET Files]

\* What a table of backups says of the run x: the database's own, or the one in
\* a dump, which a restore makes the database's.
RowFits(table, x) ==
    /\ table[x].at <= today /\ table[x].end <= today
    /\ stage[x] = 0 => table[x] = NoRow
    /\ table[x].status = "success" => stage[x] = 4 /\ copy[x].dumped

RunFits(x) ==
    /\ RowFits(backups, x)
    /\ \A y \in Runs : RowFits(copy[y].table, x)
    /\ stage[x] = 0 => x \notin dirs /\ copy[x] = NoCopy
    /\ stage[x] \in {2, 3} => copy[x].dumped
    /\ \A p \in Removers : x \in removing[p] => stage[x] # 0

\* What the two parts of a run saved, and what the last restore brings back.
CopyFits(x) ==
    /\ uploading \cap copy[x].rows = {}
    /\ stage[x] = 2 => IF restoring = {} THEN copy[x].rows \ holes[x] \subseteq stored
                       ELSE holes[x] = Files
    /\ copy[x].packed => copy[x].rows \ holes[x] \subseteq copy[x].files
    /\ copy[x].packed => stage[x] \in {3, 4}
FilesFit ==
    /\ uploading \cap known = {}
    /\ restoring = {} => /\ known \ excused \subseteq stored
                         /\ uploading \subseteq stored \cup excused
    /\ \A e \in restoring : e[1] = restores =>
         known \ excused \subseteq (IF copy[e[2]].packed THEN copy[e[2]].files ELSE {})

\* As long as only prunes remove, they have nothing but old successes to
\* remove, and one success none of them has.
Kept ==
    removals = 0 /\ restores = 0 =>
      /\ removing["admin"] = {}
      /\ \A x \in Runs : Live(x) => /\ backups[x].status = "running" /\ x \in dirs
                                    /\ today <= backups[x].at + 1
      /\ \A p \in Removers : \A x \in removing[p] : backups[x].status \in {"success", "deleted"}
      /\ (\E x \in Runs : backups[x].status \in {"success", "deleted"}) =>
           \E y \in Runs : /\ backups[y].status = "success" /\ y \in dirs
                           /\ \A p \in Removers : y \notin removing[p]

RunInv == SystemTypes /\ RunTypes /\ \A x \in Runs : RunFits(x)
FileInv == FilesFit /\ \A x \in Runs : CopyFits(x)
BackupInv == RunInv /\ FileInv /\ Kept

LEMMA BackupInit == ASSUME BackupsOK, Init PROVE BackupInv
<1>1. NoRow \in Row /\ NoTable \in [Runs -> Row] /\ NoTable = [x \in Runs |-> NoRow]
  BY DEF NoRow, NoTable, Row, Status
<1>2. NoCopy \in Copy
  BY <1>1 DEF NoCopy, Copy
<1>3. SystemTypes
  BY DEF BackupsOK, Init, SystemTypes
<1>4. RunTypes
  BY <1>1, <1>2 DEF Init, RunTypes
<1>5. ASSUME NEW x \in Runs PROVE RunFits(x) /\ CopyFits(x)
  <2>1. /\ NoRow.at = 0 /\ NoRow.end = 0 /\ NoRow.status = "none" /\ today = 1
        /\ backups[x] = NoRow /\ stage[x] = 0
    BY <1>1 DEF Init, NoRow
  <2>2. /\ \A y \in Runs : copy[y] = NoCopy
        /\ NoCopy.table = NoTable /\ NoCopy.rows = {} /\ NoCopy.packed = FALSE
    BY DEF Init, NoCopy
  <2>3. RowFits(backups, x)
    BY <2>1 DEF RowFits
  <2>4. ASSUME NEW y \in Runs PROVE RowFits(copy[y].table, x)
    <3>1. copy[y].table[x] = NoRow
      BY <1>1, <2>2
    <3> QED BY <2>1, <3>1 DEF RowFits
  <2> QED BY <2>1, <2>2, <2>3, <2>4 DEF Init, RunFits, CopyFits
<1>6. FilesFit /\ Kept
  <2>1. \A x \in Runs : backups[x].status = "none"
    BY <1>1 DEF Init, NoRow
  <2> QED BY <2>1 DEF Init, FilesFit, Kept, Live, Removers
<1> QED BY <1>3, <1>4, <1>5, <1>6 DEF BackupInv, RunInv, FileInv

-----------------------------------------------------------------------------
(* Types, and what the rows of a run say of it.                            *)

\* A step that leaves the runs and what removes them alone.
LEMMA RunsRest ==
  ASSUME RunInv, UNCHANGED <<today, backups, dirs, copy, stage, removing>>
  PROVE  /\ holes' \in [Runs -> SUBSET Files] => RunTypes'
         /\ \A x \in Runs : RunFits(x)'
BY DEF RunInv, RunTypes, RunFits, RowFits

LEMMA AttachmentRuns ==
  ASSUME RunInv, NEW f \in Files, Upload(f) \/ UploadRow(f) \/ Remove(f)
  PROVE  RunInv'
<1>1. /\ UNCHANGED <<today, backups, dirs, copy, stage, removing, asked, restoring, restores,
                     removals>>
      /\ holes' = holes \/ holes' = [x \in Runs |-> IF stage[x] = 2 THEN holes[x] \cup {f} ELSE holes[x]]
  BY DEF Upload, UploadRow, Remove
<1>2. holes' \in [Runs -> SUBSET Files]
  BY <1>1 DEF RunInv, RunTypes
<1>3. SystemTypes'
  BY <1>1 DEF RunInv, SystemTypes, Upload, UploadRow, Remove
<1> QED BY <1>1, <1>2, <1>3, RunsRest DEF RunInv

LEMMA BeginRuns ==
  ASSUME RunInv, NEW x \in Runs, NEW kind \in {"scheduled", "manual"}, Begin(x, kind)
  PROVE  RunInv'
<1> DEFINE new == [status |-> "running", kind |-> kind, at |-> today, end |-> 0]
<1>1. /\ stage[x] = 0 /\ backups' = [backups EXCEPT ![x] = new] /\ dirs' = dirs \cup {x}
      /\ stage' = [stage EXCEPT ![x] = 1]
      /\ UNCHANGED <<today, known, stored, uploading, copy, removing>> /\ UNCHANGED steady
  BY DEF Begin, Begun
<1>2. new \in Row /\ new.at <= today /\ new.end <= today /\ new.status # "success"
  BY DEF RunInv, SystemTypes, Row, Status
<1> HIDE DEF new
<1>3. SystemTypes'
  BY <1>1 DEF RunInv, SystemTypes, RunTypes, steady
<1>4. RunTypes'
  BY <1>1, <1>2 DEF RunInv, RunTypes, steady
<1>5. ASSUME NEW y \in Runs PROVE RunFits(y)'
  <2>1. RunFits(y)
    BY DEF RunInv
  <2>2. RowFits(backups, y)'
    BY <1>1, <1>2, <2>1 DEF RunFits, RowFits, RunInv, RunTypes
  <2>3. ASSUME NEW z \in Runs PROVE RowFits(copy[z].table, y)'
    BY <1>1, <2>1 DEF RunFits, RowFits, RunInv, RunTypes
  <2> QED BY <1>1, <2>1, <2>2, <2>3 DEF RunFits, RunInv, RunTypes
<1> QED BY <1>3, <1>4, <1>5 DEF RunInv

LEMMA PartsInOrder == Parts[1] = "rows" /\ Parts[2] = "files" /\ Parts[2] # "rows"
BY DEF Parts

\* What a part of a run saves.
LEMMA SavedCopy ==
  ASSUME RunInv, NEW x \in Runs, Save(x)
  PROVE  \E c \in Copy : /\ copy' = [copy EXCEPT ![x] = c] /\ c.dumped
                         /\ c.table = copy[x].table \/ c.table = backups
                         /\ c.rows = (IF stage[x] = 1 THEN known ELSE copy[x].rows)
                         /\ c.files = (IF stage[x] = 1 THEN copy[x].files ELSE stored)
                         /\ c.packed = (IF stage[x] = 1 THEN copy[x].packed ELSE TRUE)
<1>1. /\ copy[x] \in Copy /\ backups \in [Runs -> Row]
      /\ known \in SUBSET Files /\ stored \in SUBSET Files
  BY DEF RunInv, RunTypes, SystemTypes
<1>2. CASE stage[x] = 1
  <2> DEFINE c == [copy[x] EXCEPT !.dumped = TRUE, !.rows = known, !.table = backups]
  <2>1. copy' = [copy EXCEPT ![x] = c]
    BY <1>2, PartsInOrder DEF Save
  <2>2. /\ c \in Copy /\ c.dumped /\ c.table = backups /\ c.rows = known
        /\ c.packed = copy[x].packed /\ c.files = copy[x].files
    BY <1>1 DEF Copy
  <2> HIDE DEF c
  <2> QED BY <1>2, <2>1, <2>2
<1>3. CASE stage[x] = 2
  <2> DEFINE c == [copy[x] EXCEPT !.packed = TRUE, !.files = stored]
  <2>0. Parts[stage[x]] # "rows"
    BY <1>3, PartsInOrder
  <2>1. copy' = [copy EXCEPT ![x] = c]
    <3>1. copy' = [copy EXCEPT ![x] =
                     IF Parts[stage[x]] = "rows"
                     THEN [@ EXCEPT !.dumped = TRUE, !.rows = known, !.table = backups]
                     ELSE [@ EXCEPT !.packed = TRUE, !.files = stored]]
      BY DEF Save
    <3> QED BY <2>0, <3>1, Zenon
  <2>2. /\ c \in Copy /\ c.table = copy[x].table /\ c.dumped = copy[x].dumped
        /\ c.rows = copy[x].rows /\ c.packed = TRUE /\ c.files = stored
    BY <1>1 DEF Copy
  <2>3. copy[x].dumped
    BY <1>3 DEF RunInv, RunFits
  <2>4. c.dumped /\ c.table = copy[x].table /\ stage[x] # 1
    BY <1>3, <2>2, <2>3
  <2> HIDE DEF c
  <2> QED BY <2>1, <2>2, <2>4, Zenon
<1>4. stage[x] \in {1, 2}
  BY DEF Save
<1> QED BY <1>2, <1>3, <1>4

LEMMA SaveRuns ==
  ASSUME RunInv, NEW x \in Runs, Save(x)
  PROVE  RunInv'
<1>1. /\ stage[x] \in {1, 2}
      /\ stage' = [stage EXCEPT ![x] = stage[x] + 1]
      /\ holes' = [holes EXCEPT ![x] = IF restoring = {} THEN holes[x] \cup excused ELSE Files]
      /\ UNCHANGED <<today, known, stored, uploading, backups, dirs, removing,
                     asked, restoring, excused, restores, removals>>
  BY DEF Save
<1>2. PICK c \in Copy : /\ copy' = [copy EXCEPT ![x] = c] /\ c.dumped
                        /\ c.table = copy[x].table \/ c.table = backups
  BY SavedCopy
<1>3. SystemTypes'
  <2>1. \A y \in Runs : stage[y] = 4 => stage'[y] = 4
    BY <1>1 DEF RunInv, RunTypes
  <2> QED BY <1>1, <2>1 DEF RunInv, SystemTypes
<1>4. RunTypes'
  BY <1>1, <1>2 DEF RunInv, RunTypes, SystemTypes
<1>5. ASSUME NEW y \in Runs PROVE RunFits(y)'
  <2>1. RunFits(y) /\ RunFits(x) /\ copy[y] \in Copy
    BY DEF RunInv, RunTypes
  <2>2. /\ copy[y].dumped => copy'[y].dumped
        /\ stage[y] = 4 => stage'[y] = 4
        /\ stage'[y] = 0 => stage[y] = 0 /\ copy'[y] = copy[y]
        /\ stage'[y] \in {2, 3} => copy'[y].dumped
        /\ stage[y] # 0 => stage'[y] # 0
    BY <1>1, <1>2, <2>1 DEF RunInv, RunTypes, RunFits
  <2>3. ASSUME NEW table, RowFits(table, y)
        PROVE  /\ table[y].at <= today /\ table[y].end <= today
               /\ stage'[y] = 0 => table[y] = NoRow
               /\ table[y].status = "success" => stage'[y] = 4 /\ copy'[y].dumped
    BY <2>2, <2>3 DEF RowFits
  <2>4. RowFits(backups, y)'
    BY <1>1, <2>1, <2>3 DEF RunFits, RowFits
  <2>5. ASSUME NEW z \in Runs PROVE RowFits(copy[z].table, y)'
    <3>1. copy'[z].table = copy[z].table \/ copy'[z].table = backups
      BY <1>2 DEF RunInv, RunTypes
    <3>2. RowFits(copy[z].table, y) /\ RowFits(backups, y)
      BY <2>1 DEF RunFits
    <3> QED BY <1>1, <2>3, <3>1, <3>2 DEF RowFits
  <2> QED BY <1>1, <2>1, <2>2, <2>4, <2>5 DEF RunFits
<1> QED BY <1>3, <1>4, <1>5 DEF RunInv

\* A run that goes on; its row says success only at the end of its last stage.
LEMMA GoesOnRuns ==
  ASSUME RunInv, NEW x \in Runs, NEW n \in {3, 4}, stage[x] \in {1, 2, 3},
         n = 3 => stage[x] = 2,
         stage' = [stage EXCEPT ![x] = n],
         UNCHANGED <<today, known, stored, uploading, dirs, copy>>, UNCHANGED steady,
         backups' \in [Runs -> Row],
         \A y \in Runs \ {x} : backups'[y] = backups[y],
         \/ backups'[x] = backups[x]
         \/ /\ n = 4 /\ backups'[x].at <= today /\ backups'[x].end <= today
            /\ backups'[x].status = "success" => stage[x] = 3,
         removing' \in [Removers -> SUBSET Runs],
         \A p \in Removers : \A y \in removing'[p] : stage[y] # 0
  PROVE  RunInv'
<1>1. \A y \in Runs : /\ stage[y] = 4 => stage'[y] = 4
                      /\ stage'[y] = 0 <=> stage[y] = 0
                      /\ stage'[y] \in {2, 3} => stage[y] \in {2, 3}
  BY DEF RunInv, RunTypes
<1>2. SystemTypes'
  BY <1>1 DEF RunInv, SystemTypes, steady
<1>3. RunTypes'
  <2>1. stage' \in [Runs -> 0..4]
    BY DEF RunInv, RunTypes
  <2>2. UNCHANGED <<dirs, copy, holes>>
    BY DEF steady
  <2> QED BY <2>1, <2>2 DEF RunInv, RunTypes
<1>4. ASSUME NEW y \in Runs PROVE RunFits(y)'
  <2>1. RunFits(y) /\ RunFits(x)
    BY DEF RunInv
  <2>2. RowFits(backups, y)'
    <3>1. CASE backups'[y] = backups[y]
      BY <1>1, <2>1, <3>1 DEF RunFits, RowFits
    <3>2. CASE backups'[y] # backups[y]
      <4>1. /\ y = x /\ n = 4 /\ backups'[y].at <= today /\ backups'[y].end <= today
            /\ backups'[y].status = "success" => stage[x] = 3
        BY <3>2
      <4>2. stage'[x] = 4 /\ (stage[x] = 3 => copy[x].dumped)
        BY <2>1, <4>1 DEF RunInv, RunTypes, RunFits
      <4> QED BY <4>1, <4>2 DEF RowFits
    <3> QED BY <3>1, <3>2
  <2>3. ASSUME NEW z \in Runs PROVE RowFits(copy[z].table, y)'
    BY <1>1, <2>1 DEF RunFits, RowFits
  <2> QED BY <1>1, <2>1, <2>2, <2>3 DEF RunFits
<1> QED BY <1>2, <1>3, <1>4 DEF RunInv

LEMMA TarLast ==
  ASSUME NEW x \in Runs, TarFails(x)
  PROVE  stage[x] # 1
<1>1. SUFFICES ASSUME stage[x] = 1 PROVE FALSE
  OBVIOUS
<1>2. Parts[stage[x]] = "files"
  BY DEF TarFails
<1>3. Parts[stage[x]] = "rows"
  BY <1>1, PartsInOrder
<1> QED BY <1>2, <1>3

LEMMA TarRuns ==
  ASSUME RunInv, NEW x \in Runs, TarFails(x)
  PROVE  RunInv'
<1>1. /\ stage[x] = 2 /\ stage' = [stage EXCEPT ![x] = 3]
      /\ UNCHANGED <<today, known, stored, uploading, backups, dirs, copy, removing>>
      /\ UNCHANGED steady
  <2>1. stage[x] # 1
    BY TarLast
  <2>2. stage[x] = 2 /\ stage' = [stage EXCEPT ![x] = stage[x] + 1]
    BY <2>1 DEF TarFails
  <2>3. stage' = [stage EXCEPT ![x] = 3]
    BY <2>2
  <2> QED BY <2>2, <2>3 DEF TarFails
<1>2. \A p \in Removers : \A y \in removing[p] : stage[y] # 0
  BY DEF RunInv, RunTypes, RunFits
<1> QED BY <1>1, <1>2, GoesOnRuns DEF RunInv, RunTypes

\* The row at the end of a run.
LEMMA EndedRow ==
  ASSUME RunInv, NEW x \in Runs, NEW status \in {"success", "failed"}, Ended(x, status)
  PROVE  /\ backups' \in [Runs -> Row]
         /\ \A y \in Runs : y # x => backups'[y] = backups[y]
         /\ \/ backups[x] = NoRow /\ backups'[x] = backups[x]
            \/ /\ backups'[x].at = backups[x].at /\ backups'[x].end = today
               /\ backups'[x].status = status
         /\ stage' = [stage EXCEPT ![x] = 4]
         /\ UNCHANGED <<today, known, stored, uploading, dirs, copy>> /\ UNCHANGED steady
<1> DEFINE new == [backups[x] EXCEPT !.status = status, !.end = today]
<1>1. /\ backups' = IF backups[x] = NoRow THEN backups ELSE [backups EXCEPT ![x] = new]
      /\ stage' = [stage EXCEPT ![x] = 4]
      /\ UNCHANGED <<today, known, stored, uploading, dirs, copy>> /\ UNCHANGED steady
  <2>1. [backups EXCEPT ![x].status = status, ![x].end = today] = [backups EXCEPT ![x] = new]
    BY DEF RunInv, RunTypes
  <2> QED BY <2>1 DEF Ended
<1>2. new \in Row /\ new.at = backups[x].at /\ new.end = today /\ new.status = status
  <2>1. backups[x] \in Row /\ today \in Nat /\ status \in Status
    BY DEF RunInv, RunTypes, SystemTypes, Status
  <2> QED BY <2>1 DEF Row
<1> HIDE DEF new
<1>3. backups' \in [Runs -> Row]
  BY <1>1, <1>2 DEF RunInv, RunTypes
<1>4. \A y \in Runs : y # x => backups'[y] = backups[y]
  BY <1>1 DEF RunInv, RunTypes
<1>5. CASE backups[x] = NoRow
  BY <1>1, <1>3, <1>4, <1>5
<1>6. CASE backups[x] # NoRow
  <2>1. backups'[x] = new
    BY <1>1, <1>6 DEF RunInv, RunTypes
  <2> QED BY <1>1, <1>2, <1>3, <1>4, <2>1
<1> QED BY <1>5, <1>6

LEMMA StaleRuns ==
  ASSUME RunInv
  PROVE  Stale \subseteq Runs /\ \A y \in Stale : stage[y] = 4
BY DEF Stale, RunInv, RunFits, RowFits

\* What is to be removed at the end of a run.
LEMMA PruneRuns ==
  ASSUME RunInv, NEW x \in Runs,
         \/ UNCHANGED removing
         \/ removing' = [removing EXCEPT ![x] = Stale]
  PROVE  /\ removing' \in [Removers -> SUBSET Runs]
         /\ \A p \in Removers : \A y \in removing'[p] : stage[y] # 0
<1>1. x \in Removers
  BY DEF Removers
<1>2. \A p \in Removers : \A y \in removing[p] : stage[y] # 0
  BY DEF RunInv, RunTypes, RunFits
<1> QED BY <1>1, <1>2, StaleRuns DEF RunInv, RunTypes

LEMMA EndRuns ==
  ASSUME RunInv, NEW x \in Runs, Finish(x) \/ Fail(x)
  PROVE  RunInv'
<1>1. PICK status \in {"success", "failed"} :
         Ended(x, status) /\ (status = "success" => stage[x] = 3)
  BY DEF Finish, Fail
<1>2. stage[x] \in {1, 2, 3}
  BY DEF Finish, Fail, Live
<1>3. /\ removing' \in [Removers -> SUBSET Runs]
      /\ \A p \in Removers : \A y \in removing'[p] : stage[y] # 0
  BY PruneRuns DEF Finish, Fail
<1>4. /\ backups' \in [Runs -> Row]
      /\ \A y \in Runs : y # x => backups'[y] = backups[y]
      /\ \/ backups'[x] = backups[x]
         \/ /\ backups'[x].at = backups[x].at /\ backups'[x].end = today
            /\ backups'[x].status = status
      /\ stage' = [stage EXCEPT ![x] = 4]
      /\ UNCHANGED <<today, known, stored, uploading, dirs, copy>> /\ UNCHANGED steady
  BY <1>1, EndedRow
<1>5. backups[x].at <= today /\ today <= today
  BY DEF RunInv, SystemTypes, RunFits, RowFits
<1>6. \/ backups'[x] = backups[x]
      \/ /\ backups'[x].at <= today /\ backups'[x].end <= today
         /\ backups'[x].status = "success" => stage[x] = 3
  BY <1>1, <1>4, <1>5
<1>7. /\ UNCHANGED <<today, known, stored, uploading, dirs, copy>> /\ UNCHANGED steady
      /\ stage' = [stage EXCEPT ![x] = 4] /\ backups' \in [Runs -> Row]
      /\ \A y \in Runs \ {x} : backups'[y] = backups[y]
  BY <1>4
<1>8. 4 \in {3, 4} /\ 4 # 3
  OBVIOUS
<1> QED BY <1>2, <1>3, <1>6, <1>7, <1>8, GoesOnRuns

\* What both ends of pg_restore have in common.
LEMMA RestoreBegins ==
  ASSUME RunInv, NEW x \in Runs, Restore(x)
  PROVE  /\ stage[x] = 4 /\ asked' \subseteq asked /\ restores' = restores + 1
         /\ restores \in Nat /\ restores' \in Nat
         /\ <<restores', x>> \in (1..restores') \X Runs
         /\ restoring \subseteq (1..restores') \X Runs
         /\ \A e \in restoring : e[1] # restores'
         /\ holes' = [y \in Runs |-> IF Live(y) THEN Files ELSE holes[y]]
         /\ UNCHANGED <<today, stored, uploading, dirs, copy, stage, removing, removals>>
<1>1. /\ x \in asked /\ asked' = asked /\ restores' = restores + 1
      /\ holes' = [y \in Runs |-> IF Live(y) THEN Files ELSE holes[y]]
      /\ UNCHANGED <<today, stored, uploading, dirs, copy, stage, removing, removals>>
  BY DEF Restore
<1>2. /\ restores \in Nat /\ \A y \in asked : stage[y] = 4
      /\ restoring \subseteq (1..restores) \X Runs
  BY DEF RunInv, SystemTypes
<1>3. restores + 1 \in Nat /\ restores + 1 \in 1..(restores + 1)
      /\ \A n \in 1..restores : n \in 1..(restores + 1) /\ n # restores + 1
  BY <1>2
<1>4. \A e \in restoring : e[1] \in 1..restores /\ e[2] \in Runs /\ e = <<e[1], e[2]>>
  BY <1>2
<1>5. \A e \in restoring : e \in (1..(restores + 1)) \X Runs /\ e[1] # restores + 1
  BY <1>3, <1>4
<1> QED BY <1>1, <1>2, <1>3, <1>5

LEMMA RestoreRuns ==
  ASSUME RunInv, NEW x \in Runs, RestoreRows(x) \/ RestoreFails(x)
  PROVE  RunInv'
<1>0. Restore(x)
  BY DEF RestoreRows, RestoreFails
<1>1. /\ stage[x] = 4 /\ asked' \subseteq asked /\ restores' \in Nat
      /\ <<restores', x>> \in (1..restores') \X Runs
      /\ restoring \subseteq (1..restores') \X Runs
      /\ holes' = [y \in Runs |-> IF Live(y) THEN Files ELSE holes[y]]
      /\ UNCHANGED <<today, stored, uploading, dirs, copy, stage, removing, removals>>
  BY <1>0, RestoreBegins
<1>2. /\ known' \in {known, copy[x].rows, {}}
      /\ backups' \in {backups, copy[x].table, NoTable}
      /\ restoring' \in {restoring, restoring \cup {<<restores', x>>}}
      /\ excused' \in {excused, known', holes[x], known' \cup (excused \cap uploading)}
  BY DEF RestoreRows, RestoreFails
<1>3. /\ copy[x].table \in [Runs -> Row] /\ copy[x].rows \subseteq Files
      /\ holes[x] \subseteq Files /\ backups \in [Runs -> Row]
  BY DEF RunInv, RunTypes, Copy
<1>4. /\ NoTable \in [Runs -> Row] /\ NoTable = [y \in Runs |-> NoRow]
      /\ NoRow.at = 0 /\ NoRow.end = 0 /\ NoRow.status = "none"
  BY DEF NoRow, NoTable, Row, Status
<1>5. SystemTypes'
  <2>1. known' \subseteq Files /\ excused' \subseteq Files
    BY <1>2, <1>3 DEF RunInv, SystemTypes
  <2>2. \A e \in restoring' : stage[e[2]] = 4
    BY <1>1, <1>2 DEF RunInv, SystemTypes
  <2>3. restoring' \subseteq (1..restores') \X Runs
    BY <1>1, <1>2
  <2> QED BY <1>1, <2>1, <2>2, <2>3 DEF RunInv, SystemTypes
<1>6. RunTypes'
  BY <1>1, <1>2, <1>3, <1>4 DEF RunInv, RunTypes
<1>7. ASSUME NEW y \in Runs PROVE RunFits(y)'
  <2>1. RunFits(y) /\ RowFits(copy[x].table, y) /\ today \in Nat
    BY DEF RunInv, RunFits, SystemTypes
  <2>2. RowFits(NoTable, y)
    BY <1>4, <2>1 DEF RowFits
  <2>3. RowFits(backups, y)'
    BY <1>1, <1>2, <2>1, <2>2 DEF RunFits, RowFits
  <2> QED BY <1>1, <2>1, <2>3 DEF RunFits, RowFits
<1> QED BY <1>5, <1>6, <1>7 DEF RunInv

LEMMA RestoreEndRuns ==
  ASSUME RunInv, NEW x \in Runs, NEW n \in Nat,
         AskRestore(x) \/ RestoreFiles(n, x)
  PROVE  RunInv'
<1>1. CASE AskRestore(x)
  <2>1. /\ Restorable(x) /\ asked' = asked \cup {x}
        /\ UNCHANGED <<today, known, stored, uploading, backups, dirs, copy, stage, removing,
                       restoring, holes, excused, restores, removals>>
    BY <1>1 DEF AskRestore
  <2>2. stage[x] = 4
    BY <2>1 DEF Restorable, RunInv, RunFits, RowFits
  <2>3. SystemTypes'
    BY <2>1, <2>2 DEF RunInv, SystemTypes
  <2> QED BY <2>1, <2>3, RunsRest DEF RunInv, RunTypes
<1>2. CASE RestoreFiles(n, x)
  <2>1. /\ UNCHANGED <<today, known, uploading, backups, dirs, copy, stage, removing, asked,
                       holes, restores, removals>>
        /\ restoring' = restoring \ {<<n, x>>}
        /\ stored' \in {copy[x].files, {}, stored}
        /\ excused' \in {excused \cup uploading, known \cup uploading}
    BY <1>2 DEF RestoreFiles
  <2>2. copy[x].files \subseteq Files
    BY DEF RunInv, RunTypes, Copy
  <2>3. SystemTypes'
    BY <2>1, <2>2 DEF RunInv, SystemTypes
  <2> QED BY <2>1, <2>3, RunsRest DEF RunInv, RunTypes
<1> QED BY <1>1, <1>2

LEMMA RemoveRuns ==
  ASSUME RunInv,
         \/ \E S \in SUBSET Runs : AdminRemoves(S)
         \/ \E p \in Removers : \E y \in removing[p] : RemoveDir(p, y) \/ MarkDeleted(p, y)
  PROVE  RunInv'
<1>1. ASSUME NEW S \in SUBSET Runs, AdminRemoves(S) PROVE RunInv'
  <2>1. /\ removing' = [removing EXCEPT !["admin"] = S] /\ removals' = removals + 1
        /\ UNCHANGED <<today, known, stored, uploading, backups, dirs, copy, stage, asked, restoring,
                       holes, excused, restores>>
        /\ S = Stale \/ \E y \in Runs : backups[y].status \notin {"none", "deleted"} /\ S = {y}
    BY <1>1 DEF AdminRemoves
  <2>2. \A y \in S : stage[y] # 0
    <3>1. NoRow.status = "none"
      BY DEF NoRow
    <3> QED BY <2>1, <3>1, StaleRuns DEF RunInv, RunFits, RowFits
  <2>3. SystemTypes' /\ RunTypes'
    <3>1. SystemTypes'
      BY <2>1 DEF RunInv, SystemTypes
    <3>2. removing' \in [Removers -> SUBSET Runs]
      BY <2>1 DEF RunInv, RunTypes
    <3> QED BY <2>1, <3>1, <3>2 DEF RunInv, RunTypes
  <2>4. ASSUME NEW x \in Runs PROVE RunFits(x)'
    <3>1. ASSUME NEW p \in Removers, x \in removing'[p] PROVE stage[x] # 0
      BY <2>1, <2>2, <3>1 DEF RunInv, RunTypes, RunFits
    <3> QED BY <2>1, <3>1 DEF RunInv, RunFits, RowFits
  <2> QED BY <2>3, <2>4 DEF RunInv
<1>2. ASSUME NEW p \in Removers, NEW y \in removing[p], RemoveDir(p, y) PROVE RunInv'
  <2>1. /\ dirs' = dirs \ {y} /\ UNCHANGED steady
        /\ UNCHANGED <<today, known, stored, uploading, backups, copy, stage, removing>>
    BY <1>2 DEF RemoveDir
  <2>2. SystemTypes' /\ RunTypes'
    BY <2>1 DEF RunInv, SystemTypes, RunTypes, steady
  <2>3. \A x \in Runs : RunFits(x)'
    BY <2>1 DEF RunInv, RunFits, RowFits
  <2> QED BY <2>2, <2>3 DEF RunInv
<1>3. ASSUME NEW p \in Removers, NEW y \in removing[p], MarkDeleted(p, y) PROVE RunInv'
  <2> DEFINE new == [backups[y] EXCEPT !.status = "deleted"]
  <2>1. /\ removing' = [removing EXCEPT ![p] = removing[p] \ {y}]
        /\ backups' = IF backups[y] = NoRow THEN backups ELSE [backups EXCEPT ![y] = new]
        /\ UNCHANGED <<today, known, stored, uploading, dirs, copy, stage>> /\ UNCHANGED steady
    BY <1>3 DEF MarkDeleted
  <2>2. y \in Runs
    BY DEF RunInv, RunTypes
  <2>3. /\ new \in Row /\ new.at = backups[y].at /\ new.end = backups[y].end
        /\ new.status = "deleted"
    BY <2>2 DEF RunInv, RunTypes, Row, Status
  <2> HIDE DEF new
  <2>4. SystemTypes'
    BY <2>1 DEF RunInv, SystemTypes, steady
  <2>5. RunTypes'
    <3>1. backups' \in [Runs -> Row]
      BY <2>1, <2>3 DEF RunInv, RunTypes
    <3>2. removing' \in [Removers -> SUBSET Runs]
      BY <2>1 DEF RunInv, RunTypes
    <3> QED BY <2>1, <3>1, <3>2 DEF RunInv, RunTypes, steady
  <2>6. ASSUME NEW x \in Runs PROVE RunFits(x)'
    <3>1. RunFits(x)
      BY DEF RunInv
    <3>2. \/ backups'[x] = backups[x]
          \/ backups[x] # NoRow /\ x = y /\ backups'[x] = new
      BY <2>1 DEF RunInv, RunTypes
    <3>3. RowFits(backups, x)'
      BY <2>1, <2>3, <3>1, <3>2 DEF RunFits, RowFits
    <3>4. ASSUME NEW q \in Removers, x \in removing'[q] PROVE stage[x] # 0
      BY <2>1, <3>1, <3>4 DEF RunInv, RunTypes, RunFits
    <3> QED BY <2>1, <3>1, <3>3, <3>4 DEF RunFits, RowFits
  <2> QED BY <2>4, <2>5, <2>6 DEF RunInv
<1> QED BY <1>1, <1>2, <1>3

LEMMA CrashRuns ==
  ASSUME RunInv, Crash
  PROVE  RunInv'
<1>1. /\ stage' = [x \in Runs |-> IF Begun(x) THEN 4 ELSE 0]
      /\ removing' = [p \in Removers |-> {}]
      /\ asked' = {} /\ restoring' = {} /\ uploading' = {}
      /\ stored' \in {stored, {}} /\ excused' \in {excused, known}
      /\ UNCHANGED <<today, known, backups, dirs, copy, holes, restores, removals>>
  BY DEF Crash
<1>2. SystemTypes'
  BY <1>1 DEF RunInv, SystemTypes
<1>3. RunTypes'
  BY <1>1 DEF RunInv, RunTypes
<1>4. ASSUME NEW x \in Runs PROVE RunFits(x)'
  <2>1. /\ RunFits(x) /\ stage'[x] = (IF stage[x] # 0 THEN 4 ELSE 0)
        /\ \A p \in Removers : removing'[p] = {}
    BY <1>1 DEF RunInv, Begun
  <2>2. RowFits(backups, x)'
    BY <1>1, <2>1 DEF RunFits, RowFits
  <2>3. \A y \in Runs : RowFits(copy[y].table, x)'
    BY <1>1, <2>1 DEF RunFits, RowFits
  <2> QED BY <1>1, <2>1, <2>2, <2>3 DEF RunFits
<1> QED BY <1>2, <1>3, <1>4 DEF RunInv

LEMMA TomorrowRuns ==
  ASSUME BackupsOK, RunInv, Tomorrow
  PROVE  RunInv'
<1>1. /\ today' = today + 1 /\ today' \in 1..MaxDay
      /\ UNCHANGED <<known, stored, uploading, backups, dirs, copy, stage, removing>>
      /\ UNCHANGED steady
  BY DEF Tomorrow, RunInv, SystemTypes, BackupsOK
<1>2. SystemTypes' /\ RunTypes'
  BY <1>1 DEF RunInv, SystemTypes, RunTypes, steady
<1>3. \A row \in Row : (row.at <= today => row.at <= today') /\ (row.end <= today => row.end <= today')
  BY <1>1 DEF RunInv, SystemTypes, Row
<1>4. ASSUME NEW x \in Runs PROVE RunFits(x)'
  <2>1. RunFits(x) /\ backups[x] \in Row /\ \A y \in Runs : copy[y].table[x] \in Row
    BY DEF RunInv, RunTypes, Copy
  <2>2. RowFits(backups, x)'
    BY <1>1, <1>3, <2>1 DEF RunFits, RowFits
  <2>3. \A y \in Runs : RowFits(copy[y].table, x)'
    BY <1>1, <1>3, <2>1 DEF RunFits, RowFits
  <2> QED BY <1>1, <2>1, <2>2, <2>3 DEF RunFits
<1> QED BY <1>2, <1>4 DEF RunInv

-----------------------------------------------------------------------------
(* The files.                                                              *)

\* A step that touches neither the files nor what was saved of them, and lets
\* no run come to its second part.
LEMMA FilesRest ==
  ASSUME FileInv, UNCHANGED <<known, stored, uploading, restoring, excused, copy, holes, restores>>,
         \A x \in Runs : /\ stage'[x] = 2 => stage[x] = 2
                         /\ stage[x] \in {3, 4} => stage'[x] \in {3, 4}
  PROVE  FileInv'
BY DEF FileInv, FilesFit, CopyFits

LEMMA AttachmentFiles ==
  ASSUME RunInv, FileInv, NEW f \in Files, Upload(f) \/ UploadRow(f) \/ Remove(f)
  PROVE  FileInv'
<1>1. UNCHANGED <<copy, stage, restoring, restores>>
  BY DEF Upload, UploadRow, Remove
<1>2. CASE Upload(f)
  <2>1. /\ f \notin known \cup uploading \cup UNION {copy[x].rows : x \in Runs}
        /\ stored' = stored \cup {f} /\ uploading' = uploading \cup {f}
        /\ excused' = excused \ {f} /\ UNCHANGED <<known, holes>>
    BY <1>2 DEF Upload
  <2>2. FilesFit'
    BY <1>1, <2>1 DEF FileInv, FilesFit
  <2>3. ASSUME NEW x \in Runs PROVE CopyFits(x)'
    BY <1>1, <2>1 DEF FileInv, CopyFits
  <2> QED BY <2>2, <2>3 DEF FileInv
<1>3. CASE UploadRow(f)
  <2>1. /\ f \in uploading /\ uploading' = uploading \ {f} /\ known' = known \cup {f}
        /\ excused' = (IF restoring = {} THEN excused ELSE excused \cup {f})
        /\ UNCHANGED <<stored, holes>>
    BY <1>3 DEF UploadRow
  <2>2. FilesFit'
    BY <1>1, <2>1 DEF FileInv, FilesFit
  <2>3. ASSUME NEW x \in Runs PROVE CopyFits(x)'
    BY <1>1, <2>1 DEF FileInv, CopyFits
  <2> QED BY <2>2, <2>3 DEF FileInv
<1>4. CASE Remove(f)
  <2>1. /\ f \in known /\ known' = known \ {f} /\ stored' = stored \ {f}
        /\ holes' = [x \in Runs |-> IF stage[x] = 2 THEN holes[x] \cup {f} ELSE holes[x]]
        /\ UNCHANGED <<uploading, excused>>
    BY <1>4 DEF Remove
  <2>2. FilesFit'
    BY <1>1, <2>1 DEF FileInv, FilesFit
  <2>3. ASSUME NEW x \in Runs PROVE CopyFits(x)'
    <3>1. CopyFits(x) /\ holes[x] \subseteq Files
      BY DEF FileInv, RunInv, RunTypes
    <3>2. holes[x] \subseteq holes'[x] /\ holes'[x] \subseteq Files /\ (stage[x] = 2 => f \in holes'[x])
      BY <2>1, <3>1
    <3> QED BY <1>1, <2>1, <3>1, <3>2 DEF CopyFits
  <2> QED BY <2>2, <2>3 DEF FileInv
<1> QED BY <1>2, <1>3, <1>4

LEMMA SaveFiles ==
  ASSUME RunInv, FileInv, NEW x \in Runs, Save(x)
  PROVE  FileInv'
<1>1. /\ stage[x] \in {1, 2}
      /\ stage' = [stage EXCEPT ![x] = stage[x] + 1]
      /\ holes' = [holes EXCEPT ![x] = IF restoring = {} THEN holes[x] \cup excused ELSE Files]
      /\ UNCHANGED <<today, known, stored, uploading, backups, dirs, removing,
                     asked, restoring, excused, restores, removals>>
  BY DEF Save
<1>2. \E c \in Copy : /\ copy' = [copy EXCEPT ![x] = c]
                      /\ c.rows = (IF stage[x] = 1 THEN known ELSE copy[x].rows)
                      /\ c.files = (IF stage[x] = 1 THEN copy[x].files ELSE stored)
                      /\ c.packed = (IF stage[x] = 1 THEN copy[x].packed ELSE TRUE)
  BY SavedCopy
<1>3. PICK c \in Copy : /\ copy' = [copy EXCEPT ![x] = c]
                        /\ c.rows = (IF stage[x] = 1 THEN known ELSE copy[x].rows)
                        /\ c.files = (IF stage[x] = 1 THEN copy[x].files ELSE stored)
                        /\ c.packed = (IF stage[x] = 1 THEN copy[x].packed ELSE TRUE)
  BY <1>2
<1>4. \A y \in Runs \ {x} : copy'[y] = copy[y] /\ stage'[y] = stage[y] /\ holes'[y] = holes[y]
  BY <1>1, <1>3 DEF RunInv, RunTypes
<1>5. /\ copy'[x] = c /\ stage'[x] = stage[x] + 1
      /\ holes'[x] = (IF restoring = {} THEN holes[x] \cup excused ELSE Files)
      /\ known \subseteq Files /\ excused \subseteq Files /\ holes[x] \subseteq Files
  BY <1>1, <1>3 DEF RunInv, RunTypes, SystemTypes
<1>6. FilesFit'
  <2>1. \A e \in restoring : e[2] \in Runs \ {x}
    BY <1>1 DEF RunInv, SystemTypes
  <2>2. \A e \in restoring : copy'[e[2]] = copy[e[2]]
    BY <1>4, <2>1
  <2> QED BY <1>1, <2>2 DEF FileInv, FilesFit
<1>7. ASSUME NEW y \in Runs PROVE CopyFits(y)'
  <2>1. CASE y # x
    BY <1>1, <1>4, <2>1 DEF FileInv, CopyFits
  <2>2. CASE y = x /\ stage[x] = 1
    <3>1. stage'[x] = 2 /\ c.packed = FALSE
      BY <1>3, <1>5, <2>2 DEF FileInv, CopyFits, RunInv, RunTypes, Copy
    <3>2. copy'[x].rows = known /\ copy'[x].packed = FALSE /\ uploading \cap known = {}
      BY <1>3, <1>5, <2>2, <3>1 DEF FileInv, FilesFit
    <3>3. restoring = {} => known \ holes'[x] \subseteq stored
      BY <1>5 DEF FileInv, FilesFit
    <3>4. restoring # {} => holes'[x] = Files
      BY <1>5
    <3> QED BY <1>1, <2>2, <3>1, <3>2, <3>3, <3>4 DEF CopyFits
  <2>3. CASE y = x /\ stage[x] = 2
    <3>1. stage'[x] = 3
      BY <1>5, <2>3
    <3>2. /\ copy'[x].rows = copy[x].rows /\ copy'[x].files = stored
          /\ uploading \cap copy[x].rows = {} /\ copy[x].rows \subseteq Files
      BY <1>3, <1>5, <2>3 DEF FileInv, CopyFits, RunInv, RunTypes, Copy
    <3>3. restoring = {} => copy[x].rows \ holes[x] \subseteq stored /\ holes[x] \subseteq holes'[x]
      BY <1>5, <2>3 DEF FileInv, CopyFits
    <3>4. copy[x].rows \ holes'[x] \subseteq stored
      BY <1>5, <3>2, <3>3
    <3> QED BY <1>1, <2>3, <3>1, <3>2, <3>4 DEF CopyFits
  <2> QED BY <1>1, <2>1, <2>2, <2>3
<1> QED BY <1>6, <1>7 DEF FileInv

LEMMA RestoreBeginFiles ==
  ASSUME RunInv, FileInv, NEW x \in Runs, RestoreRows(x) \/ RestoreFails(x)
  PROVE  FileInv'
<1>0. Restore(x)
  BY DEF RestoreRows, RestoreFails
<1>1. /\ stage[x] = 4 /\ \A e \in restoring : e[1] # restores'
      /\ holes' = [y \in Runs |-> IF Live(y) THEN Files ELSE holes[y]]
      /\ UNCHANGED <<stored, uploading, copy, stage>>
  BY <1>0, RestoreBegins
<1>2. /\ uploading \cap copy[x].rows = {}
      /\ copy[x].packed => copy[x].rows \ holes[x] \subseteq copy[x].files
  BY DEF FileInv, CopyFits
<1>3. CASE RestoreRows(x)
  <2>1. /\ known' = copy[x].rows /\ restoring' = restoring \cup {<<restores', x>>}
        /\ excused' = (IF copy[x].packed THEN holes[x] ELSE known')
    BY <1>3 DEF RestoreRows
  <2>2. ASSUME NEW e \in restoring', e[1] = restores'
        PROVE  known' \ excused' \subseteq (IF copy[e[2]].packed THEN copy[e[2]].files ELSE {})
    <3>1. e[2] = x
      BY <1>1, <2>1, <2>2
    <3> QED BY <1>2, <2>1, <3>1
  <2>3. FilesFit'
    BY <1>1, <1>2, <2>1, <2>2 DEF FileInv, FilesFit
  <2>4. restoring' # {}
    BY <2>1
  <2>5. ASSUME NEW y \in Runs PROVE CopyFits(y)'
    <3>1. CopyFits(y) /\ holes[y] \subseteq Files /\ copy[y].rows \subseteq Files
      BY DEF FileInv, RunInv, RunTypes, Copy
    <3>2. holes[y] \subseteq holes'[y] /\ (stage[y] = 2 => holes'[y] = Files)
      BY <1>1, <3>1 DEF Live
    <3> QED BY <1>1, <2>4, <3>1, <3>2 DEF CopyFits
  <2> QED BY <2>3, <2>5 DEF FileInv
<1>4. CASE RestoreFails(x)
  <2>1. /\ known' \in {known, copy[x].rows, {}} /\ restoring' = restoring
        /\ excused' = (IF known' = known THEN excused
                       ELSE known' \cup (excused \cap uploading))
    BY <1>4 DEF RestoreFails
  <2>2. \A e \in restoring' : e[1] # restores'
    BY <1>1, <2>1
  <2>3. uploading \cap known' = {}
    BY <1>2, <2>1 DEF FileInv, FilesFit
  <2>4. restoring = {} => /\ known' \ excused' \subseteq stored
                          /\ uploading \subseteq stored \cup excused'
    BY <2>1 DEF FileInv, FilesFit
  <2>5. FilesFit'
    BY <1>1, <2>1, <2>2, <2>3, <2>4 DEF FilesFit
  <2>6. ASSUME NEW y \in Runs PROVE CopyFits(y)'
    <3>1. CopyFits(y) /\ holes[y] \subseteq Files /\ copy[y].rows \subseteq Files
      BY DEF FileInv, RunInv, RunTypes, Copy
    <3>2. holes[y] \subseteq holes'[y] /\ (stage[y] = 2 => holes'[y] = Files)
      BY <1>1, <3>1 DEF Live
    <3> QED BY <1>1, <2>1, <3>1, <3>2 DEF CopyFits
  <2> QED BY <2>5, <2>6 DEF FileInv
<1> QED BY <1>3, <1>4

\* The last restore finds its rows as it left them; any other that is the last
\* to bring files is marked.
LEMMA RestoreFilesFiles ==
  ASSUME RunInv, FileInv, NEW x \in Runs, NEW n \in Nat, RestoreFiles(n, x)
  PROVE  FileInv'
<1>1. /\ <<n, x>> \in restoring /\ restoring' = restoring \ {<<n, x>>}
      /\ UNCHANGED <<known, uploading, copy, stage, holes, restores>>
      /\ \/ /\ copy[x].packed /\ stored' = copy[x].files
            /\ Matches(n) /\ excused' = excused \cup uploading
         \/ excused' = known \cup uploading
  <2>1. /\ <<n, x>> \in restoring /\ restoring' = restoring \ {<<n, x>>}
        /\ UNCHANGED <<known, uploading, copy, stage, holes, restores>>
    BY DEF RestoreFiles
  <2>2. CASE excused' = (IF Matches(n) THEN excused \cup uploading ELSE known \cup uploading)
             /\ copy[x].packed /\ stored' = copy[x].files
    BY <2>1, <2>2
  <2>3. CASE excused' = known \cup uploading
    BY <2>1, <2>3
  <2> QED BY <2>2, <2>3 DEF RestoreFiles
<1>2. ASSUME excused' = known \cup uploading
      PROVE  FilesFit'
  BY <1>1, <1>2 DEF FileInv, FilesFit
<1>3. ASSUME copy[x].packed, stored' = copy[x].files, Matches(n),
             excused' = excused \cup uploading
      PROVE  FilesFit'
  <2>1. ASSUME restoring' = {}
        PROVE  known \ excused' \subseteq stored'
    <3>1. n = restores
      BY <1>1, <1>3, <2>1 DEF Matches
    <3>2. <<n, x>>[1] = restores /\ <<n, x>>[2] = x
      BY <3>1
    <3>3. known \ excused \subseteq copy[x].files
      BY <1>1, <1>3, <3>2 DEF FileInv, FilesFit
    <3> QED BY <1>3, <3>3
  <2>2. ASSUME NEW e \in restoring', e[1] = restores
        PROVE  known \ excused' \subseteq (IF copy[e[2]].packed THEN copy[e[2]].files ELSE {})
    <3>0. restoring' \subseteq restoring
      BY <1>1
    <3>1. known \ excused \subseteq (IF copy[e[2]].packed THEN copy[e[2]].files ELSE {})
      BY <2>2, <3>0 DEF FileInv, FilesFit
    <3> QED BY <1>3, <3>1
  <2> QED BY <1>1, <1>3, <2>1, <2>2 DEF FileInv, FilesFit
<1>4. ASSUME NEW y \in Runs PROVE CopyFits(y)'
  <2>1. CopyFits(y) /\ copy[y].rows \subseteq Files /\ restoring # {}
    BY <1>1 DEF FileInv, RunInv, RunTypes, Copy
  <2> QED BY <1>1, <2>1 DEF CopyFits
<1> QED BY <1>1, <1>2, <1>3, <1>4 DEF FileInv

LEMMA CrashFiles ==
  ASSUME RunInv, FileInv, Crash
  PROVE  FileInv'
<1>1. /\ stage' = [x \in Runs |-> IF Begun(x) THEN 4 ELSE 0]
      /\ restoring' = {} /\ uploading' = {}
      /\ restoring = {} => UNCHANGED <<stored, excused>>
      /\ restoring # {} => excused' = known
      /\ UNCHANGED <<known, copy, holes, restores>>
  BY DEF Crash
<1>2. FilesFit'
  BY <1>1 DEF FileInv, FilesFit
<1>3. ASSUME NEW y \in Runs PROVE CopyFits(y)'
  <2>1. CopyFits(y) /\ stage'[y] = (IF stage[y] # 0 THEN 4 ELSE 0)
    BY <1>1 DEF FileInv, Begun
  <2> QED BY <1>1, <2>1 DEF CopyFits
<1> QED BY <1>2, <1>3 DEF FileInv

-----------------------------------------------------------------------------
(* The last good backup.                                                   *)

\* No administrator has removed any, none was restored.
Undisturbed == removals = 0 /\ restores = 0

\* A success no removal has.
Safe(y) == /\ backups[y].status = "success" /\ y \in dirs
           /\ \A p \in Removers : y \notin removing[p]

\* A step that only lets runs begin or go on: no row becomes a success or is
\* marked deleted, no prune begins.
LEMMA KeptRest ==
  ASSUME RunInv, Kept, dirs \subseteq dirs', today' = today,
         \A p \in Removers : removing'[p] \subseteq removing[p],
         removals' = 0 /\ restores' = 0 => Undisturbed,
         \A x \in Runs : backups[x].status \in {"success", "deleted"} => backups'[x] = backups[x],
         \A x \in Runs : backups'[x].status \in {"success", "deleted"} => backups'[x] = backups[x],
         \A x \in Runs : stage'[x] \in 1..3 =>
           \/ /\ x \in dirs' /\ backups'[x].status = "running"
              /\ today <= backups'[x].at + 1
           \/ Live(x) /\ backups'[x] = backups[x]
  PROVE  Kept'
<1> SUFFICES ASSUME removals' = 0, restores' = 0
             PROVE  /\ removing'["admin"] = {}
                    /\ \A x \in Runs : stage'[x] \in 1..3 =>
                         /\ backups'[x].status = "running" /\ x \in dirs'
                         /\ today' <= backups'[x].at + 1
                    /\ \A p \in Removers : \A x \in removing'[p] :
                         backups'[x].status \in {"success", "deleted"}
                    /\ (\E x \in Runs : backups'[x].status \in {"success", "deleted"}) =>
                         \E y \in Runs : /\ backups'[y].status = "success" /\ y \in dirs'
                                         /\ \A p \in Removers : y \notin removing'[p]
  BY DEF Kept, Live
<1>1. /\ removing["admin"] = {}
      /\ \A x \in Runs : Live(x) => /\ backups[x].status = "running" /\ x \in dirs
                                    /\ today <= backups[x].at + 1
      /\ \A p \in Removers : \A x \in removing[p] : backups[x].status \in {"success", "deleted"}
      /\ (\E x \in Runs : backups[x].status \in {"success", "deleted"}) => \E y \in Runs : Safe(y)
  BY DEF Kept, Undisturbed, Safe
<1>2. "admin" \in Removers
  BY DEF Removers
<1>3. \A p \in Removers : removing[p] \subseteq Runs
  BY DEF RunInv, RunTypes
<1>4. ASSUME \E x \in Runs : backups'[x].status \in {"success", "deleted"}
      PROVE  \E y \in Runs : /\ backups'[y].status = "success" /\ y \in dirs'
                             /\ \A p \in Removers : y \notin removing'[p]
  <2>1. PICK y \in Runs : Safe(y)
    BY <1>1, <1>4
  <2> QED BY <2>1 DEF Safe
<1> QED BY <1>1, <1>2, <1>3, <1>4

LEMMA KeptRuns ==
  ASSUME RunInv, Kept,
         \/ \E f \in Files : Upload(f) \/ UploadRow(f) \/ Remove(f)
         \/ \E x \in Runs : Tick(x) \/ Manual(x) \/ Save(x) \/ TarFails(x) \/ AskRestore(x)
         \/ \E x \in Runs, n \in 1..MaxRestores : RestoreFiles(n, x)
  PROVE  Kept'
<1>1. CASE \/ \E f \in Files : Upload(f) \/ UploadRow(f) \/ Remove(f)
           \/ \E x \in Runs : AskRestore(x)
           \/ \E x \in Runs, n \in 1..MaxRestores : RestoreFiles(n, x)
  <2>1. UNCHANGED <<today, backups, dirs, stage, removing, restores, removals>>
    BY <1>1 DEF Upload, UploadRow, Remove, AskRestore, RestoreFiles
  <2> QED BY <2>1 DEF Kept, Live
<1>2. ASSUME NEW x \in Runs, Save(x) \/ TarFails(x) PROVE Kept'
  <2>1. /\ UNCHANGED <<today, backups, dirs, removing, restores, removals>>
        /\ stage[x] \in {1, 2} /\ stage' = [stage EXCEPT ![x] = stage[x] + 1]
    BY <1>2 DEF Save, TarFails, steady
  <2>2. \A y \in Runs : stage'[y] \in 1..3 => stage[y] \in 1..3
    BY <2>1 DEF RunInv, RunTypes
  <2> QED BY <2>1, <2>2 DEF Kept, Live
<1>3. ASSUME NEW x \in Runs, NEW kind, Begin(x, kind) PROVE Kept'
  <2> DEFINE new == [status |-> "running", kind |-> kind, at |-> today, end |-> 0]
  <2>1. /\ stage[x] = 0 /\ dirs' = dirs \cup {x} /\ stage' = [stage EXCEPT ![x] = 1]
        /\ backups' = [backups EXCEPT ![x] = new]
        /\ UNCHANGED <<today, removing, restores, removals>>
    BY <1>3 DEF Begin, Begun, steady
  <2>2. new.status = "running" /\ today <= new.at + 1
    BY DEF RunInv, SystemTypes
  <2> HIDE DEF new
  <2>3. backups[x].status = "none"
    <3>1. backups[x] = NoRow
      BY <2>1 DEF RunInv, RunFits, RowFits
    <3> QED BY <3>1 DEF NoRow
  <2>4. \A y \in Runs : y # x => backups'[y] = backups[y] /\ stage'[y] = stage[y]
    BY <2>1 DEF RunInv, RunTypes
  <2>5. backups'[x] = new
    BY <2>1 DEF RunInv, RunTypes
  <2>6. \A y \in Runs : stage'[y] \in 1..3 =>
           \/ /\ y \in dirs' /\ backups'[y].status = "running"
              /\ today <= backups'[y].at + 1
           \/ Live(y) /\ backups'[y] = backups[y]
    BY <2>1, <2>2, <2>4, <2>5 DEF Live
  <2>7. \A y \in Runs :
          /\ backups[y].status \in {"success", "deleted"} => backups'[y] = backups[y]
          /\ backups'[y].status \in {"success", "deleted"} => backups'[y] = backups[y]
    BY <2>2, <2>3, <2>4, <2>5
  <2> QED BY <2>1, <2>6, <2>7, KeptRest DEF Undisturbed
<1> QED BY <1>1, <1>2, <1>3 DEF Tick, Manual

LEMMA KeptFinish ==
  ASSUME BackupsOK, RunInv, Kept, NEW x \in Runs, Finish(x)
  PROVE  Kept'
<1>1. /\ stage[x] = 3 /\ Ended(x, "success")
      /\ removing' = IF backups[x].kind = "scheduled"
                     THEN [removing EXCEPT ![x] = Stale] ELSE removing
  BY DEF Finish
<1>2. /\ backups' \in [Runs -> Row]
      /\ \A y \in Runs : y # x => backups'[y] = backups[y]
      /\ \/ backups[x] = NoRow /\ backups'[x] = backups[x]
         \/ backups'[x].status = "success"
      /\ stage' = [stage EXCEPT ![x] = 4] /\ UNCHANGED <<today, dirs, restores, removals>>
  BY <1>1, EndedRow DEF steady
<1>3. SUFFICES ASSUME removals = 0, restores = 0
               PROVE  Kept'
  BY <1>2 DEF Kept
<1>4. /\ removing["admin"] = {}
      /\ \A y \in Runs : Live(y) => /\ backups[y].status = "running" /\ y \in dirs
                                    /\ today <= backups[y].at + 1
      /\ \A p \in Removers : \A y \in removing[p] : backups[y].status \in {"success", "deleted"}
  BY <1>3 DEF Kept
<1>5. backups[x].status = "running" /\ x \in dirs
  BY <1>1, <1>4 DEF Live
<1>6. backups'[x].status = "success"
  BY <1>2, <1>5 DEF NoRow
<1>7. \A y \in Stale : y \in Runs /\ backups[y].status = "success" /\ y # x
  BY <1>5 DEF Stale
<1>8. "admin" # x /\ x \in Removers /\ "admin" \in Removers
  BY DEF BackupsOK, Removers
<1>9. \A p \in Removers : removing'[p] = removing[p] \/ removing'[p] = Stale
  BY <1>1 DEF RunInv, RunTypes
<1>10. \A p \in Removers : \A y \in removing'[p] :
         y \in Runs /\ y # x /\ backups[y].status \in {"success", "deleted"}
  BY <1>4, <1>5, <1>7, <1>9 DEF RunInv, RunTypes
<1>11. removing'["admin"] = {}
  BY <1>1, <1>4, <1>8 DEF RunInv, RunTypes
<1>12. \A y \in Runs : stage'[y] \in 1..3 => y # x /\ stage[y] \in 1..3
  BY <1>2 DEF RunInv, RunTypes
<1>13. \A y \in Runs : stage'[y] \in 1..3 =>
         /\ backups'[y].status = "running" /\ y \in dirs' /\ today' <= backups'[y].at + 1
  BY <1>2, <1>4, <1>12 DEF Live
<1>14. \A p \in Removers : \A y \in removing'[p] : backups'[y].status \in {"success", "deleted"}
  BY <1>2, <1>10
<1>15. /\ backups'[x].status = "success" /\ x \in dirs'
       /\ \A p \in Removers : x \notin removing'[p]
  BY <1>2, <1>5, <1>6, <1>10
<1> QED BY <1>11, <1>13, <1>14, <1>15 DEF Kept, Live

LEMMA KeptFail ==
  ASSUME RunInv, Kept, NEW x \in Runs, Fail(x)
  PROVE  Kept'
<1>1. stage[x] \in 1..3 /\ Ended(x, "failed") /\ UNCHANGED removing
  BY DEF Fail, Live
<1>2. /\ \A y \in Runs : y # x => backups'[y] = backups[y]
      /\ \/ backups[x] = NoRow /\ backups'[x] = backups[x]
         \/ backups'[x].status = "failed"
      /\ stage' = [stage EXCEPT ![x] = 4] /\ UNCHANGED <<today, dirs, restores, removals>>
  BY <1>1, EndedRow DEF steady
<1>3. SUFFICES ASSUME removals = 0, restores = 0
               PROVE  Kept'
  BY <1>2 DEF Kept
<1>4. backups[x].status = "running"
  BY <1>1, <1>3 DEF Kept, Live
<1>5. backups'[x].status = "failed"
  BY <1>2, <1>4 DEF NoRow
<1>6. \A y \in Runs : stage'[y] \in 1..3 => y # x /\ stage[y] \in 1..3
  BY <1>2 DEF RunInv, RunTypes
<1>7. \A y \in Runs :
         /\ backups[y].status \in {"success", "deleted"} => backups'[y] = backups[y]
         /\ backups'[y].status \in {"success", "deleted"} => backups'[y] = backups[y]
  BY <1>2, <1>4, <1>5
<1>8. \A y \in Runs : stage'[y] \in 1..3 => Live(y) /\ backups'[y] = backups[y]
  BY <1>2, <1>6 DEF Live
<1> QED BY <1>1, <1>2, <1>3, <1>7, <1>8, KeptRest DEF Undisturbed

LEMMA KeptRemove ==
  ASSUME RunInv, Kept,
         \/ \E p \in Removers : \E y \in removing[p] : RemoveDir(p, y) \/ MarkDeleted(p, y)
         \/ Crash
  PROVE  Kept'
<1>1. ASSUME NEW p \in Removers, NEW y \in removing[p], RemoveDir(p, y) PROVE Kept'
  <2>1. dirs' = dirs \ {y} /\ UNCHANGED <<today, backups, stage, removing, restores, removals>>
    BY <1>1 DEF RemoveDir, steady
  <2>2. SUFFICES ASSUME removals = 0, restores = 0
                 PROVE  Kept'
    BY <2>1 DEF Kept
  <2>3. \A x \in Runs : Live(x) => x # y
    BY <2>2 DEF Kept
  <2> QED BY <2>1, <2>2, <2>3 DEF Kept, Live
<1>2. ASSUME NEW p \in Removers, NEW y \in removing[p], MarkDeleted(p, y) PROVE Kept'
  <2> DEFINE new == [backups[y] EXCEPT !.status = "deleted"]
  <2>1. /\ removing' = [removing EXCEPT ![p] = removing[p] \ {y}]
        /\ backups' = IF backups[y] = NoRow THEN backups ELSE [backups EXCEPT ![y] = new]
        /\ UNCHANGED <<today, dirs, stage, restores, removals>>
    BY <1>2 DEF MarkDeleted, steady
  <2>2. SUFFICES ASSUME removals = 0, restores = 0
                 PROVE  Kept'
    BY <2>1 DEF Kept
  <2>3. y \in Runs /\ new.status = "deleted"
    BY DEF RunInv, RunTypes, Row
  <2> HIDE DEF new
  <2>4. \A q \in Removers : removing'[q] \subseteq removing[q]
    BY <2>1 DEF RunInv, RunTypes
  <2>5. \A x \in Runs : backups'[x] = backups[x] \/ (x = y /\ backups'[x].status = "deleted")
    BY <2>1, <2>3 DEF RunInv, RunTypes
  <2>6. /\ removing["admin"] = {} /\ "admin" \in Removers
        /\ \A x \in Runs : Live(x) => /\ backups[x].status = "running" /\ x \in dirs
                                      /\ today <= backups[x].at + 1
        /\ \A q \in Removers : \A x \in removing[q] :
             x \in Runs /\ backups[x].status \in {"success", "deleted"}
    BY <2>2 DEF Kept, Removers, RunInv, RunTypes
  <2>7. \A x \in Runs : Live(x) => x # y
    BY <2>6
  <2>8. \A x \in Runs : Live(x) => backups'[x] = backups[x]
    BY <2>5, <2>7
  <2>9. PICK z \in Runs : /\ backups[z].status = "success" /\ z \in dirs
                          /\ \A q \in Removers : z \notin removing[q]
    BY <2>2, <2>6 DEF Kept
  <2>10. backups'[z] = backups[z] /\ \A q \in Removers : z \notin removing'[q]
    BY <2>4, <2>5, <2>9
  <2>11. \A q \in Removers : \A x \in removing'[q] : backups'[x].status \in {"success", "deleted"}
    BY <2>4, <2>5, <2>6
  <2> QED BY <2>1, <2>4, <2>6, <2>8, <2>9, <2>10, <2>11 DEF Kept, Live
<1>3. CASE Crash
  <2>1. /\ stage' = [x \in Runs |-> IF Begun(x) THEN 4 ELSE 0]
        /\ removing' = [p \in Removers |-> {}]
        /\ UNCHANGED <<today, backups, dirs, restores, removals>>
    BY <1>3 DEF Crash
  <2>2. "admin" \in Removers /\ \A x \in Runs : stage'[x] \notin 1..3
    BY <2>1 DEF Removers
  <2> QED BY <2>1, <2>2 DEF Kept, Live
<1> QED BY <1>1, <1>2, <1>3

LEMMA KeptTomorrow ==
  ASSUME BackupsOK, RunInv, Kept, Tomorrow
  PROVE  Kept'
<1>1. /\ today' = today + 1 /\ UNCHANGED <<backups, dirs, stage, removing, restores, removals>>
      /\ \A x \in Runs : Live(x) /\ backups[x] # NoRow => backups[x].at = today
  BY DEF Tomorrow, steady
<1>2. SUFFICES ASSUME removals = 0, restores = 0
               PROVE  Kept'
  BY <1>1 DEF Kept
<1>3. ASSUME NEW x \in Runs, Live(x) PROVE today' <= backups[x].at + 1
  <2>1. backups[x].status = "running" /\ NoRow.status = "none"
    BY <1>2, <1>3 DEF Kept, NoRow
  <2> QED BY <1>1, <1>3, <2>1 DEF RunInv, SystemTypes
<1> QED BY <1>1, <1>2, <1>3 DEF Kept, Live

\* A restore or an administrator disturbs it.
LEMMA KeptDisturbed ==
  ASSUME RunInv,
         \/ \E x \in Runs : RestoreRows(x) \/ RestoreFails(x)
         \/ \E S \in SUBSET Runs : AdminRemoves(S)
  PROVE  Kept'
<1>1. restores' = restores + 1 \/ removals' = removals + 1
  BY DEF RestoreRows, RestoreFails, Restore, AdminRemoves
<1>2. restores + 1 # 0 /\ removals + 1 # 0
  BY DEF RunInv, SystemTypes
<1> QED BY <1>1, <1>2 DEF Kept

-----------------------------------------------------------------------------

LEMMA BackupStep ==
  ASSUME BackupsOK, BackupInv, [Next]_vars
  PROVE  BackupInv'
<1> USE DEF BackupInv
<1>1. ASSUME NEW f \in Files, Upload(f) \/ UploadRow(f) \/ Remove(f) PROVE BackupInv'
  BY <1>1, AttachmentRuns, AttachmentFiles, KeptRuns
<1>2. ASSUME NEW x \in Runs, Tick(x) \/ Manual(x) PROVE BackupInv'
  <2>1. PICK kind \in {"scheduled", "manual"} : Begin(x, kind)
    BY <1>2 DEF Tick, Manual
  <2>2. FileInv'
    <3>1. /\ stage' = [stage EXCEPT ![x] = 1] /\ stage[x] = 0
          /\ UNCHANGED <<known, stored, uploading, restoring, excused, copy, holes, restores>>
      BY <2>1 DEF Begin, Begun, steady
    <3>2. \A y \in Runs : /\ stage'[y] = 2 => stage[y] = 2
                          /\ stage[y] \in {3, 4} => stage'[y] \in {3, 4}
      BY <3>1 DEF RunInv, RunTypes
    <3> QED BY <3>1, <3>2, FilesRest
  <2> QED BY <1>2, <2>1, <2>2, BeginRuns, KeptRuns
<1>3. ASSUME NEW x \in Runs, Save(x) PROVE BackupInv'
  BY <1>3, SaveRuns, SaveFiles, KeptRuns
<1>4. ASSUME NEW x \in Runs, TarFails(x) PROVE BackupInv'
  <2>1. FileInv'
    <3>1. /\ stage[x] \in {1, 2} /\ stage[x] # 1 /\ stage' = [stage EXCEPT ![x] = stage[x] + 1]
          /\ UNCHANGED <<known, stored, uploading, restoring, excused, copy, holes, restores>>
      BY <1>4, TarLast DEF TarFails, steady
    <3>2. \A y \in Runs : /\ stage'[y] = 2 => stage[y] = 2
                          /\ stage[y] \in {3, 4} => stage'[y] \in {3, 4}
      BY <3>1 DEF RunInv, RunTypes
    <3> QED BY <3>1, <3>2, FilesRest
  <2> QED BY <1>4, <2>1, TarRuns, KeptRuns
<1>5. ASSUME NEW x \in Runs, Finish(x) \/ Fail(x) PROVE BackupInv'
  <2>1. FileInv'
    <3>1. /\ stage[x] \in 1..3 /\ stage' = [stage EXCEPT ![x] = 4]
          /\ UNCHANGED <<known, stored, uploading, restoring, excused, copy, holes, restores>>
      BY <1>5 DEF Finish, Fail, Live, Ended, steady
    <3>2. \A y \in Runs : /\ stage'[y] = 2 => stage[y] = 2
                          /\ stage[y] \in {3, 4} => stage'[y] \in {3, 4}
      BY <3>1 DEF RunInv, RunTypes
    <3> QED BY <3>1, <3>2, FilesRest
  <2> QED BY <1>5, <2>1, EndRuns, KeptFinish, KeptFail
<1>6. ASSUME NEW x \in Runs, RestoreRows(x) \/ RestoreFails(x) PROVE BackupInv'
  BY <1>6, RestoreRuns, RestoreBeginFiles, KeptDisturbed
<1>7. ASSUME NEW x \in Runs, NEW n \in 1..MaxRestores, RestoreFiles(n, x) PROVE BackupInv'
  <2>1. n \in Nat
    OBVIOUS
  <2> QED BY <1>7, <2>1, RestoreEndRuns, RestoreFilesFiles, KeptRuns
<1>13. ASSUME NEW x \in Runs, AskRestore(x) PROVE BackupInv'
  <2>1. UNCHANGED <<known, stored, uploading, restoring, excused, copy, holes, restores, stage>>
    BY <1>13 DEF AskRestore
  <2>2. 0 \in Nat
    OBVIOUS
  <2>3. RunInv' /\ Kept'
    BY <1>13, <2>2, RestoreEndRuns, KeptRuns
  <2> QED BY <2>1, <2>3, FilesRest
<1>8. ASSUME NEW S \in SUBSET Runs, AdminRemoves(S) PROVE BackupInv'
  <2>1. UNCHANGED <<known, stored, uploading, restoring, excused, copy, holes, restores, stage>>
    BY <1>8 DEF AdminRemoves
  <2> QED BY <1>8, <2>1, FilesRest, RemoveRuns, KeptDisturbed
<1>9. ASSUME NEW p \in Removers, NEW y \in removing[p], RemoveDir(p, y) \/ MarkDeleted(p, y)
      PROVE  BackupInv'
  <2>1. UNCHANGED <<known, stored, uploading, restoring, excused, copy, holes, restores, stage>>
    BY <1>9 DEF RemoveDir, MarkDeleted, steady
  <2> QED BY <1>9, <2>1, FilesRest, RemoveRuns, KeptRemove
<1>10. CASE Crash
  BY <1>10, CrashRuns, CrashFiles, KeptRemove
<1>11. CASE Tomorrow
  <2>1. UNCHANGED <<known, stored, uploading, restoring, excused, copy, holes, restores, stage>>
    BY <1>11 DEF Tomorrow, steady
  <2> QED BY <1>11, <2>1, FilesRest, TomorrowRuns, KeptTomorrow
<1>12. CASE UNCHANGED vars
  <2>1. RunInv'
    BY <1>12, RunsRest DEF vars, RunInv, SystemTypes, RunTypes
  <2>2. FileInv'
    BY <1>12, FilesRest DEF vars
  <2>3. Kept'
    BY <1>12 DEF vars, Kept, Live
  <2> QED BY <2>1, <2>2, <2>3
<1> QED BY <1>1, <1>2, <1>3, <1>4, <1>5, <1>6, <1>7, <1>8, <1>9, <1>10, <1>11, <1>12, <1>13
    DEF Next

LEMMA BackupInvHolds == ASSUME BackupsOK PROVE Spec => []BackupInv
<1>1. Init => BackupInv
  BY BackupInit
<1>2. BackupInv /\ [Next]_vars => BackupInv'
  BY BackupStep
<1> QED BY <1>1, <1>2, PTL DEF Spec

\* Every variable of backups and restores has its type.
THEOREM BackupTypes == ASSUME BackupsOK PROVE Spec => []TypeOK
<1>1. BackupInv => TypeOK
  <2> SUFFICES ASSUME BackupInv PROVE TypeOK
    OBVIOUS
  <2>1. /\ today \in 1..MaxDay /\ known \cup stored \cup uploading \cup excused \subseteq Files
    BY DEF BackupInv, RunInv, SystemTypes
  <2>2. ASSUME NEW x \in Runs
        PROVE  /\ backups[x].status \in Status
               /\ backups[x].at <= today /\ backups[x].end <= today
               /\ ~Begun(x) => x \notin dirs /\ backups[x] = NoRow /\ copy[x] = NoCopy
               /\ backups[x].status = "success" => copy[x].dumped
    BY DEF BackupInv, RunInv, RunTypes, RunFits, RowFits, Row, Begun
  <2>3. \A p \in Removers : \A x \in removing[p] : Begun(x)
    BY DEF BackupInv, RunInv, RunTypes, RunFits, Begun
  <2> QED BY <2>1, <2>2, <2>3 DEF TypeOK, Status
<1> QED BY <1>1, BackupInvHolds, PTL

\* deleteBackup, restoreFromBackup and the uploads and deletions beside them:
\* every attachment row has its file, but for the known cases.
THEOREM RestoresWhole == ASSUME BackupsOK PROVE Spec => []RestoredWhole
<1>1. BackupInv => RestoredWhole
  BY DEF BackupInv, FileInv, FilesFit, RestoredWhole
<1> QED BY <1>1, BackupInvHolds, PTL

\* The scheduler prunes after a success only, and never that success: one is
\* always left to restore.
THEOREM LastGoodStays == ASSUME BackupsOK PROVE Spec => []LastGoodKept
<1>1. BackupInv => LastGoodKept
  BY DEF BackupInv, RunInv, RunFits, RowFits, Kept, LastGoodKept, Restorable
<1> QED BY <1>1, BackupInvHolds, PTL

-----------------------------------------------------------------------------
(* Schedule changes.                                                       *)

\* What each variable may hold, and which rows a promotion may hold.
ChangesTyped ==
    /\ today \in Nat /\ created \in 0..MaxChanges
    /\ DOMAIN changes \subseteq 1..created
    /\ \A c \in DOMAIN changes : changes[c] \in L!Change
    /\ applied \subseteq DOMAIN changes
    /\ pc \in [Callers -> {"idle", "apply"}]
    /\ batch \in [Callers -> SUBSET DOMAIN changes]
    /\ \A p \in Callers : pc[p] = "idle" => batch[p] = {}
    /\ parent \in [L!Fields -> Nat]
    /\ \A f \in L!Fields : parent[f] # 0 => parent[f] \in L!Setting(applied, f)
    /\ uses \in [L!Ids -> Nat]

\* SKIP LOCKED: a row is in one promotion's hands, and in none's once applied.
LocksHold ==
    /\ \A p, q \in Callers : p # q => batch[p] \cap batch[q] = {}
    /\ \A p \in Callers : batch[p] \cap applied = {}

\* A change that was folded in is applied, and was folded in once.
Counted == L!FoldedOnce /\ \A c \in L!Ids : uses[c] > 0 => c \in applied

\* The rows of promotions under way beside each other are known to be.
Overlaps ==
    \A p, q \in Callers :
      p # q /\ pc[p] = "apply" /\ pc[q] = "apply" => batch[p] \subseteq crossed

\* What is still to be applied comes after what is applied or about to be, but
\* for what the same promotion is about to apply.
Passed(c, d) == L!After(c, d) \/ {c, d} \cap (crossed \cup late) # {}
InOrder ==
    \A c \in DOMAIN changes \ applied, d \in applied \cup L!Locked :
      (\E p \in Callers : {c, d} \subseteq batch[p]) \/ Passed(c, d)

-----------------------------------------------------------------------------
(* Of several changes that set a field, one comes last.                    *)

LEMMA Largest ==
  ASSUME NEW N \in Nat, NEW S, S \subseteq 0..N, S # {}
  PROVE  \E m \in S : \A x \in S : x <= m
<1> DEFINE R == OpToRel(<, Nat)
           T == {N - x : x \in S}
<1>1. IsWellFoundedOn(R, Nat)
  BY NatLessThanWellFounded
<1>2. T \subseteq Nat /\ T # {}
  <2>1. \A x \in S : x \in 0..N /\ N - x \in Nat
    OBVIOUS
  <2>2. \E x \in S : N - x \in T
    OBVIOUS
  <2> QED
    BY <2>1, <2>2
<1>3. \E t \in T : \A u \in T : ~(<<u, t>> \in R)
  <2> HIDE DEF R, T
  <2> QED
    BY <1>1, <1>2, WFMin
<1>4. PICK t \in T : \A u \in T : ~(u < t)
  <2>1. PICK t \in T : \A u \in T : ~(<<u, t>> \in R)
    BY <1>3
  <2>2. \A u \in T : ~(u < t)
    BY <2>1, <1>2 DEF OpToRel
  <2> QED
    BY <2>2
<1>5. PICK m \in S : t = N - m
  OBVIOUS
<1>6. ASSUME NEW x \in S
      PROVE  x <= m
  <2>1. ~(N - x < t)
    BY <1>4
  <2> QED
    BY <2>1, <1>5
<1> QED
  BY <1>6

LEMMA LastIsLast ==
  ASSUME L!ChangesOK, ChangesTyped, NEW f \in L!Fields, NEW S \in SUBSET DOMAIN changes,
         L!Setting(S, f) # {}
  PROVE  /\ L!Last(S, f) \in L!Setting(S, f)
         /\ \A d \in L!Setting(S, f) \ {L!Last(S, f)} : L!After(L!Last(S, f), d)
<1> DEFINE C == L!Setting(S, f)
           Days == {changes[c].due : c \in C}
<1>1. \A c \in C : c \in 1..MaxChanges /\ changes[c].due \in 1..MaxDay
  BY DEF L!Setting, L!ChangesOK, ChangesTyped, L!Change
<1>2. Days \subseteq 0..MaxDay /\ Days # {}
  BY <1>1 DEF L!ChangesOK
<1>3. PICK day \in Days : \A e \in Days : e <= day
  <2> HIDE DEF Days
  <2> QED
    BY <1>2, Largest DEF L!ChangesOK
<1> DEFINE B == {c \in C : changes[c].due = day}
<1>4. B \subseteq 0..MaxChanges /\ B # {}
  BY <1>1, <1>3 DEF L!ChangesOK
<1>5. PICK m \in B : \A c \in B : c <= m
  <2> HIDE DEF B
  <2> QED
    BY <1>4, Largest DEF L!ChangesOK
<1>6. ASSUME NEW d \in C \ {m}
      PROVE  L!After(m, d)
  <2>1. /\ changes[m].due = day /\ changes[d].due <= day
        /\ changes[d].due \in 1..MaxDay /\ day \in 1..MaxDay
    BY <1>1, <1>3, <1>5, <1>6
  <2>2. changes[d].due = day => d <= m /\ d \in Nat /\ m \in Nat
    BY <1>1, <1>5, <1>6
  <2> QED
    BY <2>1, <2>2, <1>6 DEF L!After
<1>7. \E c \in C : \A d \in C \ {c} : L!After(c, d)
  BY <1>5, <1>6
<1> QED
  BY <1>7 DEF L!Last

-----------------------------------------------------------------------------
(* Preservation, one lemma per part of the invariant.                      *)

\* The rows there are, and what is held of them, in the next state.
LEMMA ChangesInit ==
  ASSUME L!ChangesOK, L!Init
  PROVE  ChangesTyped /\ LocksHold /\ Counted /\ Overlaps /\ InOrder /\ L!LatestWins
<1> USE DEF L!Init
<1>1. ChangesTyped
  BY DEF L!ChangesOK, ChangesTyped, L!Ids, L!Setting
<1>2. LocksHold /\ Counted /\ Overlaps
  BY DEF L!ChangesOK, LocksHold, Counted, L!FoldedOnce, Overlaps, L!Ids
<1>3. InOrder /\ L!LatestWins
  BY DEF InOrder, L!Locked, L!LatestWins
<1> QED
  BY <1>1, <1>2, <1>3

LEMMA TypeStep ==
  ASSUME L!ChangesOK, ChangesTyped, [L!Next]_(L!vars)
  PROVE  ChangesTyped'
<1> USE DEF ChangesTyped, L!Setting
<1>1. CASE UNCHANGED L!vars
  BY <1>1 DEF L!vars
<1>2. ASSUME NEW due \in 1..MaxDay, NEW sets \in SUBSET L!Fields \ {{}}, L!Add(due, sets)
      PROVE  ChangesTyped'
  <2>1. created' = created + 1 /\ created' \in 0..MaxChanges
    BY <1>2 DEF L!Add, L!ChangesOK
  <2>2. /\ DOMAIN changes' = DOMAIN changes \cup {created'}
        /\ \A c \in DOMAIN changes' : c \in DOMAIN changes /\ c # created'
                                       => changes'[c] = changes[c]
        /\ changes'[created'] = [due |-> due, sets |-> sets]
    BY <1>2 DEF L!Add
  <2>3. [due |-> due, sets |-> sets] \in L!Change
    BY DEF L!Change
  <2>4. created' \notin DOMAIN changes
    BY <2>1
  <2>5. DOMAIN changes' \subseteq 1..created' /\ \A c \in DOMAIN changes' : changes'[c] \in L!Change
    BY <2>1, <2>2, <2>3
  <2>6. \A c \in applied : c \in DOMAIN changes /\ changes'[c] = changes[c]
    BY <2>2, <2>4
  <2> QED
    BY <1>2, <2>1, <2>2, <2>5, <2>6 DEF L!Add
<1>3. ASSUME NEW c \in L!Ids, L!Delete(c)
      PROVE  ChangesTyped'
  <2>1. /\ DOMAIN changes' = DOMAIN changes \ {c}
        /\ \A d \in DOMAIN changes' : changes'[d] = changes[d]
    BY <1>3 DEF L!Delete
  <2>2. \A p \in Callers : c \notin batch[p]
    BY <1>3 DEF L!Delete, L!Locked
  <2>3. applied \subseteq DOMAIN changes' /\ \A p \in Callers : batch[p] \subseteq DOMAIN changes'
    BY <1>3, <2>1, <2>2 DEF L!Delete
  <2>4. batch' \in [Callers -> SUBSET DOMAIN changes']
    BY <1>3, <2>3 DEF L!Delete
  <2> QED
    BY <1>3, <2>1, <2>3, <2>4 DEF L!Delete
<1>4. ASSUME NEW f \in L!Fields, L!Edit(f)
      PROVE  ChangesTyped'
  BY <1>4 DEF L!Edit
<1>5. ASSUME NEW p \in Callers, L!Look(p)
      PROVE  ChangesTyped'
  <2>1. L!Due \ L!Locked \in SUBSET DOMAIN changes
    BY DEF L!Due
  <2> QED
    BY <1>5, <2>1 DEF L!Look, L!Take
<1>6. ASSUME NEW p \in Callers, L!Apply(p)
      PROVE  ChangesTyped'
  <2> USE <1>6 DEF L!Apply
  <2>1. applied' \subseteq DOMAIN changes' /\ changes' = changes
    OBVIOUS
  <2>2. pc' \in [Callers -> {"idle", "apply"}] /\ batch' \in [Callers -> SUBSET DOMAIN changes']
        /\ \A q \in Callers : pc'[q] = "idle" => batch'[q] = {}
    OBVIOUS
  <2>3. uses' \in [L!Ids -> Nat]
    OBVIOUS
  <2>4. ASSUME NEW f \in L!Fields
        PROVE  parent'[f] \in Nat /\ (parent'[f] # 0 => parent'[f] \in L!Setting(applied, f)')
    <3>1. CASE L!Setting(batch[p], f) = {}
      BY <3>1
    <3>2. CASE L!Setting(batch[p], f) # {}
      <4>1. L!Last(batch[p], f) \in L!Setting(batch[p], f)
        BY <3>2, LastIsLast
      <4> QED
        BY <3>2, <4>1
    <3> QED
      BY <3>1, <3>2
  <2>5. parent' \in [L!Fields -> Nat]
    BY <2>4
  <2> QED
    BY <2>1, <2>2, <2>3, <2>4, <2>5
<1>7. ASSUME NEW p \in Callers, L!Rollback(p)
      PROVE  ChangesTyped'
  BY <1>7 DEF L!Rollback
<1>8. CASE L!Tomorrow
  BY <1>8 DEF L!Tomorrow
<1> QED
  BY <1>1, <1>2, <1>3, <1>4, <1>5, <1>6, <1>7, <1>8 DEF L!Next

LEMMA LocksStep ==
  ASSUME L!ChangesOK, ChangesTyped, LocksHold, Counted, Overlaps, [L!Next]_(L!vars)
  PROVE  LocksHold' /\ Counted' /\ Overlaps'
<1> USE DEF ChangesTyped, LocksHold, Counted, L!FoldedOnce, Overlaps
<1>1. CASE UNCHANGED <<applied, pc, batch, uses, crossed>>
  BY <1>1
<1>2. ASSUME NEW p \in Callers, L!Look(p)
      PROVE  LocksHold' /\ Counted' /\ Overlaps'
  <2> USE <1>2 DEF L!Look, L!Take
  <2>1. \A q \in Callers : batch'[q] = IF q = p THEN L!Due \ L!Locked ELSE batch[q]
    OBVIOUS
  <2>2. \A q \in Callers : batch[q] \subseteq L!Locked
    BY DEF L!Locked
  <2>3. LocksHold'
    BY <2>1, <2>2 DEF L!Due
  <2>4. ASSUME NEW q \in Callers, NEW s \in Callers, q # s, pc'[q] = "apply", pc'[s] = "apply"
        PROVE  batch'[q] \subseteq crossed'
    <3>1. CASE q # p /\ s # p
      BY <3>1, <2>1, <2>4
    <3>2. CASE q = p \/ s = p
      <4>1. \E t \in Callers \ {p} : pc[t] = "apply"
        BY <3>2, <2>4
      <4> QED
        BY <4>1, <2>1, <2>2
    <3> QED
      BY <3>1, <3>2
  <2>5. Overlaps'
    BY <2>4
  <2> QED
    BY <2>3, <2>5
<1>3. ASSUME NEW p \in Callers, L!Apply(p)
      PROVE  LocksHold' /\ Counted' /\ Overlaps'
  <2> USE <1>3 DEF L!Apply
  <2>1. \A q \in Callers : batch'[q] = IF q = p THEN {} ELSE batch[q]
    OBVIOUS
  <2>2. LocksHold' /\ Overlaps'
    BY <2>1
  <2>3. \A c \in L!Ids : c \in batch[p] => uses[c] = 0
    OBVIOUS
  <2>4. \A c \in L!Ids : uses'[c] = IF c \in batch[p] THEN uses[c] + 1 ELSE uses[c]
    OBVIOUS
  <2>5. Counted'
    BY <2>3, <2>4
  <2> QED
    BY <2>2, <2>5
<1>4. ASSUME NEW p \in Callers, L!Rollback(p)
      PROVE  LocksHold' /\ Counted' /\ Overlaps'
  BY <1>4 DEF L!Rollback
<1> QED
  BY <1>1, <1>2, <1>3, <1>4 DEF L!Next, L!vars, L!Add, L!Delete, L!Edit, L!Tomorrow

LEMMA OrderStep ==
  ASSUME L!ChangesOK, ChangesTyped, LocksHold, Overlaps, InOrder, [L!Next]_(L!vars)
  PROVE  InOrder'
<1> USE DEF ChangesTyped
<1> SUFFICES ASSUME NEW c \in DOMAIN changes' \ applied', NEW d \in applied' \cup L!Locked'
             PROVE  (\E p \in Callers : {c, d} \subseteq batch'[p]) \/ Passed(c, d)'
  BY DEF InOrder
<1>1. CASE UNCHANGED L!vars
  BY <1>1 DEF L!vars, InOrder, Passed, L!After, L!Locked
<1>2. ASSUME NEW due \in 1..MaxDay, NEW sets \in SUBSET L!Fields \ {{}}, L!Add(due, sets)
      PROVE  (\E p \in Callers : {c, d} \subseteq batch'[p]) \/ Passed(c, d)'
  <2> USE <1>2 DEF L!Add
  <2>1. /\ DOMAIN changes' = DOMAIN changes \cup {created'}
        /\ \A e \in DOMAIN changes : changes'[e] = changes[e]
        /\ changes'[created'].due = due
    OBVIOUS
  <2>2. d \in applied \cup L!Locked /\ d \in DOMAIN changes /\ d < created'
    BY DEF L!Locked
  <2>3. CASE c = created'
    <3>1. CASE changes[d].due > due
      BY <3>1, <2>2, <2>3 DEF Passed
    <3>2. CASE ~(changes[d].due > due)
      <4>1. changes[d].due \in 1..MaxDay
        BY <2>2 DEF L!Change
      <4> QED
        BY <3>2, <4>1, <2>1, <2>2, <2>3 DEF Passed, L!After
    <3> QED
      BY <3>1, <3>2
  <2>4. CASE c # created'
    <3>1. c \in DOMAIN changes \ applied
      BY <2>4, <2>1
    <3>2. (\E p \in Callers : {c, d} \subseteq batch[p]) \/ Passed(c, d)
      BY <3>1, <2>2 DEF InOrder
    <3>3. Passed(c, d) => Passed(c, d)'
      BY <3>1, <2>1, <2>2 DEF Passed, L!After
    <3> QED
      BY <3>2, <3>3
  <2> QED
    BY <2>3, <2>4
<1>3. ASSUME NEW e \in L!Ids, L!Delete(e)
      PROVE  (\E p \in Callers : {c, d} \subseteq batch'[p]) \/ Passed(c, d)'
  <2> USE <1>3 DEF L!Delete
  <2>1. d \in applied \cup L!Locked /\ c \in DOMAIN changes \ applied
        /\ c # e /\ d # e /\ d \in DOMAIN changes
    BY DEF L!Locked
  <2>2. changes'[c] = changes[c] /\ changes'[d] = changes[d]
    BY <2>1
  <2> QED
    BY <2>1, <2>2 DEF InOrder, Passed, L!After
<1>4. ASSUME NEW f \in L!Fields, L!Edit(f)
      PROVE  (\E p \in Callers : {c, d} \subseteq batch'[p]) \/ Passed(c, d)'
  BY <1>4 DEF L!Edit, InOrder, Passed, L!After, L!Locked
<1>5. ASSUME NEW p \in Callers, L!Look(p)
      PROVE  (\E q \in Callers : {c, d} \subseteq batch'[q]) \/ Passed(c, d)'
  <2> USE <1>5 DEF L!Look, L!Take
  <2>1. \A q \in Callers : batch'[q] = IF q = p THEN L!Due \ L!Locked ELSE batch[q]
    OBVIOUS
  <2>2. d \in applied \cup L!Locked \cup (L!Due \ L!Locked)
    BY <2>1 DEF L!Locked
  <2>3. CASE d \in applied \cup L!Locked
    <3>1. (\E q \in Callers : {c, d} \subseteq batch[q]) \/ Passed(c, d)
      BY <2>3 DEF InOrder
    <3>2. Passed(c, d) => Passed(c, d)'
      BY DEF Passed, L!After
    <3>3. \A q \in Callers : {c, d} \subseteq batch[q] => {c, d} \subseteq batch'[q]
      BY <2>1
    <3> QED
      BY <3>1, <3>2, <3>3
  <2>4. CASE d \in L!Due \ L!Locked /\ c \in L!Due \ L!Locked
    BY <2>1, <2>4
  <2>5. CASE d \in L!Due \ L!Locked /\ c \in L!Locked
    <3>1. PICK q \in Callers : c \in batch[q]
      BY <2>5 DEF L!Locked
    <3>2. q # p /\ pc[q] = "apply"
      BY <3>1
    <3>3. c \in crossed'
      BY <3>2, <2>5
    <3> QED
      BY <3>3 DEF Passed
  <2>6. CASE d \in L!Due \ L!Locked /\ c \notin L!Due
    <3>1. changes[c].due \in 1..MaxDay /\ changes[d].due \in 1..MaxDay
      BY <2>6 DEF L!Due, L!Change
    <3>2. ~(changes[c].due <= today) /\ changes[d].due <= today
      BY <2>6 DEF L!Due
    <3>3. changes[c].due > changes[d].due
      BY <3>1, <3>2
    <3> QED
      BY <3>3 DEF Passed, L!After
  <2> QED
    BY <2>2, <2>3, <2>4, <2>5, <2>6
<1>6. ASSUME NEW p \in Callers, L!Apply(p)
      PROVE  (\E q \in Callers : {c, d} \subseteq batch'[q]) \/ Passed(c, d)'
  <2> USE <1>6 DEF L!Apply
  <2>1. \A q \in Callers : batch'[q] = IF q = p THEN {} ELSE batch[q]
    OBVIOUS
  <2>2. d \in applied \cup L!Locked /\ c \in DOMAIN changes \ applied /\ c \notin batch[p]
    BY <2>1 DEF L!Locked
  <2>3. (\E q \in Callers : {c, d} \subseteq batch[q]) \/ Passed(c, d)
    BY <2>2 DEF InOrder
  <2>4. \A q \in Callers : {c, d} \subseteq batch[q] => {c, d} \subseteq batch'[q]
    BY <2>1, <2>2
  <2> QED
    BY <2>3, <2>4 DEF Passed, L!After
<1>7. ASSUME NEW p \in Callers, L!Rollback(p)
      PROVE  (\E q \in Callers : {c, d} \subseteq batch'[q]) \/ Passed(c, d)'
  <2> USE <1>7 DEF L!Rollback
  <2>1. \A q \in Callers : batch'[q] = IF q = p THEN {} ELSE batch[q]
    OBVIOUS
  <2>2. d \in applied \cup L!Locked /\ d \notin batch[p]
    BY <2>1 DEF L!Locked, LocksHold
  <2>3. (\E q \in Callers : {c, d} \subseteq batch[q]) \/ Passed(c, d)
    BY <2>2 DEF InOrder
  <2>4. \A q \in Callers : {c, d} \subseteq batch[q] => {c, d} \subseteq batch'[q]
    BY <2>1, <2>2
  <2> QED
    BY <2>3, <2>4 DEF Passed, L!After
<1>8. CASE L!Tomorrow
  BY <1>8 DEF L!Tomorrow, InOrder, Passed, L!After, L!Locked
<1> QED
  BY <1>1, <1>2, <1>3, <1>4, <1>5, <1>6, <1>7, <1>8 DEF L!Next

LEMMA LatestStep ==
  ASSUME L!ChangesOK, ChangesTyped, LocksHold, InOrder, L!LatestWins, [L!Next]_(L!vars)
  PROVE  L!LatestWins'
<1> USE DEF ChangesTyped
<1> SUFFICES ASSUME NEW f \in L!Fields, parent'[f] # 0,
                    NEW d \in L!Setting(applied, f)' \ {parent'[f]}
             PROVE  Passed(parent[f], d)'
  BY DEF L!LatestWins, Passed
<1>1. CASE UNCHANGED <<changes, applied, late, crossed>> /\ parent'[f] = parent[f]
  BY <1>1 DEF L!LatestWins, Passed, L!After, L!Setting
<1>2. ASSUME NEW due \in 1..MaxDay, NEW sets \in SUBSET L!Fields \ {{}}, L!Add(due, sets)
      PROVE  Passed(parent[f], d)'
  <2> USE <1>2 DEF L!Add
  <2>1. \A e \in applied : e \in DOMAIN changes /\ changes'[e] = changes[e]
    OBVIOUS
  <2>2. parent[f] \in applied /\ d \in L!Setting(applied, f) \ {parent[f]}
    BY <2>1 DEF L!Setting
  <2>3. Passed(parent[f], d)
    BY <2>2 DEF L!LatestWins, Passed
  <2> QED
    BY <2>1, <2>2, <2>3 DEF Passed, L!After, L!Setting
<1>3. ASSUME NEW e \in L!Ids, L!Delete(e)
      PROVE  Passed(parent[f], d)'
  <2> USE <1>3 DEF L!Delete
  <2>1. \A g \in applied : g \in DOMAIN changes' /\ changes'[g] = changes[g]
    OBVIOUS
  <2>2. parent[f] \in applied /\ d \in L!Setting(applied, f) \ {parent[f]}
    BY <2>1 DEF L!Setting
  <2>3. Passed(parent[f], d)
    BY <2>2 DEF L!LatestWins, Passed
  <2> QED
    BY <2>1, <2>2, <2>3 DEF Passed, L!After, L!Setting
<1>4. ASSUME NEW g \in L!Fields, L!Edit(g)
      PROVE  Passed(parent[f], d)'
  BY <1>1, <1>4 DEF L!Edit
<1>5. ASSUME NEW p \in Callers, L!Look(p)
      PROVE  Passed(parent[f], d)'
  <2> USE <1>5 DEF L!Look, L!Take
  <2>1. d \in L!Setting(applied, f) \ {parent[f]} /\ parent[f] # 0
    BY DEF L!Setting
  <2>2. Passed(parent[f], d)
    BY <2>1 DEF L!LatestWins, Passed
  <2> QED
    BY <2>2 DEF Passed, L!After
<1>6. ASSUME NEW p \in Callers, L!Apply(p)
      PROVE  Passed(parent[f], d)'
  <2> USE <1>6 DEF L!Apply
  <2>1. d \in L!Setting(applied, f) \cup L!Setting(batch[p], f)
    BY DEF L!Setting
  <2>2. CASE L!Setting(batch[p], f) = {}
    <3>1. parent'[f] = parent[f] /\ d \in L!Setting(applied, f) \ {parent[f]}
      BY <2>1, <2>2
    <3>2. Passed(parent[f], d)
      BY <3>1 DEF L!LatestWins, Passed
    <3> QED
      BY <3>1, <3>2 DEF Passed, L!After
  <2>3. CASE L!Setting(batch[p], f) # {}
    <3> DEFINE m == L!Last(batch[p], f)
    <3>1. /\ m \in L!Setting(batch[p], f)
          /\ \A e \in L!Setting(batch[p], f) \ {m} : L!After(m, e)
      <4>1. batch[p] \in SUBSET DOMAIN changes
        OBVIOUS
      <4> QED
        BY <4>1, <2>3, LastIsLast
    <3>2. parent'[f] = m
      BY <2>3
    <3> HIDE DEF m
    <3>3. Passed(m, d)
      <4>1. CASE d \in L!Setting(batch[p], f)
        BY <4>1, <3>1, <3>2 DEF Passed
      <4>2. CASE d \in L!Setting(applied, f)
        <5>1. m \in batch[p] /\ d \in applied
          BY <3>1, <4>2 DEF L!Setting
        <5>2. m \in DOMAIN changes \ applied /\ \A q \in Callers : d \notin batch[q]
          BY <5>1 DEF LocksHold
        <5> QED
          BY <5>1, <5>2 DEF InOrder
      <4> QED
        BY <2>1, <4>1, <4>2
    <3> QED
      BY <3>2, <3>3 DEF Passed, L!After
  <2> QED
    BY <2>2, <2>3
<1>7. ASSUME NEW p \in Callers, L!Rollback(p)
      PROVE  Passed(parent[f], d)'
  BY <1>1, <1>7 DEF L!Rollback
<1>8. CASE L!Tomorrow
  BY <1>1, <1>8 DEF L!Tomorrow
<1>9. CASE UNCHANGED L!vars
  BY <1>1, <1>9 DEF L!vars
<1> QED
  BY <1>2, <1>3, <1>4, <1>5, <1>6, <1>7, <1>8, <1>9 DEF L!Next

-----------------------------------------------------------------------------
(* The theorems.                                                           *)

Inv == ChangesTyped /\ LocksHold /\ Counted /\ Overlaps /\ InOrder /\ L!LatestWins

LEMMA ChangesStep == ASSUME L!ChangesOK PROVE L!Spec => []Inv
<1>1. L!Init => Inv
  BY ChangesInit DEF Inv
<1>2. Inv /\ [L!Next]_(L!vars) => Inv'
  BY TypeStep, LocksStep, OrderStep, LatestStep DEF Inv
<1> QED
  BY <1>1, <1>2, PTL DEF L!Spec

\* What the bill row says of a field is the user's own value or a change that
\* was applied to it, and no promotion holds a row after it has ended.
THEOREM ChangeTypes == ASSUME L!ChangesOK PROVE L!Spec => []L!TypeOK
<1>1. Inv => L!TypeOK
  BY DEF Inv, ChangesTyped, L!TypeOK, L!Locked, L!Setting
<1> QED
  BY <1>1, ChangesStep, PTL

\* promoteDueChanges folds no change in twice, however many callers list the
\* changes at once and whichever of them fail.
THEOREM FoldsOnce == ASSUME L!ChangesOK PROVE L!Spec => []L!FoldedOnce
<1>1. Inv => L!FoldedOnce
  BY DEF Inv, Counted
<1> QED
  BY <1>1, ChangesStep, PTL

\* A field is as the latest of the applied changes to it says, whatever was
\* added, deleted, edited and promoted in between, but for promotions that
\* overlapped and changes added behind a later one.
THEOREM LatestIsKept == ASSUME L!ChangesOK PROVE L!Spec => []L!LatestWins
<1>1. Inv => L!LatestWins
  BY DEF Inv
<1> QED
  BY <1>1, ChangesStep, PTL

-----------------------------------------------------------------------------
(* The review of recurring charges.                                        *)

ReviewStatuses == D!Open \cup {"confirmed", "rejected"}
Suggested == [house : Houses, key : Keys, status : ReviewStatuses, refined : BOOLEAN, made : Nat]
Review == [house : Houses \cup {"none"}, keys : SUBSET Keys, ids : SUBSET Nat, scan : BOOLEAN]

\* What each variable may hold, and which rows a request may have in hand.
ReviewTyped ==
    /\ rows \in Seq(Suggested) /\ Len(rows) <= MaxRows
    /\ starts \in 0..MaxStarts
    /\ pc \in [Requests -> {"idle", "insert", "ask", "confirm"}]
    /\ job \in [Requests -> Review]
    /\ \A r \in Requests :
         /\ job[r].ids \subseteq D!Ids
         /\ pc[r] = "idle" => job[r] = D!NoJob
         /\ pc[r] = "insert" => job[r].house \in Houses

\* A key a detection has found missing is missing, unless another found it too.
Missing ==
    \A r \in Requests : pc[r] = "insert" =>
      \A k \in job[r].keys, i \in D!Ids :
        rows[i].house = job[r].house /\ rows[i].key = k => <<job[r].house, k>> \in stale

\* A suggestion a confirmation has read has no bill, unless another read it too.
Unmade ==
    \A r \in Requests : pc[r] = "confirm" =>
      \A i \in job[r].ids : rows[i].made > 0 => i \in crossed

\* The parts of AnswersStand.
MadeIfConfirmed ==
    \A i \in D!Ids : /\ rows[i].made > 0 <=> rows[i].status = "confirmed"
                     /\ rows[i].made > 1 => i \in crossed
AskedOnce ==
    \A i, j \in D!Ids :
      (i # j /\ rows[i].house = rows[j].house /\ rows[i].key = rows[j].key)
        => <<rows[i].house, rows[i].key>> \in stale

ReviewInv == ReviewTyped /\ Missing /\ Unmade /\ MadeIfConfirmed /\ AskedOnce

-----------------------------------------------------------------------------
(* Rows, and the shapes of a step.                                         *)

LEMMA RowsType ==
  ASSUME ReviewTyped
  PROVE  /\ Len(rows) \in Nat /\ D!Ids \subseteq Nat
         /\ \A i \in D!Ids : rows[i] \in Suggested
BY LenProperties, ElementOfSeq DEF ReviewTyped, D!Ids

\* An UPDATE leaves the rows there are.
LEMMA UpdatedRows ==
  ASSUME ReviewTyped, NEW new \in [D!Ids -> Suggested]
  PROVE  new \in Seq(Suggested) /\ Len(new) = Len(rows)
<1>1. Len(rows) \in Nat /\ D!Ids = 1..Len(rows)
  BY RowsType DEF D!Ids
<1>2. new \in Seq(Suggested)
  BY <1>1, SeqDef
<1>3. Len(new) \in Nat /\ DOMAIN new = 1..Len(new) /\ DOMAIN new = 1..Len(rows)
  BY <1>1, <1>2, LenProperties
<1> QED
  BY <1>1, <1>2, <1>3

\* Only request r moves, to stage with j.
Moved(r, next, j) ==
    /\ pc' = [pc EXCEPT ![r] = next] /\ job' = [job EXCEPT ![r] = j]

LEMMA Elsewhere ==
  ASSUME ReviewTyped, NEW r \in Requests, NEW next, NEW j, Moved(r, next, j)
  PROVE  \A q \in Requests : /\ pc'[q] = IF q = r THEN next ELSE pc[q]
                             /\ job'[q] = IF q = r THEN j ELSE job[q]
BY DEF ReviewTyped, Moved

\* A step of r that leaves the rows there are, with their households and keys,
\* and takes no key in hand.
LEMMA TypeMoved ==
  ASSUME D!ReviewOK, ReviewTyped, rows' \in Seq(Suggested), Len(rows) <= Len(rows'), Len(rows') <= MaxRows,
         starts' \in 0..MaxStarts,
         NEW r \in Requests, NEW next \in {"idle", "insert", "ask", "confirm"},
         NEW j \in Review, Moved(r, next, j), j.ids \subseteq D!Ids,
         next = "idle" => j = D!NoJob, next = "insert" => j.house \in Houses
  PROVE  ReviewTyped'
<1>1. Len(rows) \in Nat /\ Len(rows') \in Nat
  BY LenProperties, RowsType
<1>2. D!Ids \subseteq D!Ids'
  BY <1>1 DEF D!Ids
<1>3. pc' \in [Requests -> {"idle", "insert", "ask", "confirm"}] /\ job' \in [Requests -> Review]
  BY DEF Moved, ReviewTyped
<1>4. ASSUME NEW q \in Requests
      PROVE  /\ job'[q].ids \subseteq D!Ids'
             /\ pc'[q] = "idle" => job'[q] = D!NoJob
             /\ pc'[q] = "insert" => job'[q].house \in Houses
  <2>1. CASE q = r
    <3>1. pc'[q] = next /\ job'[q] = j
      BY <2>1, Elsewhere
    <3> QED
      BY <3>1, <1>2
  <2>2. CASE q # r
    <3>1. pc'[q] = pc[q] /\ job'[q] = job[q]
      BY <2>2, Elsewhere
    <3> QED
      BY <3>1, <1>2 DEF ReviewTyped
  <2> QED
    BY <2>1, <2>2
<1> QED
  BY <1>3, <1>4 DEF ReviewTyped

\* A step that writes no row: only what request r has in hand is to be looked at.
LEMMA Quietly ==
  ASSUME D!ReviewOK, ReviewInv, UNCHANGED <<rows, stale, crossed>>, starts' \in 0..MaxStarts,
         NEW r \in Requests, NEW next \in {"idle", "insert", "ask", "confirm"},
         NEW j \in Review, Moved(r, next, j), j.ids \subseteq D!Ids,
         next = "idle" => j = D!NoJob, next = "insert" => j.house \in Houses,
         next = "insert" =>
           \A k \in j.keys, i \in D!Ids :
             rows[i].house = j.house /\ rows[i].key = k => <<j.house, k>> \in stale,
         next = "confirm" => \A i \in j.ids : rows[i].made > 0 => i \in crossed
  PROVE  ReviewInv'
<1>1. Len(rows) \in Nat /\ rows \in Seq(Suggested) /\ Len(rows) <= MaxRows
  BY RowsType DEF ReviewInv, ReviewTyped
<1>2. ReviewTyped'
  BY <1>1, TypeMoved DEF ReviewInv
<1>3. \A q \in Requests : /\ pc'[q] = IF q = r THEN next ELSE pc[q]
                          /\ job'[q] = IF q = r THEN j ELSE job[q]
  BY Elsewhere DEF ReviewInv
<1>4. Missing'
  BY <1>3 DEF ReviewInv, Missing, D!Ids
<1>5. Unmade'
  BY <1>3 DEF ReviewInv, Unmade
<1>6. MadeIfConfirmed' /\ AskedOnce'
  BY DEF ReviewInv, MadeIfConfirmed, AskedOnce, D!Ids
<1> QED
  BY <1>2, <1>4, <1>5, <1>6 DEF ReviewInv

\* Row i after a step that may change its status and give it a bill: it is the
\* same suggestion, and it has a bill exactly if it is confirmed.
Amended(i) ==
    /\ rows'[i] \in Suggested
    /\ rows'[i].house = rows[i].house /\ rows'[i].key = rows[i].key
    /\ rows'[i].made > 0 <=> rows'[i].status = "confirmed"
    /\ rows'[i].made > 1 => i \in crossed'

\* A step that amends rows and makes none: the keys that are missing are as
\* before.
LEMMA Amending ==
  ASSUME D!ReviewOK, ReviewInv, rows' \in [D!Ids -> Suggested], \A i \in D!Ids : Amended(i), stale' = stale
  PROVE  /\ rows' \in Seq(Suggested) /\ Len(rows') = Len(rows) /\ D!Ids' = D!Ids
         /\ MadeIfConfirmed' /\ AskedOnce'
<1>1. rows' \in Seq(Suggested) /\ Len(rows') = Len(rows)
  BY UpdatedRows DEF ReviewInv
<1>2. D!Ids' = D!Ids
  BY <1>1 DEF D!Ids
<1>3. MadeIfConfirmed'
  BY <1>2 DEF MadeIfConfirmed, Amended
<1>4. AskedOnce'
  <2>1. \A i \in D!Ids : rows'[i].house = rows[i].house /\ rows'[i].key = rows[i].key
    BY DEF Amended
  <2> QED
    BY <1>2, <2>1 DEF ReviewInv, AskedOnce
<1> QED
  BY <1>1, <1>2, <1>3, <1>4

-----------------------------------------------------------------------------
(* The steps that write no row.                                            *)

LEMMA StartBound ==
  ASSUME D!ReviewOK, ReviewTyped, NEW r, NEW next, NEW j, D!Start(r, next, j)
  PROVE  starts' \in 0..MaxStarts /\ Moved(r, next, j)
BY DEF D!ReviewOK, ReviewTyped, D!Start, Moved

LEMMA FinishBound ==
  ASSUME ReviewTyped, NEW r, D!Finish(r)
  PROVE  starts' \in 0..MaxStarts /\ Moved(r, "idle", D!NoJob)
BY DEF ReviewTyped, D!Finish, D!Become, Moved

LEMMA NoJobType == D!NoJob \in Review /\ D!NoJob.ids = {}
BY DEF D!NoJob, Review

LEMMA DetectStep ==
  ASSUME D!ReviewOK, ReviewInv, NEW r \in Requests, NEW h \in Houses, NEW scan \in BOOLEAN,
         D!Detect(r, h, scan)
  PROVE  ReviewInv'
<1> DEFINE found == IF scan THEN Patterns[h] \cap BillKeys ELSE Patterns[h]
           seen == {rows[i].key : i \in {i \in D!Ids : rows[i].house = h}}
           j == [D!NoJob EXCEPT !.house = h, !.keys = found \ seen, !.scan = scan]
<1>1. D!Start(r, "insert", j) /\ UNCHANGED <<rows, stale, crossed>>
  BY DEF D!Detect
<1>2. j \in Review /\ j.ids = {} /\ j.house = h /\ j.keys = found \ seen
  BY DEF D!NoJob, Review, D!ReviewOK
<1>3. \A k \in j.keys, i \in D!Ids : ~(rows[i].house = j.house /\ rows[i].key = k)
  BY <1>2
<1> HIDE DEF j
<1>4. starts' \in 0..MaxStarts /\ Moved(r, "insert", j)
  BY <1>1, StartBound DEF ReviewInv
<1> QED
  BY <1>1, <1>2, <1>3, <1>4, Quietly

LEMMA FinishStep ==
  ASSUME D!ReviewOK, ReviewInv, NEW r \in Requests, D!Finish(r), UNCHANGED <<rows, stale, crossed>>
  PROVE  ReviewInv'
<1>1. starts' \in 0..MaxStarts /\ Moved(r, "idle", D!NoJob)
  BY FinishBound DEF ReviewInv
<1> QED
  BY <1>1, NoJobType, Quietly

LEMMA InsertedStep ==
  ASSUME D!ReviewOK, ReviewInv, NEW r \in Requests, D!Inserted(r)
  PROVE  ReviewInv'
<1>1. CASE D!Finish(r)
  BY <1>1, FinishStep DEF D!Inserted
<1>2. CASE ~D!Finish(r)
  <2>1. PICK put \in SUBSET D!Ids :
          D!Become(r, "ask", [D!NoJob EXCEPT !.house = job[r].house, !.ids = put])
    BY <1>2 DEF D!Inserted
  <2> DEFINE j == [D!NoJob EXCEPT !.house = job[r].house, !.ids = put]
  <2>2. job[r].house \in Houses /\ D!Ids \subseteq Nat
    BY RowsType DEF D!Inserted, ReviewInv, ReviewTyped
  <2>3. j \in Review /\ j.ids = put
    BY <2>2 DEF D!NoJob, Review
  <2>4. D!Become(r, "ask", j)
    BY <2>1
  <2> HIDE DEF j
  <2>5. starts' \in 0..MaxStarts /\ Moved(r, "ask", j)
    BY <2>4 DEF D!Become, Moved, ReviewInv, ReviewTyped
  <2> QED
    BY <2>3, <2>5, Quietly DEF D!Inserted
<1> QED
  BY <1>1, <1>2

LEMMA ConfirmReadStep ==
  ASSUME D!ReviewOK, ReviewInv, NEW r \in Requests, NEW h \in Houses, NEW S \in SUBSET D!Ids,
         D!ConfirmRead(r, h, S)
  PROVE  ReviewInv'
<1> DEFINE j == [D!NoJob EXCEPT !.house = h, !.ids = S]
<1>1. D!Start(r, "confirm", j) /\ UNCHANGED <<rows, stale, crossed>>
  BY DEF D!ConfirmRead
<1>2. j \in Review /\ j.ids = S
  BY RowsType DEF D!NoJob, Review, ReviewInv
<1> HIDE DEF j
<1>3. starts' \in 0..MaxStarts /\ Moved(r, "confirm", j)
  BY <1>1, StartBound DEF ReviewInv
<1>4. \A i \in S : ~(rows[i].made > 0)
  BY DEF D!ConfirmRead, ReviewInv, MadeIfConfirmed, D!Open
<1> QED
  BY <1>1, <1>2, <1>3, <1>4, Quietly

-----------------------------------------------------------------------------
(* The steps that write rows.                                              *)

LEMMA InsertStep ==
  ASSUME D!ReviewOK, ReviewInv, NEW r \in Requests, NEW k \in Keys, D!Insert(r, k)
  PROVE  ReviewInv'
<1> DEFINE n == Len(rows) + 1
           h == job[r].house
           row == [house |-> h, key |-> k, status |-> "pending", refined |-> FALSE, made |-> 0]
           j == [job[r] EXCEPT !.keys = @ \ {k}]
<1>1. h \in Houses /\ row \in Suggested /\ pc[r] = "insert" /\ k \in job[r].keys
  BY DEF D!Insert, ReviewInv, ReviewTyped, Suggested, D!Open, ReviewStatuses
<1>2. Len(rows) \in Nat /\ rows \in Seq(Suggested) /\ D!Ids = 1..Len(rows)
  BY RowsType DEF ReviewInv, ReviewTyped, D!Ids
<1>3. rows' = Append(rows, row) /\ Len(rows) < MaxRows
  BY DEF D!Insert
<1>4. /\ rows' \in Seq(Suggested) /\ Len(rows') = n /\ rows'[n] = row
      /\ \A i \in D!Ids : rows'[i] = rows[i]
  <2> HIDE DEF row
  <2> QED
    BY <1>1, <1>2, <1>3, AppendProperties
<1>5. D!Ids' = D!Ids \cup {n} /\ n \notin D!Ids
  BY <1>2, <1>4 DEF D!Ids
<1>6. Moved(r, "insert", j) /\ starts' = starts /\ crossed' = crossed
  BY DEF D!Insert, D!Become, Moved
<1>7. /\ j \in Review /\ j.keys = job[r].keys \ {k} /\ j.house = h /\ j.ids = job[r].ids
  <2>1. PICK x \in Review : x = job[r]
    BY DEF ReviewInv, ReviewTyped
  <2>2. [x EXCEPT !.keys = @ \ {k}] \in Review
    BY DEF Review
  <2> QED
    BY <2>1, <2>2 DEF Review
<1>8. stale \subseteq stale' /\ (D!Alike(r, k) # {} => <<h, k>> \in stale')
  BY DEF D!Insert
<1> HIDE DEF j, row
<1>9. \A q \in Requests : /\ pc'[q] = IF q = r THEN "insert" ELSE pc[q]
                          /\ job'[q] = IF q = r THEN j ELSE job[q]
  BY <1>6, Elsewhere DEF ReviewInv
<1>10. ReviewTyped'
  <2>1. j.ids \subseteq D!Ids /\ starts' \in 0..MaxStarts
    BY <1>6, <1>7 DEF ReviewInv, ReviewTyped
  <2>2. MaxRows \in Nat
    BY DEF D!ReviewOK
  <2> HIDE DEF n
  <2>3. Len(rows) <= Len(rows') /\ Len(rows') <= MaxRows
    BY <2>2, <1>2, <1>3, <1>4 DEF n
  <2> QED
    BY <2>1, <2>3, <1>1, <1>4, <1>6, <1>7, TypeMoved DEF ReviewInv
<1>11. ASSUME NEW q \in Requests, pc'[q] = "insert", NEW l \in job'[q].keys, NEW i \in D!Ids',
              rows'[i].house = job'[q].house, rows'[i].key = l
       PROVE  <<job'[q].house, l>> \in stale'
  <2>1. pc[q] = "insert" /\ l \in job[q].keys /\ job'[q].house = job[q].house
        /\ (q = r => l # k)
    BY <1>1, <1>7, <1>9, <1>11
  <2>2. CASE i \in D!Ids
    BY <2>1, <2>2, <1>4, <1>8, <1>11 DEF ReviewInv, Missing
  <2>3. CASE i = n
    <3>1. job[q].house = h /\ l = k /\ q # r
      BY <2>1, <2>3, <1>4, <1>11 DEF row
    <3>2. q \in D!Alike(r, k)
      BY <3>1, <2>1 DEF D!Alike
    <3> QED
      BY <3>1, <3>2, <2>1, <1>8
  <2> QED
    BY <2>2, <2>3, <1>5
<1>12. Missing'
  BY <1>11 DEF Missing
<1>13. Unmade'
  BY <1>4, <1>5, <1>6, <1>9 DEF ReviewInv, Unmade, ReviewTyped
<1>14. MadeIfConfirmed'
  <2>1. rows'[n].made = 0 /\ rows'[n].status = "pending"
    BY <1>4 DEF row
  <2> QED
    BY <2>1, <1>4, <1>5, <1>6 DEF ReviewInv, MadeIfConfirmed
<1>15. AskedOnce'
  <2>1. ASSUME NEW i \in D!Ids, rows'[i].house = rows'[n].house, rows'[i].key = rows'[n].key
        PROVE  <<h, k>> \in stale'
    BY <2>1, <1>1, <1>4, <1>8 DEF ReviewInv, Missing, row
  <2>2. rows'[n].house = h /\ rows'[n].key = k
    BY <1>4 DEF row
  <2> QED
    BY <2>1, <2>2, <1>4, <1>5, <1>8 DEF ReviewInv, AskedOnce
<1> QED
  BY <1>10, <1>12, <1>13, <1>14, <1>15 DEF ReviewInv

\* A step of r that amends rows, and gives a bill to none another has in hand
\* but in sight of both.
LEMMA AmendedBy ==
  ASSUME D!ReviewOK, ReviewInv, rows' \in [D!Ids -> Suggested], \A i \in D!Ids : Amended(i), stale' = stale,
         starts' \in 0..MaxStarts, crossed \subseteq crossed',
         NEW r \in Requests, NEW next \in {"idle", "confirm"},
         NEW j \in Review, Moved(r, next, j), j.ids \subseteq job[r].ids,
         next = "idle" => j = D!NoJob, next = "confirm" => pc[r] = "confirm",
         \A q \in Requests, i \in D!Ids :
           pc'[q] = "confirm" /\ i \in job'[q].ids =>
             rows'[i].made = rows[i].made \/ i \in crossed'
  PROVE  ReviewInv'
<1>1. /\ rows' \in Seq(Suggested) /\ Len(rows') = Len(rows) /\ D!Ids' = D!Ids
      /\ MadeIfConfirmed' /\ AskedOnce'
  BY Amending
<1>2. \A q \in Requests : /\ pc'[q] = IF q = r THEN next ELSE pc[q]
                          /\ job'[q] = IF q = r THEN j ELSE job[q]
  BY Elsewhere DEF ReviewInv
<1>3. ReviewTyped'
  <2>1. Len(rows) \in Nat /\ Len(rows) <= MaxRows /\ job[r].ids \subseteq D!Ids
    BY RowsType DEF ReviewInv, ReviewTyped
  <2>2. j.ids \subseteq D!Ids /\ Len(rows) <= Len(rows') /\ Len(rows') <= MaxRows
    BY <2>1, <1>1
  <2> QED
    BY <2>2, <1>1, TypeMoved DEF ReviewInv
<1>4. Missing'
  <2>1. \A i \in D!Ids : rows'[i].house = rows[i].house /\ rows'[i].key = rows[i].key
    BY DEF Amended
  <2> QED
    BY <2>1, <1>1, <1>2 DEF ReviewInv, Missing
<1>5. Unmade'
  <2>1. ASSUME NEW q \in Requests, pc'[q] = "confirm", NEW i \in job'[q].ids, rows'[i].made > 0
        PROVE  i \in crossed'
    <3>1. pc[q] = "confirm" /\ i \in job[q].ids /\ i \in D!Ids
      BY <2>1, <1>2 DEF ReviewInv, ReviewTyped
    <3> QED
      BY <3>1, <2>1 DEF ReviewInv, Unmade
  <2> QED
    BY <2>1 DEF Unmade
<1> QED
  BY <1>1, <1>3, <1>4, <1>5 DEF ReviewInv

LEMMA VerdictsStep ==
  ASSUME D!ReviewOK, ReviewInv, NEW r \in Requests, D!Verdicts(r)
  PROVE  ReviewInv'
<1>1. PICK kept \in SUBSET job[r].ids :
        rows' = [i \in D!Ids |->
                   IF i \notin job[r].ids \/ ~D!Waiting(i) THEN rows[i]
                   ELSE [rows[i] EXCEPT !.refined = TRUE,
                           !.status = IF i \in kept THEN @ ELSE "rejected"]]
  BY DEF D!Verdicts
<1>2. D!Finish(r) /\ UNCHANGED <<stale, crossed>>
  BY DEF D!Verdicts
<1>3. ASSUME NEW i \in D!Ids
      PROVE  Amended(i) /\ rows'[i].made = rows[i].made
  <2>1. PICK row \in Suggested : row = rows[i]
    BY RowsType DEF ReviewInv
  <2>2. /\ rows[i].made > 0 <=> rows[i].status = "confirmed"
        /\ rows[i].made > 1 => i \in crossed
    BY DEF ReviewInv, MadeIfConfirmed
  <2>3. CASE i \notin job[r].ids \/ ~D!Waiting(i)
    <3>1. rows'[i] = rows[i]
      BY <1>1, <2>3
    <3> QED
      BY <3>1, <2>1, <2>2, <1>2 DEF Amended
  <2>4. CASE ~(i \notin job[r].ids \/ ~D!Waiting(i))
    <3>1. rows'[i] = [row EXCEPT !.refined = TRUE,
                        !.status = IF i \in kept THEN @ ELSE "rejected"]
      BY <1>1, <2>1, <2>4
    <3>2. rows'[i].status # "confirmed" /\ row.status = "pending"
      BY <3>1, <2>1, <2>4 DEF D!Waiting, Suggested
    <3>3. /\ rows'[i] \in Suggested /\ rows'[i].made = row.made
          /\ rows'[i].house = row.house /\ rows'[i].key = row.key
      BY <3>1 DEF Suggested, D!Open, ReviewStatuses
    <3>4. ~(row.made > 0)
      BY <3>2, <2>1, <2>2
    <3>5. ~(rows'[i].made > 1)
      BY <3>3, <3>4 DEF Suggested
    <3> QED
      BY <3>2, <3>3, <3>4, <3>5, <2>1 DEF Amended
  <2> QED
    BY <2>3, <2>4
<1>4. rows' \in [D!Ids -> Suggested]
  <2>1. \A i \in D!Ids : rows'[i] \in Suggested
    BY <1>3 DEF Amended
  <2>2. rows' = [i \in D!Ids |-> rows'[i]]
    BY <1>1
  <2> QED
    BY <2>1, <2>2
<1>5. starts' \in 0..MaxStarts /\ Moved(r, "idle", D!NoJob)
  BY <1>2, FinishBound DEF ReviewInv
<1>6. \A q \in Requests, i \in D!Ids :
        pc'[q] = "confirm" /\ i \in job'[q].ids =>
          rows'[i].made = rows[i].made \/ i \in crossed'
  BY <1>3
<1> QED
  BY <1>2, <1>3, <1>4, <1>5, <1>6, NoJobType, AmendedBy

\* The bill is made whatever the row has become, and for the others who had it
\* in hand it is crossed.
LEMMA ConfirmStep ==
  ASSUME D!ReviewOK, ReviewInv, NEW r \in Requests, NEW i \in D!Ids, D!Confirm(r, i)
  PROVE  ReviewInv'
<1> DEFINE crossing == \E q \in Requests \ {r} : pc[q] = "confirm" /\ i \in job[q].ids
<1>1. /\ pc[r] = "confirm" /\ i \in job[r].ids /\ stale' = stale
      /\ crossed' = IF crossing THEN crossed \cup {i} ELSE crossed
  BY DEF D!Confirm
<1>2. CASE ~(D!Conflicting(rows[i].key) \subseteq {i})
  <2>1. rows' = rows /\ D!Finish(r)
    BY <1>2 DEF D!Confirm
  <2>2. starts' \in 0..MaxStarts /\ Moved(r, "idle", D!NoJob)
    BY <2>1, FinishBound DEF ReviewInv
  <2>3. D!Ids = 1..Len(rows) /\ rows \in [D!Ids -> Suggested]
    BY LenProperties DEF ReviewInv, ReviewTyped, D!Ids
  <2>4. \A l \in D!Ids : Amended(l) /\ rows'[l].made = rows[l].made
    BY <2>1, <2>3, <1>1 DEF Amended, ReviewInv, MadeIfConfirmed
  <2>5. crossed \subseteq crossed' /\ rows' \in [D!Ids -> Suggested]
    BY <1>1, <2>1, <2>3
  <2> QED
    BY <1>1, <2>2, <2>4, <2>5, NoJobType, AmendedBy
<1>3. CASE D!Conflicting(rows[i].key) \subseteq {i}
  <2>1. rows' = [rows EXCEPT ![i].status = "confirmed", ![i].made = @ + 1]
    BY <1>3 DEF D!Confirm
  <2>2. IF job[r].ids = {i} THEN D!Finish(r)
        ELSE D!Become(r, "confirm", [job[r] EXCEPT !.ids = @ \ {i}])
    BY <1>3 DEF D!Confirm
  <2>3. rows \in [D!Ids -> Suggested]
    BY LenProperties DEF ReviewInv, ReviewTyped, D!Ids
  <2>4. PICK row \in Suggested : row = rows[i]
    BY <2>3
  <2>5. row.made + 1 \in Nat /\ row.made \in Nat
    BY DEF Suggested
  <2>6. /\ rows'[i] = [row EXCEPT !.status = "confirmed", !.made = row.made + 1]
        /\ \A l \in D!Ids : l # i => rows'[l] = rows[l]
    BY <2>1, <2>3, <2>4
  <2>7. /\ rows'[i] \in Suggested /\ rows'[i].made = row.made + 1 /\ rows'[i].status = "confirmed"
        /\ rows'[i].house = row.house /\ rows'[i].key = row.key
    BY <2>5, <2>6 DEF Suggested, D!Open, ReviewStatuses
  <2>8. rows'[i].made > 0 /\ (rows'[i].made > 1 => i \in crossed')
    <3>1. row.made > 0 => i \in crossed
      BY <1>1, <2>4 DEF ReviewInv, Unmade
    <3> QED
      BY <3>1, <2>5, <2>7, <1>1
  <2>9. Amended(i)
    BY <2>4, <2>7, <2>8 DEF Amended
  <2>10. \A l \in D!Ids : l # i => Amended(l) /\ rows'[l].made = rows[l].made
    BY <2>3, <2>6, <1>1 DEF Amended, ReviewInv, MadeIfConfirmed
  <2>11. rows' \in [D!Ids -> Suggested]
    BY <2>1, <2>3, <2>6, <2>7
  <2> DEFINE j == [job[r] EXCEPT !.ids = @ \ {i}]
  <2>12. j \in Review /\ j.ids = job[r].ids \ {i}
    <3>1. PICK x \in Review : x = job[r]
      BY DEF ReviewInv, ReviewTyped
    <3>2. [x EXCEPT !.ids = @ \ {i}] \in Review
      BY DEF Review
    <3> QED
      BY <3>1, <3>2 DEF Review
  <2> HIDE DEF j
  <2>13. PICK next \in {"idle", "confirm"}, x \in Review :
           /\ Moved(r, next, x) /\ x.ids \subseteq job[r].ids \ {i}
           /\ next = "idle" => x = D!NoJob
           /\ starts' \in 0..MaxStarts
    <3>1. CASE job[r].ids = {i}
      BY <3>1, <2>2, FinishBound, NoJobType DEF ReviewInv
    <3>2. CASE job[r].ids # {i}
      <4>1. D!Become(r, "confirm", j)
        BY <3>2, <2>2 DEF j
      <4>2. Moved(r, "confirm", j) /\ starts' \in 0..MaxStarts
        BY <4>1 DEF D!Become, Moved, ReviewInv, ReviewTyped
      <4> QED
        BY <4>2, <2>12
    <3> QED
      BY <3>1, <3>2
  <2>14. \A q \in Requests : /\ pc'[q] = IF q = r THEN next ELSE pc[q]
                             /\ job'[q] = IF q = r THEN x ELSE job[q]
    BY <2>13, Elsewhere DEF ReviewInv
  <2>15. ASSUME NEW q \in Requests, pc'[q] = "confirm", NEW l \in D!Ids, l \in job'[q].ids
         PROVE  rows'[l].made = rows[l].made \/ l \in crossed'
    <3>1. CASE l # i
      BY <3>1, <2>10
    <3>2. CASE l = i
      <4>1. q # r /\ pc[q] = "confirm" /\ i \in job[q].ids
        BY <3>2, <2>13, <2>14, <2>15
      <4> QED
        BY <4>1, <3>2, <1>1
    <3> QED
      BY <3>1, <3>2
  <2>16. \A l \in D!Ids : Amended(l)
    BY <2>9, <2>10
  <2>17. crossed \subseteq crossed' /\ x.ids \subseteq job[r].ids
    BY <1>1, <2>13
  <2> QED
    BY <1>1, <2>11, <2>13, <2>15, <2>16, <2>17, AmendedBy
<1> QED
  BY <1>2, <1>3

LEMMA AnswerStep ==
  ASSUME D!ReviewOK, ReviewInv, NEW h \in Houses, NEW S \in SUBSET D!Ids,
         NEW status \in {"rejected", "snoozed"}, D!Answer(h, S, status)
  PROVE  ReviewInv'
<1>1. ASSUME NEW i \in D!Ids
      PROVE  Amended(i) /\ rows'[i].made = rows[i].made
  <2>1. PICK row \in Suggested : row = rows[i]
    BY RowsType DEF ReviewInv
  <2>2. /\ rows[i].made > 0 <=> rows[i].status = "confirmed"
        /\ rows[i].made > 1 => i \in crossed
    BY DEF ReviewInv, MadeIfConfirmed
  <2>3. CASE i \notin S
    <3>1. rows'[i] = rows[i] /\ crossed' = crossed
      BY <2>3 DEF D!Answer
    <3> QED
      BY <3>1, <2>1, <2>2 DEF Amended
  <2>4. CASE i \in S
    <3>1. rows'[i] = [row EXCEPT !.status = status] /\ row.status \in D!Open
      BY <2>1, <2>4 DEF D!Answer
    <3>2. /\ rows'[i] \in Suggested /\ rows'[i].status = status /\ rows'[i].made = row.made
          /\ rows'[i].house = row.house /\ rows'[i].key = row.key
      BY <3>1 DEF Suggested, D!Open, ReviewStatuses
    <3>3. ~(row.made > 0) /\ row.made \in Nat
      BY <3>1, <2>1, <2>2 DEF D!Open, Suggested
    <3>4. ~(rows'[i].made > 1)
      BY <3>2, <3>3
    <3> QED
      BY <3>2, <3>3, <3>4, <2>1 DEF Amended
  <2> QED
    BY <2>3, <2>4
<1>2. rows' \in [D!Ids -> Suggested]
  <2>1. \A i \in D!Ids : rows'[i] \in Suggested
    BY <1>1 DEF Amended
  <2>2. rows' = [i \in D!Ids |-> rows'[i]]
    BY DEF D!Answer
  <2> QED
    BY <2>1, <2>2
<1>3. UNCHANGED <<pc, job, starts, stale, crossed>>
  BY DEF D!Answer
<1>4. /\ rows' \in Seq(Suggested) /\ Len(rows') = Len(rows) /\ D!Ids' = D!Ids
      /\ MadeIfConfirmed' /\ AskedOnce'
  BY <1>1, <1>2, <1>3, Amending
<1>5. ReviewTyped'
  BY <1>3, <1>4 DEF ReviewInv, ReviewTyped
<1>6. Missing'
  <2>1. \A i \in D!Ids : rows'[i].house = rows[i].house /\ rows'[i].key = rows[i].key
    BY <1>1 DEF Amended
  <2> QED
    BY <2>1, <1>3, <1>4 DEF ReviewInv, Missing
<1>7. Unmade'
  BY <1>1, <1>3 DEF ReviewInv, Unmade, ReviewTyped
<1> QED
  BY <1>4, <1>5, <1>6, <1>7 DEF ReviewInv

-----------------------------------------------------------------------------
(* The theorems.                                                           *)

LEMMA ReviewInit == ASSUME D!ReviewOK, D!Init PROVE ReviewInv
<1>1. rows = <<>> /\ Len(rows) = 0 /\ D!Ids = {} /\ rows \in Seq(Suggested)
  BY EmptySeq DEF D!Init, D!Ids
<1>2. ReviewTyped
  BY <1>1, NoJobType DEF D!Init, D!ReviewOK, ReviewTyped
<1>3. Missing /\ Unmade /\ MadeIfConfirmed /\ AskedOnce
  BY <1>1, NoJobType DEF D!Init, Missing, Unmade, MadeIfConfirmed, AskedOnce
<1> QED
  BY <1>2, <1>3 DEF ReviewInv

LEMMA NextInv == ASSUME D!ReviewOK, ReviewInv, [D!Next]_(D!vars) PROVE ReviewInv'
<1>1. CASE UNCHANGED D!vars
  BY <1>1 DEF D!vars, ReviewInv, ReviewTyped, Missing, Unmade, MadeIfConfirmed, AskedOnce, D!Ids
<1>2. ASSUME NEW r \in Requests,
             \/ \E h \in Houses, scan \in BOOLEAN : D!Detect(r, h, scan)
             \/ \E k \in Keys : D!Insert(r, k) \/ D!InsertFails(r, k)
             \/ D!Inserted(r) \/ D!Verdicts(r) \/ D!Fail(r)
             \/ \E h \in Houses : \E S \in SUBSET D!Ids : D!ConfirmRead(r, h, S)
             \/ \E i \in D!Ids : D!Confirm(r, i)
      PROVE  ReviewInv'
  <2>1. ASSUME NEW k \in Keys, D!InsertFails(r, k)
        PROVE  ReviewInv'
    BY <2>1, FinishStep DEF D!InsertFails
  <2>2. CASE D!Fail(r)
    BY <2>2, FinishStep DEF D!Fail
  <2> QED
    BY <1>2, <2>1, <2>2, DetectStep, InsertStep, InsertedStep, VerdictsStep,
       ConfirmReadStep, ConfirmStep
<1>3. ASSUME NEW h \in Houses, NEW S \in SUBSET D!Ids, D!Reject(h, S) \/ D!Snooze(h, S)
      PROVE  ReviewInv'
  BY <1>3, AnswerStep DEF D!Reject, D!Snooze
<1> QED
  BY <1>1, <1>2, <1>3 DEF D!Next

LEMMA ReviewStep == ASSUME D!ReviewOK PROVE D!Spec => []ReviewInv
<1>1. D!Init => ReviewInv
  BY ReviewInit
<1>2. ReviewInv /\ [D!Next]_(D!vars) => ReviewInv'
  BY NextInv
<1> QED
  BY <1>1, <1>2, PTL DEF D!Spec

\* Every request has in hand rows there are, and nothing when it has ended.
THEOREM ReviewTypes == ASSUME D!ReviewOK PROVE D!Spec => []D!TypeOK
<1>1. ReviewInv => D!TypeOK
  BY RowsType DEF ReviewInv, ReviewTyped, D!TypeOK, Suggested, ReviewStatuses, Review
<1> QED
  BY <1>1, ReviewStep, PTL

\* A confirmed suggestion has its bill, one bill, and no other row has one,
\* whatever the model, the user and further detections do after; and what a
\* household was asked it is not asked again, but for detections that overlap.
THEOREM AnswersAreKept == ASSUME D!ReviewOK PROVE D!Spec => []D!AnswersStand
<1>1. ReviewInv => D!AnswersStand
  BY DEF ReviewInv, MadeIfConfirmed, AskedOnce, D!AnswersStand
<1> QED
  BY <1>1, ReviewStep, PTL

================================================================================
