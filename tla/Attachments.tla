----------------------------- MODULE Attachments -----------------------------
(***************************************************************************)
(* Receipts on disk and the keys they are under: attachments/storage.ts,   *)
(* attachments/tenant-keys.ts, attachments/kek-rotation.ts with the script *)
(* scripts/rotate-kek.mjs, and the OCR of uploads, ocr/extract-service.ts. *)
(*                                                                         *)
(* A file is under the tenant's data key (DEK); the DEK is in the database *)
(* wrapped by the key of the .env file (KEK), which the server reads once, *)
(* at boot.  No transaction spans a file and a row: an upload writes the   *)
(* file and then inserts the row, a rotation rewrites every file and then  *)
(* commits the new DEK.  One tenant is modelled; tenants share the KEK     *)
(* only, and the stored credentials (Secrets) are wrapped by it as well.   *)
(***************************************************************************)
EXTENDS Integers, FiniteSets

CONSTANTS
    Files,          \* ids of attachments, each used by one upload
    Legacy0,        \* files of version 0 (plaintext) stored before the model starts
    Legacy1,        \* files of version 1 (under the KEK itself), likewise, if there is one
    Requests,       \* HTTP requests that upload
    Rotators,       \* HTTP requests of a super-admin that rotate the DEK
    Secrets,        \* stored bank credentials
    InitialKeks,    \* {1}, or {0, 1} to start without a key as well
    MaxDeks,        \* bound: DEKs minted
    MaxKeks,        \* bound: KEKs generated
    MaxEdits,       \* bound: deletions and credentials linked
    MaxFailures     \* bound: failed requests, failed rotations and crashes

AttachmentsOK ==
    /\ Legacy0 \cup Legacy1 \subseteq Files /\ Legacy0 \cap Legacy1 = {}
    /\ Requests \cap Rotators = {} /\ "key" \notin Secrets
    /\ InitialKeks \subseteq {0, 1}
    /\ MaxDeks \in Nat /\ MaxKeks \in Nat \ {0}
    /\ MaxEdits \in Nat /\ MaxFailures \in Nat

NoFile == [kind |-> "none", key |-> 0]
Plain == [kind |-> "plain", key |-> 0]
UnderKek(k) == [kind |-> "kek", key |-> k]
UnderDek(d) == [kind |-> "dek", key |-> d]
Junk == [kind |-> "junk", key |-> 0]   \* a ciphertext taken for a plaintext

Keks == 0 .. MaxKeks        \* 0: not configured
Deks == 1 .. MaxDeks
Content == {NoFile, Plain, Junk} \cup {UnderKek(k) : k \in Keks}
           \cup {UnderDek(d) : d \in Deks}

NoKey == [dek |-> 0, kek |-> 0]
KeyRow == [dek : 0 .. MaxDeks, kek : Keks]

NoVersion == -1              \* no row
Versions == {NoVersion, 0, 1, 2}

VARIABLES
    up, kekRun,      \* the server process, and the KEK in its config
    kekEnv,          \* ATTACHMENT_ENCRYPTION_KEY in .env
    kekSetting,      \* the same in app_settings, 0 where /settings holds none
    keyRow,          \* the tenant's row of tenant_encryption_keys
    secrets,         \* the KEK each stored credential is under, 0 for none
    disk,            \* what the file at an attachment's storage_path is under
    version,         \* attachments.encryption_version, NoVersion without a row
    ocr,             \* attachments.ocr_status
    old,             \* uploads more than a minute ago
    pc, job,         \* a request's statement, and the file and key it carries
    extracting,      \* files whose OCR call is in flight
    sweep,           \* rows sweepPendingOcr has listed and not reached
    rpc, rjob,       \* a rotation's statement, and what it has read
    kpc, kjob,       \* the same of scripts/rotate-kek.mjs
    minted, keks,    \* DEKs minted and KEKs generated so far
    edits, failures, \* counters of the bounds
    (***********************************************************************)
    (* History: nothing in the code reads these.                           *)
    (***********************************************************************)
    torn,            \* files a rotation, a key it raced with or another KEK left behind
    late             \* rows wrapped by another KEK than .env's, or beside the script

keys == <<keyRow, secrets, minted>>
files == <<disk, version>>
ocrVars == <<ocr, extracting, sweep, old>>
requestVars == <<pc, job>>
rotationVars == <<rpc, rjob>>
kekVars == <<kpc, kjob, keks, kekEnv>>
server == <<up, kekRun, kekSetting>>
bounds == <<edits, failures>>
history == <<torn, late>>
vars == <<server, kekVars, keys, files, ocrVars, requestVars, rotationVars,
          bounds, history>>

NoJob == [file |-> "none", key |-> NoFile, kek |-> 0]
NoRotation == [dek |-> 0, fresh |-> 0, kek |-> 0, todo |-> {}, done |-> {},
               file |-> "none", holds |-> NoFile]
NoRewrap == [row |-> NoKey, secrets |-> [s \in Secrets |-> 0], kek |-> 0]

Listed == Files \X Versions
UploadStages == {"idle", "mint", "reread", "write", "insert", "ocr"}
OcrStates == {"none", "pending", "extracted", "failed", "skipped"}

TypeOK ==
    /\ up \in BOOLEAN /\ {kekRun, kekEnv, kekSetting} \subseteq Keks
    /\ keyRow \in KeyRow
    /\ secrets \in [Secrets -> Keks]
    /\ disk \in [Files -> Content]
    /\ version \in [Files -> Versions]
    /\ ocr \in [Files -> OcrStates]
    /\ old \subseteq Files /\ extracting \subseteq Files
    /\ sweep \subseteq Listed
    /\ pc \in [Requests -> UploadStages]
    /\ job \in [Requests -> [file : Files \cup {"none"}, key : Content, kek : Keks]]
    /\ \A r \in Requests : pc[r] = "idle" <=> job[r] = NoJob
    /\ rpc \in [Rotators -> {"idle", "list", "next", "write"}]
    /\ rjob \in [Rotators -> [dek : 0 .. MaxDeks, fresh : 0 .. MaxDeks, kek : Keks,
                              todo : SUBSET Listed, done : SUBSET Files,
                              file : Files \cup {"none"}, holds : Content]]
    /\ kpc \in {"idle", "rewrap", "env"}
    /\ kjob \in [row : KeyRow, secrets : [Secrets -> Keks], kek : Keks]
    /\ minted \in 0 .. MaxDeks /\ keks \in Keks
    /\ edits \in Nat /\ failures \in Nat
    /\ torn \subseteq Files /\ late \subseteq Secrets \cup {"key"}

Init ==
    /\ up = TRUE /\ kekRun \in InitialKeks /\ kekEnv = kekRun /\ kekSetting = 0
    /\ keyRow = NoKey
    /\ secrets = [s \in Secrets |-> 0]
    /\ disk = [f \in Files |-> IF f \in Legacy0 THEN Plain
                               ELSE IF f \in Legacy1 /\ kekRun = 1 THEN UnderKek(1)
                               ELSE NoFile]
    /\ version = [f \in Files |-> IF f \in Legacy0 THEN 0
                                  ELSE IF f \in Legacy1 /\ kekRun = 1 THEN 1 ELSE NoVersion]
    /\ ocr = [f \in Files |-> IF version[f] = NoVersion THEN "none"
                              ELSE "extracted"]
    /\ old = {f \in Files : version[f] # NoVersion} /\ extracting = {} /\ sweep = {}
    /\ pc = [r \in Requests |-> "idle"] /\ job = [r \in Requests |-> NoJob]
    /\ rpc = [o \in Rotators |-> "idle"] /\ rjob = [o \in Rotators |-> NoRotation]
    /\ kpc = "idle" /\ kjob = NoRewrap
    /\ minted = 0 /\ keks = kekRun
    /\ edits = 0 /\ failures = 0
    /\ torn = {} /\ late = {}

-----------------------------------------------------------------------------
(* Reading.  unwrapDek and the ciphers fail on a wrong key (AES-GCM tag).  *)

Unwraps(row) == row # NoKey /\ row.kek = kekRun

\* readAttachmentBuffer, for a row that says v.
Opens(f, v) ==
    CASE v = 0 -> disk[f] # NoFile
      [] v = 1 -> kekRun # 0 /\ disk[f] = UnderKek(kekRun)
      [] v = 2 -> kekRun # 0 /\ Unwraps(keyRow) /\ disk[f] = UnderDek(keyRow.dek)
      [] OTHER -> FALSE

\* The KEK the database is under, as far as the script knows.
DbKek == IF kpc = "env" THEN kjob.kek ELSE kekEnv

\* A row stored now and wrapped by k is under another KEK than that, or out of
\* the script's sight.
Astray(k) == kpc = "rewrap" \/ k # DbKek

\* The files directly under a KEK that one with k does not read.
Shut(k) == {f \in Files : version[f] = 1 /\ disk[f] # UnderKek(k)}

-----------------------------------------------------------------------------
(* POST /api/transactions/:id/attachments: storeAttachment, the INSERT, and *)
(* the decision whether to run OCR.                                        *)

Hold(r, stage, f, key, kek) ==
    /\ pc' = [pc EXCEPT ![r] = stage]
    /\ job' = [job EXCEPT ![r] = [file |-> f, key |-> key, kek |-> kek]]
Enter(r, stage, f, key) == Hold(r, stage, f, key, 0)

\* A mutant of Leave: the file and the key stay in hand.
LeaveStuck(r) == pc' = [pc EXCEPT ![r] = "idle"] /\ job' = job

Leave(r) == /\ pc' = [pc EXCEPT ![r] = "idle"]
            /\ job' = [job EXCEPT ![r] = NoJob]

Unused(f) == /\ f \notin Legacy0 \cup Legacy1
             /\ version[f] = NoVersion /\ disk[f] = NoFile /\ ocr[f] = "none"
             /\ \A r \in Requests : job[r].file # f

\* The first SELECT of getOrCreateTenantKey; a row it cannot unwrap is an
\* error before anything is written, a key there is not is minted and wrapped.
UploadBegin(r, f) ==
    /\ up /\ pc[r] = "idle" /\ Unused(f)
    /\ \/ kekRun = 0 /\ Enter(r, "write", f, Plain) /\ UNCHANGED minted
       \/ /\ kekRun # 0 /\ Unwraps(keyRow)
          /\ Enter(r, "write", f, UnderDek(keyRow.dek)) /\ UNCHANGED minted
       \/ /\ kekRun # 0 /\ keyRow = NoKey /\ minted < MaxDeks
          /\ Hold(r, "mint", f, UnderDek(minted + 1), kekRun) /\ minted' = minted + 1
    /\ torn' = torn \ {f}
    /\ UNCHANGED <<server, kekVars, keyRow, secrets, files, ocrVars, rotationVars,
                   bounds, late>>

\* A mutant of UploadMint: the loser of the race encrypts under its own key.
MintWithoutReread(r) ==
    /\ pc[r] = "mint"
    /\ Enter(r, "write", job[r].file, job[r].key)
    /\ keyRow' = IF keyRow = NoKey THEN [dek |-> job[r].key.key, kek |-> job[r].kek]
                                   ELSE keyRow
    /\ late' = IF keyRow = NoKey /\ Astray(job[r].kek) THEN late \cup {"key"} ELSE late
    /\ UNCHANGED <<server, kekVars, secrets, minted, files, ocrVars, rotationVars,
                   bounds, torn>>

\* INSERT ... ON CONFLICT DO NOTHING: the loser reads the winner's row.
UploadMint(r) ==
    /\ pc[r] = "mint"
    /\ \/ /\ keyRow = NoKey
          /\ keyRow' = [dek |-> job[r].key.key, kek |-> job[r].kek]
          /\ late' = IF Astray(job[r].kek) THEN late \cup {"key"} ELSE late
          /\ Enter(r, "write", job[r].file, job[r].key)
       \/ /\ keyRow # NoKey
          /\ Enter(r, "reread", job[r].file, job[r].key)
          /\ UNCHANGED <<keyRow, late>>
    /\ UNCHANGED <<server, kekVars, secrets, minted, files, ocrVars, rotationVars,
                   bounds, torn>>

UploadReread(r) ==
    /\ pc[r] = "reread"
    /\ \/ Unwraps(keyRow) /\ Enter(r, "write", job[r].file, UnderDek(keyRow.dek))
       \/ ~Unwraps(keyRow) /\ Leave(r)
    /\ UNCHANGED <<server, kekVars, keys, files, ocrVars, rotationVars, bounds, history>>

UploadWrite(r) ==
    /\ pc[r] = "write"
    /\ disk' = [disk EXCEPT ![job[r].file] = job[r].key]
    /\ Enter(r, "insert", job[r].file, job[r].key)
    /\ UNCHANGED <<server, kekVars, keys, version, ocrVars, rotationVars, bounds, history>>

UploadInsert(r) ==
    /\ pc[r] = "insert"
    /\ LET f == job[r].file key == job[r].key IN
         /\ version' = [version EXCEPT ![f] = IF key = Plain THEN 0 ELSE 2]
         /\ ocr' = [ocr EXCEPT ![f] = "pending"]
         /\ Enter(r, "ocr", f, key)
    /\ UNCHANGED <<server, kekVars, keys, disk, extracting, sweep, old, rotationVars,
                   bounds, history>>

\* Plan, quota and provider decide: markOcrSkipped, or runOcrExtraction
\* without waiting for it.
UploadOcr(r) ==
    /\ pc[r] = "ocr"
    /\ LET f == job[r].file IN
         \/ /\ ocr' = [ocr EXCEPT ![f] = IF @ = "pending" THEN "skipped" ELSE @]
            /\ UNCHANGED extracting
         \/ extracting' = extracting \cup {f} /\ UNCHANGED ocr
    /\ Leave(r)
    /\ UNCHANGED <<server, kekVars, keys, files, sweep, old, rotationVars, bounds, history>>

\* A full disk, a lost connection, or the transaction deleted meanwhile.
UploadFails(r) ==
    /\ pc[r] # "idle" /\ failures < MaxFailures /\ failures' = failures + 1
    /\ Leave(r)
    /\ UNCHANGED <<server, kekVars, keys, files, ocrVars, rotationVars, edits, history>>

\* The row goes first; a file that cannot be removed is left.
DeleteAttachment(f) ==
    /\ up /\ version[f] # NoVersion
    /\ edits < MaxEdits /\ edits' = edits + 1
    /\ version' = [version EXCEPT ![f] = NoVersion]
    /\ \/ disk' = [disk EXCEPT ![f] = NoFile]
       \/ disk' = disk
    /\ torn' = torn \ {f}
    /\ UNCHANGED <<server, kekVars, keys, ocrVars, requestVars, rotationVars,
                   failures, late>>

-----------------------------------------------------------------------------
(* OCR.  A wedged call is answered by its timeout, so each call ends.      *)

Settle(f, status) ==
    ocr' = [ocr EXCEPT ![f] = IF version[f] = NoVersion THEN @ ELSE status]

OcrEnds(f) ==
    /\ f \in extracting
    /\ extracting' = extracting \ {f}
    /\ \E status \in {"extracted", "failed"} : Settle(f, status)
    /\ UNCHANGED <<server, kekVars, keys, files, sweep, old, requestVars, rotationVars,
                   bounds, history>>

\* A mutant of SweepRow: a row it cannot read is passed over.
SweepReadable(f, v) ==
    /\ <<f, v>> \in sweep
    /\ sweep' = sweep \ {<<f, v>>}
    /\ \/ Opens(f, v) /\ \E status \in {"extracted", "failed"} : Settle(f, status)
       \/ ~Opens(f, v) /\ ocr' = ocr
    /\ UNCHANGED <<server, kekVars, keys, files, extracting, old, requestVars,
                   rotationVars, bounds, history>>

\* sweepPendingOcr, one row: the version is the one it listed at boot.
SweepRow(f, v) ==
    /\ <<f, v>> \in sweep
    /\ sweep' = sweep \ {<<f, v>>}
    /\ \/ Opens(f, v) /\ \E status \in {"extracted", "failed"} : Settle(f, status)
       \/ ~Opens(f, v) /\ Settle(f, IF ocr[f] = "pending" THEN "failed" ELSE ocr[f])
    /\ UNCHANGED <<server, kekVars, keys, files, extracting, old, requestVars,
                   rotationVars, bounds, history>>

\* A minute passes over an upload.
Age(f) ==
    /\ version[f] # NoVersion /\ f \notin old
    /\ old' = old \cup {f}
    /\ UNCHANGED <<server, kekVars, keys, files, ocr, extracting, sweep, requestVars,
                   rotationVars, bounds, history>>

-----------------------------------------------------------------------------
(* rotateTenantKey: read the key and wrap a new one, list the rows, rewrite *)
(* file by file, commit the new key and the rows' version.                 *)

Turn(o, stage, j) ==
    /\ rpc' = [rpc EXCEPT ![o] = stage]
    /\ rjob' = [rjob EXCEPT ![o] = j]

RotateBegin(o) ==
    /\ up /\ rpc[o] = "idle" /\ minted < MaxDeks
    /\ kekRun # 0 /\ (keyRow = NoKey \/ Unwraps(keyRow))
    /\ minted' = minted + 1
    /\ Turn(o, "list", [NoRotation EXCEPT !.dek = keyRow.dek, !.fresh = minted + 1,
                                          !.kek = kekRun])
    /\ UNCHANGED <<server, kekVars, keyRow, secrets, files, ocrVars, requestVars,
                   bounds, history>>

RotateList(o) ==
    /\ rpc[o] = "list"
    /\ Turn(o, "next", [rjob[o] EXCEPT
            !.todo = {e \in Listed : e[2] = version[e[1]] /\ e[2] # NoVersion}])
    /\ UNCHANGED <<server, kekVars, keys, files, ocrVars, requestVars, bounds, history>>

\* What decrypting gives, by the version listed; NoFile where it throws.
Decrypted(o, f, v) ==
    CASE v = 0 /\ disk[f] # NoFile -> IF disk[f] = Plain THEN Plain ELSE Junk
      [] v = 1 /\ disk[f] = UnderKek(kekRun) -> Plain
      [] v = 2 /\ rjob[o].dek # 0 /\ disk[f] = UnderDek(rjob[o].dek) -> Plain
      [] OTHER -> NoFile

RotateRead(o, f, v) ==
    /\ rpc[o] = "next" /\ <<f, v>> \in rjob[o].todo
    /\ Decrypted(o, f, v) # NoFile
    /\ Turn(o, "write", [rjob[o] EXCEPT !.todo = @ \ {<<f, v>>}, !.file = f,
                                        !.holds = Decrypted(o, f, v)])
    /\ UNCHANGED <<server, kekVars, keys, files, ocrVars, requestVars, bounds, history>>

RotateWrite(o) ==
    /\ rpc[o] = "write"
    /\ disk' = [disk EXCEPT ![rjob[o].file] =
                  IF rjob[o].holds = Plain THEN UnderDek(rjob[o].fresh) ELSE Junk]
    /\ Turn(o, "next", [rjob[o] EXCEPT !.done = @ \cup {rjob[o].file},
                                       !.file = "none", !.holds = NoFile])
    /\ UNCHANGED <<server, kekVars, keys, version, ocrVars, requestVars, bounds, history>>

Rivals(o) == {q \in Rotators \ {o} : rpc[q] # "idle"}
Rows == {f \in Files : version[f] # NoVersion}

\* What a rotation has not rewritten: rows inserted since its list, uploads
\* with the old key in hand, and anything when rotations overlap.
InFlight == {job[r].file : r \in {q \in Requests : pc[q] \in {"write", "insert"}
                                                     /\ job[q].key # Plain}}
LeftBehind(o) ==
    IF Rivals(o) = {} THEN (Rows \ rjob[o].done) \cup InFlight ELSE Files

\* A mutant of RotateCommit: one row's update is forgotten.
CommitKeyOnly(o) ==
    /\ rpc[o] = "next" /\ rjob[o].todo = {}
    /\ keyRow' = [dek |-> rjob[o].fresh, kek |-> rjob[o].kek]
    /\ Turn(o, "idle", NoRotation)
    /\ late' = IF Astray(rjob[o].kek) THEN late \cup {"key"} ELSE late \ {"key"}
    /\ torn' = torn \cup LeftBehind(o)
    /\ UNCHANGED <<server, kekVars, secrets, minted, files, ocrVars, requestVars, bounds>>

\* The rows inserted since the list are relabelled with the others.
RotateCommit(o) ==
    /\ rpc[o] = "next" /\ rjob[o].todo = {}
    /\ keyRow' = [dek |-> rjob[o].fresh, kek |-> rjob[o].kek]
    /\ version' = [f \in Files |-> IF f \in Rows THEN 2 ELSE version[f]]
    /\ Turn(o, "idle", NoRotation)
    /\ late' = IF Astray(rjob[o].kek) THEN late \cup {"key"} ELSE late \ {"key"}
    /\ torn' = torn \cup LeftBehind(o)
    /\ UNCHANGED <<server, kekVars, secrets, minted, disk, ocrVars, requestVars, bounds>>

\* A file that is gone or does not decrypt ends it, as does any failure;
\* what it has rewritten stays under a key nobody keeps.
RotateFails(o) ==
    /\ rpc[o] # "idle"
    /\ \/ /\ \E e \in rjob[o].todo : Decrypted(o, e[1], e[2]) = NoFile
          /\ rpc[o] = "next" /\ UNCHANGED failures
       \/ failures < MaxFailures /\ failures' = failures + 1
    /\ torn' = torn \cup rjob[o].done
    /\ Turn(o, "idle", NoRotation)
    /\ UNCHANGED <<server, kekVars, keys, files, ocrVars, requestVars, edits, late>>

-----------------------------------------------------------------------------
(* scripts/rotate-kek.mjs, a process of its own: rotateKek in one database *)
(* transaction, then .env.  Its SELECTs take no lock.                      *)

Configure ==
    /\ kekEnv = 0
    /\ kekEnv' = 1 /\ keks' = 1
    /\ UNCHANGED <<server, kpc, kjob, keys, files, ocrVars, requestVars, rotationVars,
                   bounds, history>>

KekList ==
    /\ kpc = "idle" /\ kekEnv # 0 /\ keks < MaxKeks
    /\ kpc' = "rewrap" /\ keks' = keks + 1
    /\ kjob' = [row |-> keyRow, secrets |-> secrets, kek |-> keks + 1]
    /\ UNCHANGED <<server, kekEnv, keys, files, ocrVars, requestVars, rotationVars,
                   bounds, history>>

Foreign == \/ kjob.row # NoKey /\ kjob.row.kek # kekEnv
           \/ \E s \in Secrets : kjob.secrets[s] \notin {0, kekEnv}

Rewrapped == {s \in Secrets : kjob.secrets[s] # 0}
             \cup (IF kjob.row = NoKey THEN {} ELSE {"key"})

\* A mutant of KekCommit: the credentials are left under the old KEK.
KeysOnly ==
    /\ kpc = "rewrap" /\ ~Foreign
    /\ keyRow' = IF kjob.row = NoKey THEN keyRow
                 ELSE [dek |-> kjob.row.dek, kek |-> kjob.kek]
    /\ kpc' = "env" /\ late' = late \ Rewrapped
    /\ torn' = IF kjob.row # NoKey /\ kjob.row.dek # keyRow.dek THEN Files ELSE torn
    /\ UNCHANGED <<server, kjob, keks, kekEnv, secrets, minted, files, ocrVars,
                   requestVars, rotationVars, bounds>>

\* Every listed value is written back under the new KEK, a DEK that has
\* been rotated meanwhile included.
KekCommit ==
    /\ kpc = "rewrap" /\ ~Foreign
    /\ keyRow' = IF kjob.row = NoKey THEN keyRow
                 ELSE [dek |-> kjob.row.dek, kek |-> kjob.kek]
    /\ secrets' = [s \in Secrets |-> IF kjob.secrets[s] = 0 THEN secrets[s] ELSE kjob.kek]
    /\ kpc' = "env" /\ late' = late \ Rewrapped
    /\ torn' = IF kjob.row # NoKey /\ kjob.row.dek # keyRow.dek THEN Files ELSE torn
    /\ UNCHANGED <<server, kjob, keks, kekEnv, minted, files, ocrVars, requestVars,
                   rotationVars, bounds>>

\* A row it cannot unwrap, or its own death, rolls everything back.
KekAbort ==
    /\ kpc = "rewrap"
    /\ \/ Foreign /\ UNCHANGED failures
       \/ failures < MaxFailures /\ failures' = failures + 1
    /\ kpc' = "idle" /\ kjob' = NoRewrap
    /\ UNCHANGED <<server, keks, kekEnv, keys, files, ocrVars, requestVars, rotationVars,
                   edits, history>>

\* The rename of .env, by the script or by the operator it leaves it to.
KekEnv ==
    /\ kpc = "env"
    /\ kekEnv' = kjob.kek /\ kpc' = "idle" /\ kjob' = NoRewrap
    /\ UNCHANGED <<server, keks, keys, files, ocrVars, requestVars, rotationVars, bounds,
                   history>>

\* PUT /api/settings/ATTACHMENT_ENCRYPTION_KEY by a super-admin: stored, and
\* applied to the running config at once.
PutKek(k) ==
    /\ up /\ k \in 1 .. MaxKeks /\ k <= keks + 1
    /\ edits < MaxEdits /\ edits' = edits + 1
    /\ kekSetting' = k /\ kekRun' = k
    /\ keks' = IF k > keks THEN k ELSE keks
    /\ torn' = torn \cup Shut(k)
    /\ UNCHANGED <<up, kekEnv, kpc, kjob, keys, files, ocrVars, requestVars,
                   rotationVars, failures, late>>

\* DELETE of the same: the running config keeps the key until the next boot.
ClearKek ==
    /\ up /\ kekSetting # 0 /\ kekSetting' = 0
    /\ UNCHANGED <<up, kekRun, kekVars, keys, files, ocrVars, requestVars, rotationVars,
                   bounds, history>>

\* encryptString: a bank login linked, or linked anew.
LinkSecret(s) ==
    /\ up /\ kekRun # 0
    /\ edits < MaxEdits /\ edits' = edits + 1
    /\ secrets' = [secrets EXCEPT ![s] = kekRun]
    /\ late' = IF Astray(kekRun) THEN late \cup {s} ELSE late \ {s}
    /\ UNCHANGED <<server, kekVars, keyRow, minted, files, ocrVars, requestVars,
                   rotationVars, failures, torn>>

-----------------------------------------------------------------------------
(* The server dies with its requests; what a rotation had rewritten is lost. *)

\* applyBootSettings: a value in the database goes before the environment.
Effective == IF kekSetting # 0 THEN kekSetting ELSE kekEnv

Crash ==
    /\ up /\ up' = FALSE
    /\ \/ failures < MaxFailures /\ failures' = failures + 1
       \/ Effective # kekRun /\ UNCHANGED failures    \* restarted for the new KEK
    /\ torn' = torn \cup UNION {rjob[o].done : o \in Rotators}
    /\ pc' = [r \in Requests |-> "idle"] /\ job' = [r \in Requests |-> NoJob]
    /\ rpc' = [o \in Rotators |-> "idle"]
    /\ rjob' = [o \in Rotators |-> NoRotation]
    /\ extracting' = {} /\ sweep' = {}
    /\ UNCHANGED <<kekRun, kekSetting, kekVars, keys, files, ocr, old, edits, late>>

Unanswered == {f \in Files : version[f] # NoVersion /\ ocr[f] = "pending" /\ f \in old}

\* A mutant of Boot: the sweep runs again while the server is up.
SweepAnyTime ==
    /\ up' = TRUE /\ kekRun' = Effective
    /\ sweep' = {<<f, version[f]>> : f \in Unanswered}
    /\ torn' = torn \cup Shut(Effective)
    /\ UNCHANGED <<kekSetting, kekVars, keys, files, ocr, old, extracting, requestVars,
                   rotationVars, bounds, late>>

\* The KEK is read from .env, and the sweep lists its rows once.
Boot ==
    /\ ~up /\ up' = TRUE /\ kekRun' = Effective
    /\ sweep' = {<<f, version[f]>> : f \in Unanswered}
    /\ torn' = torn \cup Shut(Effective)
    /\ UNCHANGED <<kekSetting, kekVars, keys, files, ocr, old, extracting, requestVars,
                   rotationVars, bounds, late>>

Upload(r) ==
    \/ \E f \in Files : UploadBegin(r, f)
    \/ UploadMint(r) \/ UploadReread(r) \/ UploadWrite(r) \/ UploadInsert(r)
    \/ UploadOcr(r) \/ UploadFails(r)

Ocr(f) == OcrEnds(f) \/ Age(f) \/ \E v \in Versions : SweepRow(f, v)

Rotate(o) ==
    \/ RotateBegin(o) \/ RotateList(o) \/ RotateWrite(o)
    \/ \E f \in Files, v \in Versions : RotateRead(o, f, v)
    \/ RotateCommit(o) \/ RotateFails(o)

RotateKek == \/ Configure \/ ClearKek \/ \E k \in Keks : PutKek(k)
             \/ KekList \/ KekCommit \/ KekAbort \/ KekEnv

Next ==
    \/ \E r \in Requests : Upload(r)
    \/ \E f \in Files : DeleteAttachment(f) \/ Ocr(f)
    \/ \E o \in Rotators : Rotate(o)
    \/ \E s \in Secrets : LinkSecret(s)
    \/ RotateKek \/ Crash \/ Boot

Spec == Init /\ [][Next]_vars

\* A call to the OCR provider is ended by its timeout, the sweep goes on to
\* its next row, and a server that died is started again.
FairSpec ==
    /\ Spec /\ WF_vars(Boot)
    /\ \A f \in Files : /\ WF_vars(OcrEnds(f))
                        /\ \A v \in Versions : WF_vars(SweepRow(f, v))

-----------------------------------------------------------------------------
(* Properties.                                                             *)

Rewriting(f) == \E o \in Rotators : f \in rjob[o].done

\* The file is under the key its row says: the server's KEK, or the data key,
\* whichever KEK that is wrapped by.
Held(f) ==
    CASE version[f] = 0 -> disk[f] = Plain
      [] version[f] = 1 -> disk[f] = UnderKek(kekRun)
      [] version[f] = 2 -> disk[f] = UnderDek(keyRow.dek)
      [] OTHER -> TRUE

\* However uploads, their race for the first key, deletions, rotations of
\* either key and crashes interleave, a stored receipt is under the key its
\* row points at, except in the known cases that history marks: the rewritten
\* files of a rotation that is running or did not finish, uploads that
\* overlapped a rotation, rotations that overlapped each other, and files
\* directly under a KEK the server has not any more.
FilesHeld ==
    \A f \in Files \ torn : Rewriting(f) \/ Held(f)

\* Rotating the KEK loses no key and no bank login: all that is wrapped is
\* under one KEK, the one .env holds or is about to, except what a server
\* had wrapped with another or stored while the script was at work.
KeysFollow ==
    /\ keyRow # NoKey /\ "key" \notin late => keyRow.kek = DbKek
    /\ \A s \in Secrets \ late : secrets[s] \in {0, DbKek}

\* One answer for each receipt: the sweep, an upload's own OCR call and
\* a crash between them never replace an OCR result that is there.
SettledStays ==
    [][\A f \in Files : ocr[f] \in {"extracted", "failed", "skipped"}
                          => ocr'[f] = ocr[f]]_vars

\* What the user sees as "pending" is answered: of a receipt old enough for
\* the sweep that somebody has in hand, across crashes and unreadable files.
InHand(f) == f \in extracting \/ \E v \in Versions : <<f, v>> \in sweep
OcrAnswered ==
    \A f \in Files :
        (f \in Unanswered /\ InHand(f)) ~> (f \notin Unanswered)

\* The script's last words: "restart the container so the new KEK is loaded".
\* Booting after it, the server opens the keys that the script has re-wrapped.
RestartLoadsKek ==
    [][~up /\ up' /\ kpc = "idle" /\ kekSetting < kekEnv /\ keyRow.kek = kekEnv
       => keyRow.kek = kekRun']_vars

=============================================================================
