--------------------------- MODULE AttachmentsProofs ---------------------------
(***************************************************************************)
(* Proofs about Attachments: FilesHeld, KeysFollow and SettledStays, for   *)
(* any files, requests, rotations and stored credentials.                  *)
(***************************************************************************)
EXTENDS Attachments, TLAPS

DekKeys == {UnderDek(d) : d \in Deks}

\* What the processes may have in hand, and when there is a key at all.
Shapes ==
    /\ keyRow # NoKey => keyRow.dek # 0 /\ keyRow.kek # 0
    /\ kjob.row # NoKey => kjob.row.dek # 0
    /\ kpc # "idle" => kekEnv # 0 /\ kjob.kek # 0
    /\ \A r \in Requests : pc[r] = "mint" => job[r].kek # 0
    /\ \A o \in Rotators : rpc[o] # "idle" => rjob[o].kek # 0
    /\ ~up => /\ \A r \in Requests : pc[r] = "idle"
              /\ \A o \in Rotators : rpc[o] = "idle"
              /\ extracting = {} /\ sweep = {}

\* A row, once inserted, has an ocr_status for good.
Known(f) == ocr[f] # "none"
RowsKnown == \A f \in Files : version[f] # NoVersion => Known(f)

\* Each upload has a file of its own, which has no row until it inserts one.
JobOf(r) ==
    /\ job[r].file \in Files
    /\ pc[r] # "mint" => job[r].kek = 0
    /\ job[r].key \in DekKeys \cup (IF pc[r] \in {"mint", "reread"} THEN {} ELSE {Plain})
    /\ pc[r] # "ocr" => version[job[r].file] = NoVersion /\ ~Known(job[r].file)
    /\ pc[r] = "insert" => disk[job[r].file] = job[r].key
    /\ pc[r] = "ocr" => Known(job[r].file)
Jobs ==
    /\ \A r \in Requests : pc[r] # "idle" => JobOf(r)
    /\ \A r, q \in Requests : pc[r] # "idle" /\ pc[q] # "idle" /\ job[r].file = job[q].file
                                => r = q

\* An upload that is to write or has written under a key has the tenant's key,
\* or is known to have been overtaken.
HandsCurrent ==
    \A r \in Requests : pc[r] \in {"write", "insert"} /\ job[r].key # Plain =>
      job[r].key = UnderDek(keyRow.dek) \/ job[r].file \in torn

\* A file that rotation o may have spoilt, or another has rewritten.
Lost(o, f) ==
    \/ f \in torn \/ version[f] = NoVersion
    \/ \E q \in Rotators \ {o} : f \in rjob[q].done

\* What a rotation lists are rows as they are or were; each is rewritten once,
\* under the key to come.
RotationOf(o) ==
    /\ rjob[o].fresh # 0
    /\ rpc[o] = "list" => rjob[o].todo = {} /\ rjob[o].done = {}
    /\ \A e \in rjob[o].todo :
         /\ Known(e[1]) /\ e[1] \notin rjob[o].done
         /\ version[e[1]] \in {e[2], NoVersion} \/ e[1] \in torn
         /\ \A d \in rjob[o].todo : d[1] = e[1] => d = e
    /\ \A f \in rjob[o].done :
         Known(f) /\ (disk[f] = UnderDek(rjob[o].fresh) \/ Lost(o, f))
    /\ rpc[o] = "write" =>
         /\ rjob[o].file \in Files /\ Known(rjob[o].file)
         /\ rjob[o].file \notin rjob[o].done
         /\ \A e \in rjob[o].todo : e[1] # rjob[o].file
         /\ rjob[o].holds = Plain \/ (rjob[o].holds = Junk /\ Lost(o, rjob[o].file))
Rotations ==
    \A o \in Rotators : IF rpc[o] = "idle" THEN rjob[o] = NoRotation ELSE RotationOf(o)

\* What the script did not list was wrapped behind its back.
Unlisted ==
    kpc = "rewrap" =>
      /\ kjob.row = NoKey => keyRow = NoKey \/ "key" \in late
      /\ \A s \in Secrets : kjob.secrets[s] = 0 => secrets[s] = 0 \/ s \in late

\* A receipt is pending as long as its upload, its OCR call or the sweep has it,
\* and one of them has it.
OcrOpen ==
    /\ \A f \in extracting : ocr[f] = "pending"
    /\ \A e \in sweep : /\ ocr[e[1]] = "pending" /\ e[1] \notin extracting
                        /\ \A d \in sweep : d[1] = e[1] => d = e
    /\ \A r \in Requests : pc[r] = "ocr" =>
         /\ ocr[job[r].file] = "pending" /\ job[r].file \notin extracting
         /\ \A e \in sweep : e[1] # job[r].file

Inv ==
    /\ TypeOK /\ Shapes /\ RowsKnown /\ Jobs /\ HandsCurrent /\ Rotations
    /\ FilesHeld /\ Unlisted /\ KeysFollow /\ OcrOpen

-----------------------------------------------------------------------------
(* Types of what is at hand.                                               *)

Jobrecs == [file : Files \cup {"none"}, key : Content, kek : Keks]
Rotationrecs == [dek : 0 .. MaxDeks, fresh : 0 .. MaxDeks, kek : Keks,
                 todo : SUBSET Listed, done : SUBSET Files,
                 file : Files \cup {"none"}, holds : Content]
Rewraprecs == [row : KeyRow, secrets : [Secrets -> Keks], kek : Keks]

LEMMA Contents ==
  ASSUME AttachmentsOK
  PROVE  /\ NoFile \in Content /\ Plain \in Content /\ Junk \in Content
         /\ \A d \in Deks : UnderDek(d) \in DekKeys /\ UnderDek(d) # NoFile
                            /\ UnderDek(d) # Plain /\ UnderDek(d) # Junk
                            /\ UnderDek(d).kind = "dek" /\ UnderDek(d).key = d
         /\ DekKeys \subseteq Content
         /\ Plain # NoFile /\ Plain # Junk /\ Junk # NoFile
         /\ NoJob \in Jobrecs /\ NoRotation \in Rotationrecs /\ NoRewrap \in Rewraprecs
         /\ NoKey \in KeyRow /\ MaxDeks \in Nat /\ MaxKeks \in Nat
         /\ NoKey.dek = 0 /\ NoKey.kek = 0 /\ 0 \in Keks
BY DEF AttachmentsOK, Content, DekKeys, UnderDek, NoFile, Plain, Junk, NoJob, NoRotation,
       NoRewrap, NoKey, KeyRow, Keks, Deks, Jobrecs, Rotationrecs, Rewraprecs

\* The key of an upload that reads the tenant's key.
LEMMA KeyInHand ==
  ASSUME AttachmentsOK, TypeOK, Shapes, keyRow # NoKey
  PROVE  keyRow.dek \in Deks /\ UnderDek(keyRow.dek) \in DekKeys
BY Contents DEF TypeOK, Shapes, KeyRow, Deks

LEMMA TypeInit ==
  ASSUME AttachmentsOK, Init
  PROVE  TypeOK
<1>1. kekRun \in Keks /\ keks \in Keks
  BY DEF Init, AttachmentsOK, Keks
<1>2. 1 \in Keks
  BY DEF AttachmentsOK, Keks
<1>3. disk \in [Files -> Content] /\ version \in [Files -> Versions]
  BY <1>2, Contents DEF Init, Content, Versions, NoVersion
<1>4. ocr \in [Files -> OcrStates]
  BY DEF Init, OcrStates
<1>5. /\ job \in [Requests -> Jobrecs] /\ pc \in [Requests -> UploadStages]
      /\ \A r \in Requests : pc[r] = "idle" <=> job[r] = NoJob
      /\ rjob \in [Rotators -> Rotationrecs] /\ kjob \in Rewraprecs
  BY Contents DEF Init, UploadStages
<1>6. keyRow \in KeyRow /\ secrets \in [Secrets -> Keks] /\ 0 \in Keks /\ minted \in 0 .. MaxDeks
  BY Contents DEF Init, Keks
<1> QED
  BY <1>1, <1>3, <1>4, <1>5, <1>6
  DEF Init, TypeOK, Jobrecs, Rotationrecs, Rewraprecs

-----------------------------------------------------------------------------
(* How a step moves an upload, a rotation or the script.                   *)

\* Upload r goes on to stage with the file and key of j.
Uploads(r, stage, j) ==
    /\ pc' \in [Requests -> UploadStages] /\ job' \in [Requests -> Jobrecs]
    /\ \A q \in Requests : pc'[q] = "idle" <=> job'[q] = NoJob
    /\ \A q \in Requests : /\ pc'[q] = IF q = r THEN stage ELSE pc[q]
                           /\ job'[q] = IF q = r THEN j ELSE job[q]

LEMMA Entering ==
  ASSUME AttachmentsOK, TypeOK, NEW r \in Requests,
         NEW stage \in UploadStages \ {"idle"}, NEW f \in Files \cup {"none"},
         NEW key \in Content \ {NoFile}, NEW k \in Keks, Hold(r, stage, f, key, k)
  PROVE  Uploads(r, stage, [file |-> f, key |-> key, kek |-> k])
<1>1. /\ [file |-> f, key |-> key, kek |-> k] \in Jobrecs
      /\ [file |-> f, key |-> key, kek |-> k] # NoJob
  BY DEF Jobrecs, NoJob
<1>2. pc \in [Requests -> UploadStages] /\ job \in [Requests -> Jobrecs]
      /\ \A q \in Requests : pc[q] = "idle" <=> job[q] = NoJob
  BY DEF TypeOK, Jobrecs
<1> QED
  BY <1>1, <1>2 DEF Hold, Uploads

LEMMA LeavingUpload ==
  ASSUME AttachmentsOK, TypeOK, NEW r \in Requests, Leave(r)
  PROVE  Uploads(r, "idle", NoJob)
<1>1. pc \in [Requests -> UploadStages] /\ job \in [Requests -> Jobrecs]
      /\ \A q \in Requests : pc[q] = "idle" <=> job[q] = NoJob
  BY DEF TypeOK, Jobrecs
<1> QED
  BY <1>1, Contents DEF Leave, Uploads, UploadStages

\* Rotation o goes on to stage with j.
Rotates(o, stage, j) ==
    /\ rpc' \in [Rotators -> {"idle", "list", "next", "write"}]
    /\ rjob' \in [Rotators -> Rotationrecs]
    /\ \A q \in Rotators : /\ rpc'[q] = IF q = o THEN stage ELSE rpc[q]
                           /\ rjob'[q] = IF q = o THEN j ELSE rjob[q]

LEMMA Turning ==
  ASSUME TypeOK, NEW o \in Rotators, NEW stage \in {"idle", "list", "next", "write"},
         NEW j \in Rotationrecs, Turn(o, stage, j)
  PROVE  Rotates(o, stage, j)
<1>1. /\ rpc \in [Rotators -> {"idle", "list", "next", "write"}]
      /\ rjob \in [Rotators -> Rotationrecs]
  BY DEF TypeOK, Rotationrecs
<1> HIDE DEF Rotationrecs
<1> QED
  BY <1>1 DEF Turn, Rotates

-----------------------------------------------------------------------------
(* What each step of an upload has in hand before and after.               *)

Wrapped(f, key, k) == [file |-> f, key |-> key, kek |-> k]
Hands(f, key) == Wrapped(f, key, 0)

LEMMA EnteringHands ==
  ASSUME AttachmentsOK, TypeOK, NEW r \in Requests,
         NEW stage \in UploadStages \ {"idle"}, NEW f \in Files \cup {"none"},
         NEW key \in Content \ {NoFile}, Enter(r, stage, f, key)
  PROVE  Uploads(r, stage, Hands(f, key))
BY Entering, Contents DEF Enter, Hands, Wrapped

LEMMA JobHeld ==
  ASSUME AttachmentsOK, TypeOK, Jobs, NEW r \in Requests, pc[r] # "idle"
  PROVE  /\ job[r] \in Jobrecs /\ job[r].file \in Files
         /\ job[r].key \in DekKeys \cup {Plain} /\ job[r].key \in Content \ {NoFile}
         /\ pc[r] \in {"mint", "reread"} => job[r].key \in DekKeys
         /\ pc[r] # "mint" => job[r] = Hands(job[r].file, job[r].key)
<1>1. job[r] \in Jobrecs /\ JobOf(r)
  BY DEF TypeOK, Jobs, Jobrecs
<1>2. DekKeys \subseteq Content \ {NoFile}
  BY Contents DEF DekKeys
<1> QED
  BY <1>1, <1>2, Contents DEF JobOf, Jobrecs, Hands, Wrapped

LEMMA Begins ==
  ASSUME AttachmentsOK, TypeOK, Shapes, NEW r \in Requests, NEW f \in Files, UploadBegin(r, f)
  PROVE  \E stage \in {"mint", "write"}, key \in DekKeys \cup {Plain}, k \in Keks :
           /\ Uploads(r, stage, Wrapped(f, key, k)) /\ pc[r] = "idle" /\ up
           /\ stage = "mint" => key \in DekKeys /\ k # 0
           /\ stage # "mint" => k = 0
           /\ stage = "write" /\ key # Plain => key = UnderDek(keyRow.dek)
           /\ minted' \in 0 .. MaxDeks
<1> USE DEF UploadBegin, Hands
<1>0. minted \in 0 .. MaxDeks /\ MaxDeks \in Nat /\ 0 \in Keks /\ kekRun \in Keks
  BY Contents DEF TypeOK
<1>1. CASE kekRun = 0 /\ Enter(r, "write", f, Plain) /\ UNCHANGED minted
  <2>1. Uploads(r, "write", Hands(f, Plain))
    BY <1>1, EnteringHands, Contents DEF UploadStages
  <2> QED
    BY <1>0, <1>1, <2>1
<1>2. CASE /\ kekRun # 0 /\ Unwraps(keyRow)
           /\ Enter(r, "write", f, UnderDek(keyRow.dek)) /\ UNCHANGED minted
  <2>1. keyRow.dek \in Deks /\ UnderDek(keyRow.dek) \in DekKeys
    BY <1>2, KeyInHand DEF Unwraps
  <2>2. UnderDek(keyRow.dek) \in Content \ {NoFile}
    BY <2>1, Contents
  <2>3. Uploads(r, "write", Hands(f, UnderDek(keyRow.dek)))
    BY <1>2, <2>2, EnteringHands DEF UploadStages
  <2> QED
    BY <1>0, <1>2, <2>1, <2>3
<1>3. CASE /\ kekRun # 0 /\ keyRow = NoKey /\ minted < MaxDeks
           /\ Hold(r, "mint", f, UnderDek(minted + 1), kekRun) /\ minted' = minted + 1
  <2>1. minted + 1 \in Deks /\ minted' \in 0 .. MaxDeks
    BY <1>0, <1>3 DEF Deks
  <2>2. UnderDek(minted + 1) \in DekKeys /\ UnderDek(minted + 1) \in Content \ {NoFile}
    BY <2>1, Contents
  <2>3. Uploads(r, "mint", Wrapped(f, UnderDek(minted + 1), kekRun))
    BY <1>0, <1>3, <2>2, Entering DEF UploadStages, Wrapped
  <2> QED
    BY <1>0, <1>3, <2>1, <2>2, <2>3
<1> QED
  BY <1>1, <1>2, <1>3

\* The other steps keep the file; all but the second read of the key keep the key.
LEMMA Mints ==
  ASSUME AttachmentsOK, TypeOK, Shapes, Jobs, NEW r \in Requests, UploadMint(r)
  PROVE  /\ pc[r] = "mint" /\ job[r].key \in DekKeys /\ job[r].kek # 0
         /\ \/ /\ keyRow = NoKey /\ keyRow' \in KeyRow
               /\ keyRow'.dek \in Deks /\ keyRow'.kek = job[r].kek
               /\ job[r].key = UnderDek(keyRow'.dek)
               /\ late' = IF Astray(job[r].kek) THEN late \cup {"key"} ELSE late
               /\ Uploads(r, "write", Hands(job[r].file, job[r].key))
            \/ /\ keyRow # NoKey /\ UNCHANGED <<keyRow, late>>
               /\ Uploads(r, "reread", Hands(job[r].file, job[r].key))
<1>1. pc[r] = "mint" /\ job[r].kek # 0 /\ job[r].kek \in Keks
  BY DEF UploadMint, Shapes, TypeOK
<1>2. job[r].key \in DekKeys /\ job[r].file \in Files /\ job[r].key \in Content \ {NoFile}
  BY <1>1, JobHeld
<1>3. PICK d \in Deks : job[r].key = UnderDek(d)
  BY <1>2 DEF DekKeys
<1>4. job[r].key.key = d
  BY <1>3 DEF UnderDek
<1>5. [dek |-> d, kek |-> job[r].kek] \in KeyRow
  BY <1>1, Contents DEF KeyRow, Deks
<1>6. CASE keyRow = NoKey
  <2>1. /\ keyRow' = [dek |-> d, kek |-> job[r].kek]
        /\ late' = IF Astray(job[r].kek) THEN late \cup {"key"} ELSE late
        /\ Enter(r, "write", job[r].file, job[r].key)
    BY <1>4, <1>6 DEF UploadMint
  <2>2. Uploads(r, "write", Hands(job[r].file, job[r].key))
    BY <1>2, <2>1, EnteringHands DEF UploadStages
  <2> QED
    BY <1>1, <1>2, <1>3, <1>5, <1>6, <2>1, <2>2
<1>7. CASE keyRow # NoKey
  <2>1. Enter(r, "reread", job[r].file, job[r].key) /\ UNCHANGED <<keyRow, late>>
    BY <1>7 DEF UploadMint
  <2>2. Uploads(r, "reread", Hands(job[r].file, job[r].key))
    BY <1>2, <2>1, EnteringHands DEF UploadStages
  <2> QED
    BY <1>1, <1>2, <1>7, <2>1, <2>2
<1> QED
  BY <1>6, <1>7

LEMMA MintsOn ==
  ASSUME AttachmentsOK, TypeOK, Shapes, Jobs, NEW r \in Requests, UploadMint(r)
  PROVE  /\ pc[r] = "mint" /\ job[r].key \in DekKeys /\ pc'[r] \in {"write", "reread"}
         /\ job'[r].file = job[r].file /\ job'[r].key = job[r].key /\ job'[r].kek = 0
         /\ keyRow = NoKey => job[r].key = UnderDek(keyRow'.dek)
         /\ keyRow # NoKey => pc'[r] = "reread"
<1>1. PICK stage \in {"write", "reread"} :
        /\ Uploads(r, stage, Hands(job[r].file, job[r].key))
        /\ pc[r] = "mint" /\ job[r].key \in DekKeys
        /\ keyRow = NoKey => job[r].key = UnderDek(keyRow'.dek)
        /\ keyRow # NoKey => stage = "reread"
  BY Mints
<1>2. pc'[r] = stage /\ job'[r] = Hands(job[r].file, job[r].key)
  BY <1>1 DEF Uploads
<1> QED
  BY <1>1, <1>2 DEF Hands, Wrapped

LEMMA Rereads ==
  ASSUME AttachmentsOK, TypeOK, Shapes, Jobs, NEW r \in Requests, UploadReread(r)
  PROVE  /\ pc[r] = "reread"
         /\ \/ /\ keyRow # NoKey /\ UnderDek(keyRow.dek) \in DekKeys
               /\ Uploads(r, "write", Hands(job[r].file, UnderDek(keyRow.dek)))
            \/ Uploads(r, "idle", NoJob)
<1>1. pc[r] = "reread"
  BY DEF UploadReread
<1>2. job[r].file \in Files
  BY <1>1, JobHeld
<1>3. CASE Leave(r)
  BY <1>1, <1>3, LeavingUpload
<1>4. CASE Unwraps(keyRow) /\ Enter(r, "write", job[r].file, UnderDek(keyRow.dek))
  <2>1. keyRow # NoKey /\ keyRow.dek \in Deks /\ UnderDek(keyRow.dek) \in DekKeys
    BY <1>4, KeyInHand DEF Unwraps
  <2>2. UnderDek(keyRow.dek) \in Content \ {NoFile}
    BY <2>1, Contents
  <2>3. Uploads(r, "write", Hands(job[r].file, UnderDek(keyRow.dek)))
    BY <1>2, <1>4, <2>2, EnteringHands DEF UploadStages
  <2> QED
    BY <1>1, <2>1, <2>3
<1> QED
  BY <1>3, <1>4 DEF UploadReread

LEMMA Writes ==
  ASSUME AttachmentsOK, TypeOK, Jobs, NEW r \in Requests, UploadWrite(r)
  PROVE  /\ pc[r] = "write" /\ Uploads(r, "insert", job[r])
         /\ disk' \in [Files -> Content]
         /\ \A f \in Files : disk'[f] = IF f = job[r].file THEN job[r].key ELSE disk[f]
<1>1. pc[r] = "write" /\ Enter(r, "insert", job[r].file, job[r].key)
      /\ disk' = [disk EXCEPT ![job[r].file] = job[r].key]
  BY DEF UploadWrite
<1>2. /\ job[r].file \in Files /\ job[r].key \in Content \ {NoFile}
      /\ job[r] = Hands(job[r].file, job[r].key)
  BY <1>1, JobHeld
<1>3. Uploads(r, "insert", job[r])
  BY <1>1, <1>2, EnteringHands DEF UploadStages
<1>4. disk \in [Files -> Content]
  BY DEF TypeOK
<1> QED
  BY <1>1, <1>2, <1>3, <1>4

LEMMA Inserts ==
  ASSUME AttachmentsOK, TypeOK, Jobs, NEW r \in Requests, UploadInsert(r)
  PROVE  /\ pc[r] = "insert" /\ Uploads(r, "ocr", job[r])
         /\ version' \in [Files -> Versions] /\ ocr' \in [Files -> OcrStates]
         /\ \A f \in Files :
              /\ version'[f] = IF f = job[r].file THEN IF job[r].key = Plain THEN 0 ELSE 2
                               ELSE version[f]
              /\ ocr'[f] = IF f = job[r].file THEN "pending" ELSE ocr[f]
<1>1. pc[r] = "insert" /\ Enter(r, "ocr", job[r].file, job[r].key)
      /\ version' = [version EXCEPT ![job[r].file] = IF job[r].key = Plain THEN 0 ELSE 2]
      /\ ocr' = [ocr EXCEPT ![job[r].file] = "pending"]
  BY DEF UploadInsert
<1>2. /\ job[r].file \in Files /\ job[r].key \in Content \ {NoFile}
      /\ job[r] = Hands(job[r].file, job[r].key)
  BY <1>1, JobHeld
<1>3. Uploads(r, "ocr", job[r])
  BY <1>1, <1>2, EnteringHands DEF UploadStages
<1>4. version \in [Files -> Versions] /\ ocr \in [Files -> OcrStates]
  BY DEF TypeOK
<1> QED
  BY <1>1, <1>2, <1>3, <1>4 DEF Versions, OcrStates

LEMMA Decides ==
  ASSUME AttachmentsOK, TypeOK, Jobs, NEW r \in Requests, UploadOcr(r)
  PROVE  /\ pc[r] = "ocr" /\ Uploads(r, "idle", NoJob)
         /\ ocr' \in [Files -> OcrStates] /\ extracting' \subseteq Files
         /\ \/ /\ extracting' = extracting
               /\ \A f \in Files : ocr'[f] = IF f = job[r].file /\ ocr[f] = "pending"
                                             THEN "skipped" ELSE ocr[f]
            \/ extracting' = extracting \cup {job[r].file} /\ ocr' = ocr
<1>1. pc[r] = "ocr" /\ Uploads(r, "idle", NoJob)
  BY LeavingUpload DEF UploadOcr
<1>2. job[r].file \in Files
  BY <1>1, JobHeld
<1>3. ocr \in [Files -> OcrStates] /\ extracting \subseteq Files
  BY DEF TypeOK
<1> QED
  BY <1>1, <1>2, <1>3 DEF UploadOcr, OcrStates

LEMMA Fails ==
  ASSUME AttachmentsOK, TypeOK, NEW r \in Requests, UploadFails(r)
  PROVE  pc[r] # "idle" /\ Uploads(r, "idle", NoJob) /\ failures' \in Nat
BY LeavingUpload DEF UploadFails, TypeOK

-----------------------------------------------------------------------------
(* What each step of a rotation has read and rewritten before and after.   *)

LEMMA RotationHeld ==
  ASSUME TypeOK, Rotations, NEW o \in Rotators, rpc[o] # "idle"
  PROVE  rjob[o] \in Rotationrecs /\ RotationOf(o) /\ rjob[o].fresh \in Deks
<1>1. rjob[o] \in Rotationrecs /\ RotationOf(o)
  BY DEF TypeOK, Rotations, Rotationrecs
<1> QED
  BY <1>1 DEF RotationOf, Rotationrecs, Deks

LEMMA RotationBegins ==
  ASSUME AttachmentsOK, TypeOK, NEW o \in Rotators, RotateBegin(o)
  PROVE  /\ rpc[o] = "idle" /\ kekRun # 0 /\ up /\ minted' \in 0 .. MaxDeks
         /\ \E j \in Rotationrecs :
              /\ Rotates(o, "list", j) /\ j.fresh \in Deks /\ j.fresh # 0
              /\ j.todo = {} /\ j.done = {} /\ j.kek # 0
<1> DEFINE j == [NoRotation EXCEPT !.dek = keyRow.dek, !.fresh = minted + 1, !.kek = kekRun]
<1>1. minted \in 0 .. MaxDeks /\ minted < MaxDeks /\ minted' = minted + 1 /\ MaxDeks \in Nat
  BY Contents DEF TypeOK, RotateBegin
<1>2. keyRow.dek \in 0 .. MaxDeks /\ kekRun \in Keks /\ kekRun # 0
  BY DEF TypeOK, KeyRow, RotateBegin
<1>3. /\ j \in Rotationrecs /\ j.fresh \in Deks /\ j.fresh # 0 /\ j.todo = {} /\ j.done = {}
      /\ j.kek # 0
  <2>1. minted + 1 \in 1 .. MaxDeks
    BY <1>1
  <2>2. PICK x \in Rotationrecs : x = NoRotation /\ x.todo = {} /\ x.done = {}
    BY Contents DEF NoRotation
  <2>3. ASSUME NEW d \in 0 .. MaxDeks, NEW n \in 0 .. MaxDeks, NEW k \in Keks
        PROVE  [x EXCEPT !.dek = d, !.fresh = n, !.kek = k] \in Rotationrecs
    BY DEF Rotationrecs
  <2>6. minted + 1 \in 0 .. MaxDeks
    BY <1>1
  <2>7. [x EXCEPT !.dek = keyRow.dek, !.fresh = minted + 1, !.kek = kekRun] \in Rotationrecs
    BY <1>2, <2>3, <2>6
  <2>4. j = [x EXCEPT !.dek = keyRow.dek, !.fresh = minted + 1, !.kek = kekRun]
    BY <2>2
  <2>5. j.fresh = minted + 1 /\ j.todo = {} /\ j.done = {} /\ j.kek # 0
    BY <1>2, <2>2 DEF Rotationrecs
  <2> QED
    BY <2>1, <2>7, <2>4, <2>5 DEF Deks
<1>4. Turn(o, "list", j)
  BY DEF RotateBegin
<1> HIDE DEF j
<1>5. Rotates(o, "list", j)
  BY <1>3, <1>4, Turning
<1> QED
  BY <1>1, <1>3, <1>5 DEF RotateBegin

LEMMA RotationLists ==
  ASSUME AttachmentsOK, TypeOK, Rotations, NEW o \in Rotators, RotateList(o)
  PROVE  /\ rpc[o] = "list"
         /\ \E j \in Rotationrecs :
              /\ Rotates(o, "next", j) /\ j.fresh = rjob[o].fresh /\ j.done = {}
              /\ j.kek = rjob[o].kek
              /\ \A e \in j.todo : /\ e \in Listed /\ e[2] = version[e[1]]
                                   /\ version[e[1]] # NoVersion
<1> DEFINE L == {e \in Listed : e[2] = version[e[1]] /\ e[2] # NoVersion}
           j == [rjob[o] EXCEPT !.todo = L]
<1>1. rpc[o] = "list" /\ Turn(o, "next", j)
  BY DEF RotateList
<1>2. PICK x \in Rotationrecs : x = rjob[o]
  BY <1>1, RotationHeld
<1>3. [x EXCEPT !.todo = L] \in Rotationrecs
  BY DEF Rotationrecs
<1>4. j \in Rotationrecs /\ j.fresh = rjob[o].fresh /\ j.done = rjob[o].done /\ j.todo = L
      /\ j.kek = rjob[o].kek
  BY <1>2, <1>3 DEF Rotationrecs
<1>5. rjob[o].done = {}
  BY <1>1, RotationHeld DEF RotationOf
<1> HIDE DEF j
<1>6. Rotates(o, "next", j)
  BY <1>1, <1>4, Turning
<1> QED
  BY <1>1, <1>4, <1>5, <1>6

\* What a rotation has in hand once it has read file f, listed with version v.
Reading(o, f, v, j) ==
    /\ j.fresh = rjob[o].fresh /\ j.done = rjob[o].done /\ j.kek = rjob[o].kek
    /\ j.todo = rjob[o].todo \ {<<f, v>>} /\ j.file = f
    /\ j.holds = Plain \/ (j.holds = Junk /\ v = 0 /\ disk[f] # Plain)

LEMMA RotationReads ==
  ASSUME AttachmentsOK, TypeOK, Rotations, NEW o \in Rotators, NEW f \in Files,
         NEW v \in Versions, RotateRead(o, f, v)
  PROVE  /\ rpc[o] = "next" /\ <<f, v>> \in rjob[o].todo
         /\ \E j \in Rotationrecs : Rotates(o, "write", j) /\ Reading(o, f, v, j)
<1> DEFINE held == Decrypted(o, f, v)
           j == [rjob[o] EXCEPT !.todo = @ \ {<<f, v>>}, !.file = f, !.holds = held]
<1>1. rpc[o] = "next" /\ <<f, v>> \in rjob[o].todo /\ held # NoFile /\ Turn(o, "write", j)
  BY DEF RotateRead
<1>2. held = Plain \/ (held = Junk /\ v = 0 /\ disk[f] # Plain)
  BY <1>1 DEF Decrypted, Versions, NoVersion
<1>3. held \in Content
  BY <1>2, Contents
<1> HIDE DEF held
<1>4. PICK x \in Rotationrecs : x = rjob[o]
  BY <1>1, RotationHeld
<1>5. [x EXCEPT !.todo = @ \ {<<f, v>>}, !.file = f, !.holds = held] \in Rotationrecs
  BY <1>3 DEF Rotationrecs
<1>6. /\ j \in Rotationrecs /\ j.fresh = rjob[o].fresh /\ j.done = rjob[o].done
      /\ j.todo = rjob[o].todo \ {<<f, v>>} /\ j.file = f /\ j.holds = held
      /\ j.kek = rjob[o].kek
  BY <1>4, <1>5 DEF Rotationrecs
<1> HIDE DEF j
<1>7. Rotates(o, "write", j)
  BY <1>1, <1>6, Turning
<1>8. Reading(o, f, v, j)
  BY <1>2, <1>6 DEF Reading
<1> QED
  BY <1>1, <1>6, <1>7, <1>8

LEMMA RotationWrites ==
  ASSUME AttachmentsOK, TypeOK, Rotations, NEW o \in Rotators, RotateWrite(o)
  PROVE  /\ rpc[o] = "write" /\ rjob[o].file \in Files
         /\ disk' \in [Files -> Content]
         /\ \A f \in Files : f # rjob[o].file => disk'[f] = disk[f]
         /\ rjob[o].holds = Plain => disk'[rjob[o].file] = UnderDek(rjob[o].fresh)
         /\ \E j \in Rotationrecs :
              /\ Rotates(o, "next", j) /\ j.fresh = rjob[o].fresh /\ j.kek = rjob[o].kek
              /\ j.todo = rjob[o].todo /\ j.done = rjob[o].done \cup {rjob[o].file}
<1> DEFINE file == rjob[o].file
           new == IF rjob[o].holds = Plain THEN UnderDek(rjob[o].fresh) ELSE Junk
           j == [rjob[o] EXCEPT !.done = @ \cup {file}, !.file = "none", !.holds = NoFile]
<1>1. rpc[o] = "write" /\ disk' = [disk EXCEPT ![file] = new] /\ Turn(o, "next", j)
  BY DEF RotateWrite
<1>2. file \in Files /\ rjob[o].fresh \in Deks
  BY <1>1, RotationHeld DEF RotationOf
<1>3. new \in Content
  BY <1>2, Contents
<1>4. disk \in [Files -> Content]
  BY DEF TypeOK
<1>5. /\ disk' \in [Files -> Content] /\ disk'[file] = new
      /\ \A f \in Files : f # file => disk'[f] = disk[f]
  BY <1>1, <1>2, <1>3, <1>4
<1>6. PICK x \in Rotationrecs : x = rjob[o]
  BY <1>1, RotationHeld
<1>7. [x EXCEPT !.done = @ \cup {file}, !.file = "none", !.holds = NoFile] \in Rotationrecs
  BY <1>2, Contents DEF Rotationrecs
<1>8. /\ j \in Rotationrecs /\ j.fresh = rjob[o].fresh /\ j.kek = rjob[o].kek
      /\ j.todo = rjob[o].todo /\ j.done = rjob[o].done \cup {file}
  BY <1>6, <1>7 DEF Rotationrecs
<1> HIDE DEF j
<1>9. Rotates(o, "next", j)
  BY <1>1, <1>8, Turning
<1> QED
  BY <1>1, <1>2, <1>5, <1>8, <1>9

LEMMA RotationCommits ==
  ASSUME AttachmentsOK, TypeOK, Jobs, Rotations, NEW o \in Rotators, RotateCommit(o)
  PROVE  /\ rpc[o] = "next" /\ rjob[o].todo = {} /\ Rotates(o, "idle", NoRotation)
         /\ keyRow' \in KeyRow /\ keyRow'.dek = rjob[o].fresh /\ keyRow'.dek \in Deks
         /\ keyRow'.kek = rjob[o].kek
         /\ version' \in [Files -> Versions]
         /\ \A f \in Files : version'[f] = IF version[f] # NoVersion THEN 2 ELSE NoVersion
         /\ LeftBehind(o) \subseteq Files /\ torn' = torn \cup LeftBehind(o)
         /\ late' \subseteq late \cup {"key"}
<1>1. /\ rpc[o] = "next" /\ rjob[o].todo = {} /\ Turn(o, "idle", NoRotation)
      /\ keyRow' = [dek |-> rjob[o].fresh, kek |-> rjob[o].kek]
      /\ version' = [f \in Files |-> IF f \in Rows THEN 2 ELSE version[f]]
      /\ torn' = torn \cup LeftBehind(o)
      /\ late' \subseteq late \cup {"key"}
  BY DEF RotateCommit
<1>2. Rotates(o, "idle", NoRotation)
  BY <1>1, Contents, Turning
<1>3. rjob[o].fresh \in Deks /\ rjob[o].kek \in Keks
  BY <1>1, RotationHeld DEF Rotationrecs
<1>4. [dek |-> rjob[o].fresh, kek |-> rjob[o].kek] \in KeyRow
  BY <1>3, Contents DEF KeyRow, Deks
<1>5. version \in [Files -> Versions]
  BY DEF TypeOK
<1>6. LeftBehind(o) \subseteq Files
  <2>1. ASSUME NEW r \in Requests, pc[r] \in {"write", "insert"}
        PROVE  job[r].file \in Files
    BY <2>1, JobHeld
  <2> QED
    BY <2>1 DEF LeftBehind, InFlight, Rows
<1> QED
  BY <1>1, <1>2, <1>3, <1>4, <1>5, <1>6 DEF Rows, Versions

LEMMA RotationFails ==
  ASSUME AttachmentsOK, TypeOK, Rotations, NEW o \in Rotators, RotateFails(o)
  PROVE  /\ rpc[o] # "idle" /\ Rotates(o, "idle", NoRotation)
         /\ torn' = torn \cup rjob[o].done /\ torn' \subseteq Files /\ failures' \in Nat
<1>1. rpc[o] # "idle" /\ Turn(o, "idle", NoRotation) /\ torn' = torn \cup rjob[o].done
      /\ failures' \in Nat
  BY DEF RotateFails, TypeOK
<1>2. Rotates(o, "idle", NoRotation)
  BY <1>1, Contents, Turning
<1>3. torn \subseteq Files /\ rjob[o].done \subseteq Files
  BY <1>1, RotationHeld DEF TypeOK, Rotationrecs
<1> QED
  BY <1>1, <1>2, <1>3

-----------------------------------------------------------------------------
(* TypeOK is preserved by every step.                                      *)

LEMMA UploadKeepsTypes ==
  ASSUME AttachmentsOK, Inv, NEW r \in Requests, Upload(r)
  PROVE  TypeOK'
<1> USE DEF server, kekVars, keys, files, ocrVars, requestVars, rotationVars, kekVars,
            bounds, history, Jobrecs, Uploads
<1>0. TypeOK /\ Shapes /\ Jobs
  BY DEF Inv
<1>1. ASSUME NEW f \in Files, UploadBegin(r, f)
      PROVE  TypeOK'
  BY <1>0, <1>1, Begins DEF TypeOK, UploadBegin
<1>2. CASE UploadMint(r)
  BY <1>0, <1>2, Mints DEF TypeOK, UploadMint
<1>3. CASE UploadReread(r)
  BY <1>0, <1>3, Rereads DEF TypeOK, UploadReread
<1>4. CASE UploadWrite(r)
  BY <1>0, <1>4, Writes DEF TypeOK, UploadWrite
<1>5. CASE UploadInsert(r)
  BY <1>0, <1>5, Inserts DEF TypeOK, UploadInsert
<1>6. CASE UploadOcr(r)
  BY <1>0, <1>6, Decides DEF TypeOK, UploadOcr
<1>7. CASE UploadFails(r)
  BY <1>0, <1>7, Fails DEF TypeOK, UploadFails
<1> QED
  BY <1>1, <1>2, <1>3, <1>4, <1>5, <1>6, <1>7 DEF Upload

LEMMA RotationKeepsTypes ==
  ASSUME AttachmentsOK, Inv, NEW o \in Rotators, Rotate(o)
  PROVE  TypeOK'
<1> USE DEF server, kekVars, keys, files, ocrVars, requestVars, rotationVars, kekVars,
            bounds, history, Rotationrecs, Rotates
<1>0. TypeOK /\ Jobs /\ Rotations
  BY DEF Inv
<1>1. CASE RotateBegin(o)
  BY <1>0, <1>1, RotationBegins DEF TypeOK, RotateBegin
<1>2. CASE RotateList(o)
  BY <1>0, <1>2, RotationLists DEF TypeOK, RotateList
<1>3. ASSUME NEW f \in Files, NEW v \in Versions, RotateRead(o, f, v)
      PROVE  TypeOK'
  BY <1>0, <1>3, RotationReads DEF TypeOK, RotateRead
<1>4. CASE RotateWrite(o)
  <2>1. disk' \in [Files -> Content] /\ \E j \in Rotationrecs : Rotates(o, "next", j)
    BY <1>0, <1>4, RotationWrites
  <2>2. UNCHANGED <<server, kekVars, keys, version, ocrVars, requestVars, bounds, history>>
    BY <1>4 DEF RotateWrite
  <2> QED
    BY <1>0, <2>1, <2>2 DEF TypeOK
<1>5. CASE RotateCommit(o)
  BY <1>0, <1>5, RotationCommits DEF TypeOK, RotateCommit
<1>6. CASE RotateFails(o)
  BY <1>0, <1>6, RotationFails DEF TypeOK, RotateFails
<1> QED
  BY <1>1, <1>2, <1>3, <1>4, <1>5, <1>6 DEF Rotate

LEMMA OcrKeepsTypes ==
  ASSUME AttachmentsOK, Inv, NEW f \in Files, DeleteAttachment(f) \/ Ocr(f)
  PROVE  TypeOK'
<1> USE DEF server, kekVars, keys, files, ocrVars, requestVars, rotationVars, bounds, history
<1>0. TypeOK
  BY DEF Inv
<1>1. CASE DeleteAttachment(f)
  <2>1. disk' \in [Files -> Content] /\ version' \in [Files -> Versions]
    BY <1>0, <1>1, Contents DEF TypeOK, DeleteAttachment, Versions
  <2> QED
    BY <1>0, <1>1, <2>1 DEF TypeOK, DeleteAttachment
<1>2. ASSUME NEW status \in OcrStates, Settle(f, status)
      PROVE  ocr' \in [Files -> OcrStates]
  BY <1>0, <1>2 DEF TypeOK, Settle
<1>3. CASE OcrEnds(f)
  <2>1. ocr' \in [Files -> OcrStates]
    BY <1>2, <1>3 DEF OcrEnds, OcrStates
  <2> QED
    BY <1>0, <1>3, <2>1 DEF TypeOK, OcrEnds
<1>4. CASE Age(f)
  BY <1>0, <1>4 DEF TypeOK, Age
<1>5. ASSUME NEW v \in Versions, SweepRow(f, v)
      PROVE  TypeOK'
  <2>1. ocr[f] \in OcrStates
    BY <1>0 DEF TypeOK
  <2>2. ocr' \in [Files -> OcrStates]
    BY <1>2, <1>5, <2>1 DEF SweepRow, OcrStates
  <2> QED
    BY <1>0, <1>5, <2>2 DEF TypeOK, SweepRow
<1> QED
  BY <1>1, <1>3, <1>4, <1>5 DEF Ocr

\* What the script has read, and what it writes back.
LEMMA ScriptHeld ==
  ASSUME AttachmentsOK, TypeOK
  PROVE  kjob \in Rewraprecs /\ kjob.row \in KeyRow /\ kjob.secrets \in [Secrets -> Keks]
         /\ kjob.kek \in Keks
BY DEF TypeOK, Rewraprecs

LEMMA RotateKekKeepsTypes ==
  ASSUME AttachmentsOK, Inv, RotateKek
  PROVE  TypeOK'
<1> USE DEF server, kekVars, keys, files, ocrVars, requestVars, rotationVars, bounds, history
<1>0. TypeOK /\ kjob \in Rewraprecs /\ 0 \in Keks /\ 1 \in Keks /\ NoRewrap \in Rewraprecs
      /\ MaxKeks \in Nat
  BY ScriptHeld, Contents DEF Inv, AttachmentsOK, Keks
<1>1. CASE Configure
  BY <1>0, <1>1 DEF TypeOK, Configure
<1>2. CASE ClearKek
  BY <1>0, <1>2 DEF TypeOK, ClearKek
<1>3. ASSUME NEW k \in Keks, PutKek(k)
      PROVE  TypeOK'
  BY <1>0, <1>3 DEF TypeOK, PutKek, Shut
<1>4. CASE KekList
  <2>1. keks + 1 \in Keks
    BY <1>0, <1>4 DEF TypeOK, KekList, Keks
  <2>2. kjob' \in Rewraprecs
    BY <1>0, <1>4, <2>1 DEF TypeOK, KekList, Rewraprecs
  <2> QED
    BY <1>0, <1>4, <2>1, <2>2 DEF TypeOK, KekList, Rewraprecs
<1>5. CASE KekCommit
  <2>1. [dek |-> kjob.row.dek, kek |-> kjob.kek] \in KeyRow
    BY <1>0, ScriptHeld DEF KeyRow
  <2>2. keyRow' \in KeyRow
    BY <1>0, <1>5, <2>1 DEF TypeOK, KekCommit
  <2>3. secrets' \in [Secrets -> Keks]
    BY <1>0, <1>5, ScriptHeld DEF TypeOK, KekCommit
  <2>4. torn' \subseteq Files /\ late' \subseteq Secrets \cup {"key"}
    BY <1>0, <1>5 DEF TypeOK, KekCommit
  <2> QED
    BY <1>0, <1>5, <2>2, <2>3, <2>4 DEF TypeOK, KekCommit
<1>6. CASE KekAbort
  BY <1>0, <1>6 DEF TypeOK, KekAbort, Rewraprecs
<1>7. CASE KekEnv
  BY <1>0, <1>7, ScriptHeld DEF TypeOK, KekEnv, Rewraprecs
<1> QED
  BY <1>1, <1>2, <1>3, <1>4, <1>5, <1>6, <1>7 DEF RotateKek

LEMMA ServerKeepsTypes ==
  ASSUME AttachmentsOK, Inv, Crash \/ Boot \/ \E s \in Secrets : LinkSecret(s)
  PROVE  TypeOK'
<1> USE DEF server, kekVars, keys, files, ocrVars, requestVars, rotationVars, bounds, history
<1>0. TypeOK /\ NoJob \in Jobrecs /\ NoRotation \in Rotationrecs
  BY Contents DEF Inv
<1>1. CASE Crash
  <2>1. torn' \subseteq Files /\ failures' \in Nat
    BY <1>0, <1>1 DEF TypeOK, Crash
  <2>2. job' \in [Requests -> Jobrecs] /\ rjob' \in [Rotators -> Rotationrecs]
        /\ pc' \in [Requests -> UploadStages]
        /\ \A r \in Requests : pc'[r] = "idle" <=> job'[r] = NoJob
    BY <1>0, <1>1 DEF Crash, UploadStages
  <2> QED
    BY <1>0, <1>1, <2>1, <2>2 DEF TypeOK, Crash, Jobrecs, Rotationrecs
<1>2. CASE Boot
  <2>1. sweep' \subseteq Listed /\ kekRun' \in Keks
    BY <1>0, <1>2 DEF TypeOK, Boot, Unanswered, Listed, Effective
  <2> QED
    BY <1>0, <1>2, <2>1 DEF TypeOK, Boot, Shut
<1>3. ASSUME NEW s \in Secrets, LinkSecret(s)
      PROVE  TypeOK'
  BY <1>0, <1>3 DEF TypeOK, LinkSecret
<1> QED
  BY <1>1, <1>2, <1>3

LEMMA TypeStep ==
  ASSUME AttachmentsOK, Inv, [Next]_vars
  PROVE  TypeOK'
<1>1. CASE UNCHANGED vars
  BY <1>1 DEF Inv, TypeOK, vars, server, kekVars, keys, files, ocrVars, requestVars,
              rotationVars, bounds, history
<1> QED
  BY <1>1, UploadKeepsTypes, RotationKeepsTypes, OcrKeepsTypes, RotateKekKeepsTypes,
     ServerKeepsTypes DEF Next

-----------------------------------------------------------------------------
(* There is a KEK wherever one is in use, and a server that is down has     *)
(* nothing in hand.                                                         *)

LEMMA ShapesStep ==
  ASSUME AttachmentsOK, Inv, [Next]_vars
  PROVE  Shapes'
<1> USE DEF server, kekVars, keys, files, ocrVars, requestVars, rotationVars, bounds, history
<1>0. TypeOK /\ Shapes /\ Jobs /\ Rotations /\ kjob \in Rewraprecs
      /\ NoKey.dek = 0 /\ NoKey.kek = 0 /\ \A d \in Deks : d # 0
  BY ScriptHeld, Contents DEF Inv, Deks
<1>1. ASSUME NEW r \in Requests, Upload(r)
      PROVE  Shapes'
  <2>1. ASSUME NEW f \in Files, UploadBegin(r, f)
        PROVE  Shapes'
    <3>1. PICK stage \in {"mint", "write"}, key \in DekKeys \cup {Plain}, k \in Keks :
            Uploads(r, stage, Wrapped(f, key, k)) /\ up /\ (stage = "mint" => k # 0)
      BY <1>0, <2>1, Begins
    <3>2. \A q \in Requests : pc'[q] = "mint" => job'[q].kek # 0
      BY <1>0, <3>1 DEF Shapes, Uploads, Wrapped
    <3> QED
      BY <1>0, <2>1, <3>1, <3>2 DEF Shapes, UploadBegin
  <2>2. CASE UploadMint(r)
    BY <1>0, <2>2, Mints DEF Shapes, UploadMint, Uploads
  <2>3. CASE UploadReread(r)
    BY <1>0, <2>3, Rereads DEF Shapes, UploadReread, Uploads
  <2>4. CASE UploadWrite(r)
    <3>1. pc[r] = "write" /\ Uploads(r, "insert", job[r])
      BY <1>0, <2>4, Writes
    <3> QED
      BY <1>0, <2>4, <3>1 DEF Shapes, UploadWrite, Uploads
  <2>5. CASE UploadInsert(r)
    <3>1. pc[r] = "insert" /\ Uploads(r, "ocr", job[r])
      BY <1>0, <2>5, Inserts
    <3> QED
      BY <1>0, <2>5, <3>1 DEF Shapes, UploadInsert, Uploads
  <2>6. CASE UploadOcr(r)
    BY <1>0, <2>6, Decides DEF Shapes, UploadOcr, Uploads
  <2>7. CASE UploadFails(r)
    BY <1>0, <2>7, Fails DEF Shapes, UploadFails, Uploads
  <2> QED
    BY <1>1, <2>1, <2>2, <2>3, <2>4, <2>5, <2>6, <2>7 DEF Upload
<1>2. ASSUME NEW o \in Rotators, Rotate(o)
      PROVE  Shapes'
  <2>1. CASE RotateBegin(o)
    BY <1>0, <2>1, RotationBegins DEF Shapes, RotateBegin, Rotates
  <2>2. CASE RotateList(o)
    BY <1>0, <2>2, RotationLists DEF Shapes, RotateList, Rotates
  <2>3. ASSUME NEW f \in Files, NEW v \in Versions, RotateRead(o, f, v)
        PROVE  Shapes'
    <3>1. PICK j \in Rotationrecs : Rotates(o, "write", j) /\ Reading(o, f, v, j)
      BY <1>0, <2>3, RotationReads
    <3>2. rpc[o] # "idle" /\ j.kek = rjob[o].kek
      BY <2>3, <3>1 DEF RotateRead, Reading
    <3>3. \A q \in Rotators : rpc'[q] # "idle" => rpc[q] # "idle" /\ rjob'[q].kek = rjob[q].kek
      BY <3>1, <3>2 DEF Rotates
    <3> QED
      BY <1>0, <2>3, <3>2, <3>3 DEF Shapes, RotateRead
  <2>4. CASE RotateWrite(o)
    <3>1. PICK j \in Rotationrecs : Rotates(o, "next", j) /\ j.kek = rjob[o].kek
      BY <1>0, <2>4, RotationWrites
    <3>2. rpc[o] # "idle"
      BY <2>4 DEF RotateWrite
    <3>3. \A q \in Rotators : rpc'[q] # "idle" => rpc[q] # "idle" /\ rjob'[q].kek = rjob[q].kek
      BY <3>1, <3>2 DEF Rotates
    <3> QED
      BY <1>0, <2>4, <3>2, <3>3 DEF Shapes, RotateWrite
  <2>5. CASE RotateCommit(o)
    BY <1>0, <2>5, RotationCommits DEF Shapes, RotateCommit, Rotates
  <2>6. CASE RotateFails(o)
    BY <1>0, <2>6, RotationFails DEF Shapes, RotateFails, Rotates
  <2> QED
    BY <1>2, <2>1, <2>2, <2>3, <2>4, <2>5, <2>6 DEF Rotate
<1>3. ASSUME NEW f \in Files, DeleteAttachment(f) \/ Ocr(f)
      PROVE  Shapes'
  BY <1>0, <1>3 DEF Shapes, DeleteAttachment, Ocr, OcrEnds, Age, SweepRow
<1>4. CASE RotateKek
  <2>1. CASE Configure \/ ClearKek \/ \E k \in Keks : PutKek(k)
    BY <1>0, <2>1 DEF Shapes, Configure, ClearKek, PutKek
  <2>2. CASE KekList
    <3>1. keks \in Nat /\ keks + 1 # 0 /\ keks + 1 \in Keks
      BY <1>0, <2>2, Contents DEF TypeOK, Keks, KekList
    <3>2. kjob'.row = keyRow /\ kjob'.kek = keks + 1
      BY <2>2 DEF KekList
    <3> QED
      BY <1>0, <2>2, <3>1, <3>2 DEF Shapes, KekList
  <2>3. CASE KekCommit
    <3>1. \/ kjob.row = NoKey /\ keyRow' = keyRow
          \/ /\ kjob.row # NoKey
             /\ keyRow'.dek = kjob.row.dek /\ keyRow'.kek = kjob.kek
      BY <2>3 DEF KekCommit
    <3> QED
      BY <1>0, <2>3, <3>1 DEF Shapes, KekCommit
  <2>4. CASE KekAbort
    BY <1>0, <2>4 DEF Shapes, KekAbort, NoRewrap
  <2>5. CASE KekEnv
    BY <1>0, <2>5 DEF Shapes, KekEnv, NoRewrap
  <2> QED
    BY <1>4, <2>1, <2>2, <2>3, <2>4, <2>5 DEF RotateKek
<1>5. ASSUME NEW s \in Secrets, LinkSecret(s)
      PROVE  Shapes'
  BY <1>0, <1>5 DEF Shapes, LinkSecret
<1>6. CASE Crash
  BY <1>0, <1>6 DEF Shapes, Crash
<1>7. CASE Boot
  BY <1>0, <1>7 DEF Shapes, Boot
<1>8. CASE UNCHANGED vars
  BY <1>0, <1>8 DEF Shapes, vars
<1> QED
  BY <1>1, <1>2, <1>3, <1>4, <1>5, <1>6, <1>7, <1>8 DEF Next

-----------------------------------------------------------------------------
(* Rows are known to the OCR, and no ocr_status becomes unknown again.      *)

LEMMA StillKnown ==
  ASSUME AttachmentsOK, Inv, [Next]_vars, NEW f \in Files
  PROVE  (version[f] # NoVersion => Known(f)) /\ (Known(f) => Known(f)')
<1> USE DEF server, kekVars, keys, files, ocrVars, requestVars, rotationVars, bounds, history
<1>0. TypeOK /\ Jobs /\ RowsKnown /\ ocr \in [Files -> OcrStates]
  BY DEF Inv, TypeOK
<1>1. ASSUME NEW r \in Requests, Upload(r)
      PROVE  Known(f) => Known(f)'
  <2>1. CASE UploadInsert(r)
    BY <1>0, <2>1, Inserts DEF Known
  <2>2. CASE UploadOcr(r)
    BY <1>0, <2>2, Decides DEF Known
  <2> QED
    BY <1>1, <2>1, <2>2 DEF Upload, UploadBegin, UploadMint, UploadReread, UploadWrite,
                            UploadFails, Known
<1>2. ASSUME NEW o \in Rotators, Rotate(o)
      PROVE  Known(f) => Known(f)'
  BY <1>2 DEF Rotate, RotateBegin, RotateList, RotateRead, RotateWrite, RotateCommit,
              RotateFails, Known
<1>3. ASSUME NEW g \in Files, DeleteAttachment(g) \/ Ocr(g)
      PROVE  Known(f) => Known(f)'
  <2>1. CASE OcrEnds(g)
    BY <1>0, <2>1 DEF OcrEnds, Settle, Known
  <2>2. ASSUME NEW v \in Versions, SweepRow(g, v)
        PROVE  Known(f) => Known(f)'
    BY <1>0, <2>2 DEF SweepRow, Settle, Known
  <2> QED
    BY <1>3, <2>1, <2>2 DEF DeleteAttachment, Ocr, Age, Known
<1>4. CASE RotateKek
  BY <1>0, <1>4 DEF RotateKek, Configure, ClearKek, PutKek, KekList, KekCommit, KekAbort,
                    KekEnv, Known, RowsKnown
<1>5. CASE Crash \/ Boot \/ \E s \in Secrets : LinkSecret(s)
  BY <1>0, <1>5 DEF Crash, Boot, LinkSecret, Known, RowsKnown
<1>6. CASE UNCHANGED vars
  BY <1>0, <1>6 DEF vars, Known, RowsKnown
<1> QED
  BY <1>0, <1>1, <1>2, <1>3, <1>4, <1>5, <1>6 DEF Next, RowsKnown

\* What a step may do to a row: relabel it, delete it, or be its insertion.
LEMMA RowMoves ==
  ASSUME AttachmentsOK, Inv, [Next]_vars, NEW f \in Files
  PROVE  \/ version'[f] = version[f]
         \/ version'[f] = NoVersion
         \/ version[f] # NoVersion /\ \E o \in Rotators : RotateCommit(o)
         \/ \E r \in Requests : UploadInsert(r) /\ f = job[r].file
<1> USE DEF server, kekVars, keys, files, ocrVars, requestVars, rotationVars, bounds, history
<1>0. TypeOK /\ Jobs /\ Rotations
  BY DEF Inv
<1>1. ASSUME NEW r \in Requests, Upload(r), ~UploadInsert(r)
      PROVE  version' = version
  BY <1>1 DEF Upload, UploadBegin, UploadMint, UploadReread, UploadWrite, UploadOcr,
              UploadFails
<1>2. ASSUME NEW r \in Requests, UploadInsert(r), f # job[r].file
      PROVE  version'[f] = version[f]
  BY <1>0, <1>2, Inserts
<1>3. ASSUME NEW o \in Rotators, Rotate(o), ~RotateCommit(o)
      PROVE  version' = version
  BY <1>3 DEF Rotate, RotateBegin, RotateList, RotateRead, RotateWrite, RotateFails
<1>4. ASSUME NEW o \in Rotators, RotateCommit(o), version[f] = NoVersion
      PROVE  version'[f] = version[f]
  BY <1>0, <1>4, RotationCommits
<1>5. ASSUME NEW g \in Files, DeleteAttachment(g)
      PROVE  version'[f] = version[f] \/ version'[f] = NoVersion
  BY <1>0, <1>5 DEF TypeOK, DeleteAttachment
<1>6. ASSUME NEW g \in Files, Ocr(g)
      PROVE  version' = version
  BY <1>6 DEF Ocr, OcrEnds, Age, SweepRow
<1>7. CASE RotateKek \/ Crash \/ Boot \/ \E s \in Secrets : LinkSecret(s)
  BY <1>7 DEF RotateKek, Configure, ClearKek, PutKek, KekList, KekCommit, KekAbort, KekEnv,
              Crash, Boot, LinkSecret
<1>8. CASE UNCHANGED vars
  BY <1>8 DEF vars
<1> QED
  BY <1>1, <1>2, <1>3, <1>4, <1>5, <1>6, <1>7, <1>8 DEF Next

LEMMA RowsStep ==
  ASSUME AttachmentsOK, Inv, [Next]_vars
  PROVE  RowsKnown'
<1> SUFFICES ASSUME NEW f \in Files, version'[f] # NoVersion
             PROVE  Known(f)'
  BY DEF RowsKnown
<1>0. TypeOK /\ Jobs
  BY DEF Inv
<1>1. CASE version[f] # NoVersion
  BY <1>1, StillKnown
<1>2. CASE version[f] = NoVersion
  <2>1. PICK r \in Requests : UploadInsert(r) /\ f = job[r].file
    BY <1>2, RowMoves
  <2> QED
    BY <1>0, <2>1, Inserts DEF Known
<1> QED
  BY <1>1, <1>2

\* Only the upload of a file makes it known, and only the upload of a file, its
\* deletion or a rotation that knows it writes it.
LEMMA BecomesKnown ==
  ASSUME AttachmentsOK, Inv, [Next]_vars, NEW f \in Files, ~Known(f), Known(f)'
  PROVE  \E r \in Requests : UploadInsert(r) /\ f = job[r].file
<1> USE DEF server, kekVars, keys, files, ocrVars, requestVars, rotationVars, bounds, history
<1>0. TypeOK /\ Jobs /\ RowsKnown /\ ocr \in [Files -> OcrStates] /\ version[f] = NoVersion
  BY DEF Inv, TypeOK, RowsKnown
<1>1. ASSUME NEW r \in Requests, Upload(r)
      PROVE  UploadInsert(r) /\ f = job[r].file
  <2>1. CASE UploadInsert(r)
    BY <1>0, <2>1, Inserts DEF Known
  <2>2. CASE UploadOcr(r)
    BY <1>0, <2>2, Decides DEF Known
  <2> QED
    BY <1>1, <2>1, <2>2 DEF Upload, UploadBegin, UploadMint, UploadReread, UploadWrite,
                            UploadFails, Known
<1>2. ASSUME NEW o \in Rotators, Rotate(o)
      PROVE  FALSE
  BY <1>2 DEF Rotate, RotateBegin, RotateList, RotateRead, RotateWrite, RotateCommit,
              RotateFails, Known
<1>3. ASSUME NEW g \in Files, DeleteAttachment(g) \/ Ocr(g)
      PROVE  FALSE
  <2>1. CASE OcrEnds(g)
    BY <1>0, <2>1 DEF OcrEnds, Settle, Known
  <2>2. ASSUME NEW v \in Versions, SweepRow(g, v)
        PROVE  FALSE
    BY <1>0, <2>2 DEF SweepRow, Settle, Known
  <2> QED
    BY <1>3, <2>1, <2>2 DEF DeleteAttachment, Ocr, Age, Known
<1>4. CASE RotateKek
  BY <1>4 DEF RotateKek, Configure, ClearKek, PutKek, KekList, KekCommit, KekAbort, KekEnv,
              Known
<1>5. CASE Crash \/ Boot \/ \E s \in Secrets : LinkSecret(s)
  BY <1>5 DEF Crash, Boot, LinkSecret, Known
<1>6. CASE UNCHANGED vars
  BY <1>6 DEF vars, Known
<1> QED
  BY <1>1, <1>2, <1>3, <1>4, <1>5, <1>6 DEF Next

LEMMA FileMoves ==
  ASSUME AttachmentsOK, Inv, [Next]_vars, NEW f \in Files
  PROVE  \/ disk'[f] = disk[f]
         \/ \E r \in Requests : UploadWrite(r) /\ f = job[r].file
         \/ version[f] # NoVersion /\ version'[f] = NoVersion
         \/ \E o \in Rotators : RotateWrite(o) /\ f = rjob[o].file
<1> USE DEF server, kekVars, keys, files, ocrVars, requestVars, rotationVars, bounds, history
<1>0. TypeOK /\ Jobs /\ Rotations
  BY DEF Inv
<1>1. ASSUME NEW r \in Requests, Upload(r), ~UploadWrite(r)
      PROVE  disk' = disk
  BY <1>1 DEF Upload, UploadBegin, UploadMint, UploadReread, UploadInsert, UploadOcr,
              UploadFails
<1>2. ASSUME NEW r \in Requests, UploadWrite(r), f # job[r].file
      PROVE  disk'[f] = disk[f]
  BY <1>0, <1>2, Writes
<1>3. ASSUME NEW o \in Rotators, Rotate(o), ~RotateWrite(o)
      PROVE  disk' = disk
  BY <1>3 DEF Rotate, RotateBegin, RotateList, RotateRead, RotateCommit, RotateFails
<1>4. ASSUME NEW o \in Rotators, RotateWrite(o), f # rjob[o].file
      PROVE  disk'[f] = disk[f]
  BY <1>0, <1>4, RotationWrites
<1>5. ASSUME NEW g \in Files, DeleteAttachment(g)
      PROVE  disk'[f] = disk[f] \/ (version[f] # NoVersion /\ version'[f] = NoVersion)
  <2>1. CASE g = f
    BY <1>0, <1>5, <2>1 DEF TypeOK, DeleteAttachment
  <2>2. CASE g # f
    BY <1>0, <1>5, <2>2 DEF TypeOK, DeleteAttachment
  <2> QED
    BY <2>1, <2>2
<1>6. ASSUME NEW g \in Files, Ocr(g)
      PROVE  disk' = disk
  BY <1>6 DEF Ocr, OcrEnds, Age, SweepRow
<1>7. CASE RotateKek \/ Crash \/ Boot \/ \E s \in Secrets : LinkSecret(s)
  BY <1>7 DEF RotateKek, Configure, ClearKek, PutKek, KekList, KekCommit, KekAbort, KekEnv,
              Crash, Boot, LinkSecret
<1>8. CASE UNCHANGED vars
  BY <1>8 DEF vars
<1> QED
  BY <1>1, <1>2, <1>3, <1>4, <1>5, <1>6, <1>7, <1>8 DEF Next

\* A request's place changes by its own steps and by a crash.
LEMMA JobMoves ==
  ASSUME AttachmentsOK, Inv, [Next]_vars, NEW r \in Requests
  PROVE  (pc'[r] = pc[r] /\ job'[r] = job[r]) \/ Upload(r) \/ pc'[r] = "idle"
<1> USE DEF server, kekVars, keys, files, ocrVars, requestVars, rotationVars, bounds, history
<1>0. TypeOK /\ Shapes /\ Jobs
  BY DEF Inv
<1>1. ASSUME NEW q \in Requests, Upload(q), q # r
      PROVE  pc'[r] = pc[r] /\ job'[r] = job[r]
  <2>1. \E stage \in UploadStages, j \in Jobrecs : Uploads(q, stage, j)
    <3>1. ASSUME NEW f \in Files, UploadBegin(q, f)
          PROVE  \E stage \in UploadStages, j \in Jobrecs : Uploads(q, stage, j)
      <4>1. PICK stage \in {"mint", "write"}, key \in DekKeys \cup {Plain}, k \in Keks :
                Uploads(q, stage, Wrapped(f, key, k))
        BY <1>0, <3>1, Begins
      <4>2. Wrapped(f, key, k) \in Jobrecs
        BY Contents DEF Wrapped, Jobrecs
      <4> QED
        BY <4>1, <4>2 DEF UploadStages
    <3>2. CASE UploadMint(q)
      <4>1. job[q].file \in Files /\ job[q].key \in Content
        BY <1>0, <3>2, JobHeld DEF UploadMint
      <4>2. Hands(job[q].file, job[q].key) \in Jobrecs
        BY <4>1, Contents DEF Hands, Wrapped, Jobrecs
      <4> QED
        BY <1>0, <3>2, <4>2, Mints DEF UploadStages
    <3>3. CASE UploadReread(q)
      <4>1. job[q].file \in Files
        BY <1>0, <3>3, JobHeld DEF UploadReread
      <4>2. UnderDek(keyRow.dek) \in DekKeys
              => Hands(job[q].file, UnderDek(keyRow.dek)) \in Jobrecs
        BY <4>1, Contents DEF Hands, Wrapped, Jobrecs
      <4> QED
        BY <1>0, <3>3, <4>2, Rereads, Contents DEF UploadStages
    <3>4. CASE UploadWrite(q)
      BY <1>0, <3>4, Writes DEF TypeOK, UploadStages, Jobrecs
    <3>5. CASE UploadInsert(q)
      BY <1>0, <3>5, Inserts DEF TypeOK, UploadStages, Jobrecs
    <3>6. CASE UploadOcr(q)
      BY <1>0, <3>6, Decides, Contents DEF UploadStages
    <3>7. CASE UploadFails(q)
      BY <1>0, <3>7, Fails, Contents DEF UploadStages
    <3> QED
      BY <1>1, <3>1, <3>2, <3>3, <3>4, <3>5, <3>6, <3>7 DEF Upload
  <2> QED
    BY <1>1, <2>1 DEF Uploads
<1>2. ASSUME NEW o \in Rotators, Rotate(o)
      PROVE  pc' = pc /\ job' = job
  BY <1>2 DEF Rotate, RotateBegin, RotateList, RotateRead, RotateWrite, RotateCommit,
              RotateFails
<1>3. ASSUME NEW g \in Files, DeleteAttachment(g) \/ Ocr(g)
      PROVE  pc' = pc /\ job' = job
  BY <1>3 DEF DeleteAttachment, Ocr, OcrEnds, Age, SweepRow
<1>4. CASE RotateKek \/ Boot \/ \E s \in Secrets : LinkSecret(s)
  BY <1>4 DEF RotateKek, Configure, ClearKek, PutKek, KekList, KekCommit, KekAbort, KekEnv,
              Boot, LinkSecret
<1>5. CASE Crash
  BY <1>5 DEF Crash
<1>6. CASE UNCHANGED vars
  BY <1>6 DEF vars
<1> QED
  BY <1>1, <1>2, <1>3, <1>4, <1>5, <1>6 DEF Next

\* An upload keeps its file; only the one that begins takes an unused one.
LEMMA FileKept ==
  ASSUME AttachmentsOK, Inv, [Next]_vars, NEW r \in Requests, pc'[r] # "idle"
  PROVE  \/ pc[r] # "idle" /\ job'[r].file = job[r].file
         \/ /\ pc[r] = "idle"
            /\ \E f \in Files : UploadBegin(r, f) /\ job'[r].file = f
<1>0. TypeOK /\ Shapes /\ Jobs
  BY DEF Inv
<1>1. ASSUME NEW f \in Files, UploadBegin(r, f)
      PROVE  pc[r] = "idle" /\ job'[r].file = f
  <2>1. PICK stage \in {"mint", "write"}, key \in DekKeys \cup {Plain}, k \in Keks :
            Uploads(r, stage, Wrapped(f, key, k)) /\ pc[r] = "idle"
    BY <1>0, <1>1, Begins
  <2> QED
    BY <2>1 DEF Uploads, Wrapped
<1>2. CASE UploadMint(r)
  BY <1>0, <1>2, MintsOn
<1>3. CASE UploadReread(r)
  <2>1. pc[r] = "reread" /\ \/ Uploads(r, "idle", NoJob)
                            \/ Uploads(r, "write", Hands(job[r].file, UnderDek(keyRow.dek)))
    BY <1>0, <1>3, Rereads
  <2> QED
    BY <2>1 DEF Uploads, Hands, Wrapped
<1>4. CASE UploadWrite(r)
  BY <1>0, <1>4, Writes DEF Uploads
<1>5. CASE UploadInsert(r)
  BY <1>0, <1>5, Inserts DEF Uploads
<1>6. CASE UploadOcr(r) \/ UploadFails(r)
  BY <1>0, <1>6, Decides, Fails DEF Uploads
<1> QED
  BY <1>1, <1>2, <1>3, <1>4, <1>5, <1>6, JobMoves DEF Upload

\* While an upload has not inserted its row, nobody else touches its file.
LEMMA FileItsOwn ==
  ASSUME AttachmentsOK, Inv, [Next]_vars, NEW r \in Requests,
         pc[r] # "idle", pc[r] # "ocr", ~UploadInsert(r)
  PROVE  /\ ocr'[job[r].file] = "none" /\ version'[job[r].file] = NoVersion
         /\ UploadWrite(r) \/ disk'[job[r].file] = disk[job[r].file]
<1>1. PICK f \in Files : f = job[r].file
  BY DEF Inv, Jobs, JobOf
<1>2. /\ JobOf(r) /\ Jobs /\ Rotations /\ TypeOK
      /\ version[f] = NoVersion /\ ~Known(f)
  BY <1>1 DEF Inv, Jobs, JobOf
<1>3. ASSUME NEW q \in Requests, UploadInsert(q) \/ UploadWrite(q), f = job[q].file
      PROVE  q = r
  <2>1. pc[q] # "idle"
    BY <1>3 DEF UploadInsert, UploadWrite
  <2> QED
    BY <1>2, <1>3, <1>1, <2>1 DEF Jobs
<1>4. ~Known(f)'
  <2>1. SUFFICES ASSUME Known(f)' PROVE FALSE
    OBVIOUS
  <2>2. PICK q \in Requests : UploadInsert(q) /\ f = job[q].file
    BY <1>2, <2>1, BecomesKnown
  <2> QED
    BY <1>3, <2>2
<1>5. version'[f] = NoVersion
  BY <1>2, <1>3, <1>1, RowMoves
<1>6. UploadWrite(r) \/ disk'[f] = disk[f]
  <2>1. ASSUME NEW o \in Rotators, RotateWrite(o)
        PROVE  Known(rjob[o].file)
    BY <1>2, <2>1, RotationHeld DEF RotateWrite, RotationOf
  <2> QED
    BY <1>2, <1>3, <2>1, FileMoves
<1> QED
  BY <1>4, <1>5, <1>6, <1>1 DEF Known

LEMMA JobsStep ==
  ASSUME AttachmentsOK, Inv, [Next]_vars
  PROVE  Jobs'
<1>0. TypeOK /\ Shapes /\ Jobs /\ RowsKnown
  BY DEF Inv
<1>1. ASSUME NEW r \in Requests, pc'[r] # "idle"
      PROVE  JobOf(r)'
  <2>1. CASE pc'[r] = pc[r] /\ job'[r] = job[r]
    <3>1. JobOf(r)
      BY <1>0, <1>1, <2>1 DEF Jobs
    <3>2. CASE pc[r] = "ocr"
      <4>1. ocr'[job[r].file] # "none"
        BY <3>1, <3>2, StillKnown DEF JobOf, Known
      <4> QED
        BY <2>1, <3>1, <3>2, <4>1 DEF JobOf, Known
    <3>3. CASE pc[r] # "ocr"
      <4>1. ~UploadInsert(r)
        BY <1>0, <2>1, <3>3, Inserts DEF Uploads
      <4>2. ~UploadWrite(r)
        BY <1>0, <2>1, <3>3, Writes DEF Uploads
      <4>3. /\ ocr'[job[r].file] = "none" /\ version'[job[r].file] = NoVersion
            /\ disk'[job[r].file] = disk[job[r].file]
        BY <1>1, <2>1, <3>3, <4>1, <4>2, FileItsOwn
      <4> QED
        BY <2>1, <3>1, <3>3, <4>3 DEF JobOf, Known
    <3> QED
      BY <3>2, <3>3
  <2>2. ASSUME NEW f \in Files, UploadBegin(r, f)
        PROVE  JobOf(r)'
    <3>1. version'[f] = NoVersion /\ ocr'[f] = "none"
      BY <2>2 DEF UploadBegin, Unused, files, ocrVars
    <3>2. PICK stage \in {"mint", "write"}, key \in DekKeys \cup {Plain}, k \in Keks :
             /\ Uploads(r, stage, Wrapped(f, key, k))
             /\ stage = "mint" => key \in DekKeys
             /\ stage # "mint" => k = 0
      BY <1>0, <2>2, Begins
    <3>3. /\ pc'[r] = stage /\ job'[r].file = f /\ job'[r].key = key
          /\ stage # "mint" => job'[r].kek = 0
      BY <3>2 DEF Uploads, Wrapped
    <3> QED
      BY <3>1, <3>2, <3>3 DEF JobOf, Known, DekKeys
  <2>3. ASSUME pc[r] # "idle", pc[r] # "ocr", ~UploadInsert(r), ~UploadWrite(r)
        PROVE  ocr'[job[r].file] = "none" /\ version'[job[r].file] = NoVersion
    BY <2>3, FileItsOwn
  <2>4. CASE UploadMint(r)
    <3>1. /\ pc[r] = "mint" /\ job[r].key \in DekKeys /\ pc'[r] \in {"write", "reread"}
          /\ job'[r].file = job[r].file /\ job'[r].key = job[r].key /\ job'[r].kek = 0
      BY <1>0, <2>4, MintsOn
    <3>2. job[r].file \in Files /\ ocr'[job[r].file] = "none" /\ version'[job[r].file] = NoVersion
      <4>1. ~UploadInsert(r) /\ ~UploadWrite(r)
        BY <3>1 DEF UploadInsert, UploadWrite
      <4> QED
        BY <1>0, <2>3, <3>1, <4>1, JobHeld
    <3> QED
      BY <3>1, <3>2 DEF JobOf, Known, DekKeys
  <2>5. CASE UploadReread(r)
    <3>0. /\ pc[r] = "reread" /\ UnderDek(keyRow.dek) \in DekKeys
          /\ Uploads(r, "write", Hands(job[r].file, UnderDek(keyRow.dek)))
      BY <1>0, <1>1, <2>5, Rereads DEF Uploads
    <3>1. /\ pc[r] = "reread" /\ pc'[r] = "write"
          /\ job'[r].file = job[r].file /\ job'[r].key \in DekKeys /\ job'[r].kek = 0
      BY <3>0 DEF Uploads, Hands, Wrapped
    <3>2. job[r].file \in Files /\ ocr'[job[r].file] = "none" /\ version'[job[r].file] = NoVersion
      <4>1. ~UploadInsert(r) /\ ~UploadWrite(r)
        BY <3>1 DEF UploadInsert, UploadWrite
      <4> QED
        BY <1>0, <2>3, <3>1, <4>1, JobHeld
    <3> QED
      BY <3>1, <3>2 DEF JobOf, Known, DekKeys
  <2>6. CASE UploadWrite(r)
    <3>1. /\ pc[r] = "write" /\ pc'[r] = "insert" /\ job'[r] = job[r]
          /\ disk'[job[r].file] = job[r].key /\ job[r].file \in Files
          /\ job[r].key \in DekKeys \cup {Plain} /\ job[r].kek = 0
      <4>1. pc[r] = "write" /\ Uploads(r, "insert", job[r])
            /\ \A f \in Files : disk'[f] = IF f = job[r].file THEN job[r].key ELSE disk[f]
        BY <1>0, <2>6, Writes
      <4>2. /\ job[r].file \in Files /\ job[r].key \in DekKeys \cup {Plain}
            /\ job[r] = Hands(job[r].file, job[r].key)
        BY <1>0, <4>1, JobHeld
      <4>3. job[r].kek = 0
        BY <4>2 DEF Hands, Wrapped
      <4> QED
        BY <4>1, <4>2, <4>3 DEF Uploads
    <3>2. ocr'[job[r].file] = "none" /\ version'[job[r].file] = NoVersion
      BY <3>1, FileItsOwn DEF UploadInsert
    <3> QED
      BY <3>1, <3>2 DEF JobOf, Known, DekKeys
  <2>7. CASE UploadInsert(r)
    <3>1. /\ pc[r] = "insert" /\ pc'[r] = "ocr" /\ job'[r] = job[r]
          /\ job[r].file \in Files /\ ocr'[job[r].file] = "pending"
          /\ job[r].key \in DekKeys \cup {Plain} /\ job[r].kek = 0
      <4>1. pc[r] = "insert" /\ Uploads(r, "ocr", job[r])
            /\ \A f \in Files : ocr'[f] = IF f = job[r].file THEN "pending" ELSE ocr[f]
        BY <1>0, <2>7, Inserts
      <4>2. /\ job[r].file \in Files /\ job[r].key \in DekKeys \cup {Plain}
            /\ job[r] = Hands(job[r].file, job[r].key)
        BY <1>0, <4>1, JobHeld
      <4>3. job[r].kek = 0
        BY <4>2 DEF Hands, Wrapped
      <4> QED
        BY <4>1, <4>2, <4>3 DEF Uploads
    <3> QED
      BY <3>1 DEF JobOf, Known, DekKeys
  <2>8. CASE UploadOcr(r) \/ UploadFails(r)
    BY <1>0, <1>1, <2>8, Decides, Fails DEF Uploads
  <2> QED
    BY <1>1, <2>1, <2>2, <2>4, <2>5, <2>6, <2>7, <2>8, JobMoves DEF Upload
<1>2. ASSUME NEW r \in Requests, NEW q \in Requests, pc'[r] # "idle", pc'[q] # "idle",
             job'[r].file = job'[q].file
      PROVE  r = q
  <2>1. ASSUME NEW s \in Requests, NEW t \in Requests, NEW f \in Files, UploadBegin(s, f),
               pc'[t] # "idle", job'[t].file = f
        PROVE  t = s
    <3>1. pc[t] = "idle" \/ job[t].file # f
      BY <2>1 DEF UploadBegin, Unused
    <3>2. pc[t] = "idle"
      BY <2>1, <3>1, FileKept
    <3>3. t # s => pc'[t] = pc[t]
      BY <1>0, <2>1, Begins DEF Uploads
    <3> QED
      BY <2>1, <3>2, <3>3
  <2> QED
    BY <1>0, <1>2, <2>1, FileKept DEF Jobs
<1> QED
  BY <1>1, <1>2 DEF Jobs

-----------------------------------------------------------------------------
(* The tenant's key changes by the first upload, by a rotation's commit, and *)
(* by the script's, which then tears every file.                            *)

LEMMA KeyMoves ==
  ASSUME AttachmentsOK, Inv, [Next]_vars
  PROVE  \/ keyRow'.dek = keyRow.dek
         \/ keyRow = NoKey /\ \E r \in Requests : UploadMint(r)
         \/ \E o \in Rotators : RotateCommit(o)
         \/ KekCommit /\ torn' = Files
<1> USE DEF server, kekVars, keys, files, ocrVars, requestVars, rotationVars, bounds, history
<1>0. TypeOK /\ Shapes /\ Jobs /\ kjob \in Rewraprecs
  BY ScriptHeld DEF Inv
<1>1. ASSUME NEW r \in Requests, Upload(r), ~(keyRow = NoKey /\ UploadMint(r))
      PROVE  keyRow' = keyRow
  BY <1>1 DEF Upload, UploadBegin, UploadMint, UploadReread, UploadWrite, UploadInsert,
              UploadOcr, UploadFails
<1>2. ASSUME NEW o \in Rotators, Rotate(o), ~RotateCommit(o)
      PROVE  keyRow' = keyRow
  BY <1>2 DEF Rotate, RotateBegin, RotateList, RotateRead, RotateWrite, RotateFails
<1>3. ASSUME NEW g \in Files, DeleteAttachment(g) \/ Ocr(g)
      PROVE  keyRow' = keyRow
  BY <1>3 DEF DeleteAttachment, Ocr, OcrEnds, Age, SweepRow
<1>4. CASE KekCommit
  <2>1. \/ kjob.row = NoKey /\ keyRow' = keyRow
        \/ /\ kjob.row # NoKey /\ keyRow'.dek = kjob.row.dek
           /\ torn' = IF kjob.row.dek # keyRow.dek THEN Files ELSE torn
    BY <1>4 DEF KekCommit
  <2> QED
    BY <1>4, <2>1
<1>5. CASE RotateKek /\ ~KekCommit
  BY <1>5 DEF RotateKek, Configure, ClearKek, PutKek, KekList, KekAbort, KekEnv
<1>6. CASE Crash \/ Boot \/ \E s \in Secrets : LinkSecret(s)
  BY <1>6 DEF Crash, Boot, LinkSecret
<1>7. CASE UNCHANGED vars
  BY <1>7 DEF vars
<1> QED
  BY <1>1, <1>2, <1>3, <1>4, <1>5, <1>6, <1>7 DEF Next

\* A file stops being torn when it is used anew or deleted.
LEMMA TornMoves ==
  ASSUME AttachmentsOK, Inv, [Next]_vars, NEW f \in torn, f \notin torn'
  PROVE  \/ \E r \in Requests : UploadBegin(r, f)
         \/ version[f] # NoVersion /\ version'[f] = NoVersion
<1> USE DEF server, kekVars, keys, files, ocrVars, requestVars, rotationVars, bounds, history
<1>0. TypeOK /\ f \in Files
  BY DEF Inv, TypeOK
<1>1. ASSUME NEW r \in Requests, Upload(r)
      PROVE  UploadBegin(r, f)
  BY <1>1 DEF Upload, UploadBegin, UploadMint, UploadReread, UploadWrite, UploadInsert,
              UploadOcr, UploadFails
<1>2. ASSUME NEW o \in Rotators, Rotate(o)
      PROVE  FALSE
  BY <1>2 DEF Rotate, RotateBegin, RotateList, RotateRead, RotateWrite, RotateCommit,
              RotateFails
<1>3. ASSUME NEW g \in Files, DeleteAttachment(g)
      PROVE  version[f] # NoVersion /\ version'[f] = NoVersion
  BY <1>0, <1>3 DEF TypeOK, DeleteAttachment
<1>4. ASSUME NEW g \in Files, Ocr(g)
      PROVE  FALSE
  BY <1>4 DEF Ocr, OcrEnds, Age, SweepRow
<1>5. CASE RotateKek \/ Crash \/ Boot \/ \E s \in Secrets : LinkSecret(s)
  BY <1>0, <1>5 DEF RotateKek, Configure, ClearKek, PutKek, KekList, KekCommit, KekAbort,
                    KekEnv, Crash, Boot, LinkSecret
<1>6. CASE UNCHANGED vars
  BY <1>6 DEF vars
<1> QED
  BY <1>1, <1>2, <1>3, <1>4, <1>5, <1>6 DEF Next

LEMMA HandsStep ==
  ASSUME AttachmentsOK, Inv, [Next]_vars
  PROVE  HandsCurrent'
<1> USE DEF server, kekVars, keys, files, ocrVars, requestVars, rotationVars, bounds, history
<1>0. TypeOK /\ Shapes /\ Jobs /\ HandsCurrent /\ Rotations
  BY DEF Inv
<1> SUFFICES ASSUME NEW r \in Requests, pc'[r] \in {"write", "insert"}, job'[r].key # Plain
             PROVE  job'[r].key = UnderDek(keyRow'.dek) \/ job'[r].file \in torn'
  BY DEF HandsCurrent, UnderDek
<1>1. ASSUME pc[r] \in {"write", "insert"}, job'[r] = job[r], job[r].key # Plain
      PROVE  job[r].key = UnderDek(keyRow'.dek) \/ job[r].file \in torn'
  <2>1. /\ job[r].file \in Files /\ job[r].key \in DekKeys /\ version[job[r].file] = NoVersion
        /\ job[r].key = UnderDek(keyRow.dek) \/ job[r].file \in torn
    BY <1>0, <1>1, JobHeld DEF HandsCurrent, Jobs, JobOf
  <2>2. CASE job[r].file \in torn
    <3>1. ASSUME NEW q \in Requests, UploadBegin(q, job[r].file)
          PROVE  FALSE
      BY <3>1 DEF UploadBegin, Unused
    <3> QED
      BY <2>1, <2>2, <3>1, TornMoves
  <2>3. CASE job[r].key = UnderDek(keyRow.dek)
    <3>1. keyRow # NoKey
      <4>1. PICK d \in Deks : job[r].key = UnderDek(d)
        BY <2>1 DEF DekKeys
      <4>2. keyRow.dek = d /\ d # 0
        BY <2>3, <4>1 DEF UnderDek, Deks
      <4> QED
        BY <4>2, Contents
    <3>2. ASSUME NEW o \in Rotators, RotateCommit(o)
          PROVE  job[r].file \in torn'
      <4>1. job[r].file \in LeftBehind(o)
        BY <1>1, <2>1 DEF LeftBehind, InFlight
      <4> QED
        BY <3>2, <4>1 DEF RotateCommit
    <3> QED
      BY <2>1, <2>3, <3>1, <3>2, KeyMoves
  <2> QED
    BY <2>1, <2>2, <2>3
<1>2. CASE pc'[r] = pc[r] /\ job'[r] = job[r]
  BY <1>1, <1>2
<1>3. ASSUME NEW f \in Files, UploadBegin(r, f)
      PROVE  job'[r].key = UnderDek(keyRow'.dek)
  <2>1. PICK stage \in {"mint", "write"}, key \in DekKeys \cup {Plain}, k \in Keks :
          /\ Uploads(r, stage, Wrapped(f, key, k))
          /\ stage = "write" /\ key # Plain => key = UnderDek(keyRow.dek)
    BY <1>0, <1>3, Begins
  <2> QED
    BY <1>3, <2>1 DEF Uploads, Wrapped, UploadBegin
<1>4. CASE UploadMint(r)
  BY <1>0, <1>1, <1>4, MintsOn
<1>5. CASE UploadReread(r)
  <2>1. Uploads(r, "write", Hands(job[r].file, UnderDek(keyRow.dek))) /\ keyRow' = keyRow
    BY <1>0, <1>5, Rereads DEF Uploads, UploadReread
  <2> QED
    BY <2>1 DEF Uploads, Hands, Wrapped
<1>6. CASE UploadWrite(r)
  BY <1>0, <1>1, <1>6, Writes DEF Uploads
<1>7. CASE UploadInsert(r) \/ UploadOcr(r) \/ UploadFails(r)
  BY <1>0, <1>7, Inserts, Decides, Fails DEF Uploads
<1> QED
  BY <1>2, <1>3, <1>4, <1>5, <1>6, <1>7, JobMoves DEF Upload

-----------------------------------------------------------------------------
(* Rotations that run together.                                            *)

\* A rotation's place changes by its own steps and by a crash.
LEMMA RotationMoves ==
  ASSUME AttachmentsOK, Inv, [Next]_vars, NEW o \in Rotators
  PROVE  \/ rpc'[o] = rpc[o] /\ rjob'[o] = rjob[o]
         \/ Rotate(o)
         \/ Crash /\ rpc'[o] = "idle" /\ rjob'[o] = NoRotation
<1> USE DEF server, kekVars, keys, files, ocrVars, requestVars, rotationVars, bounds, history
<1>0. TypeOK /\ Jobs /\ Rotations
  BY DEF Inv
<1>1. ASSUME NEW q \in Rotators, Rotate(q), q # o
      PROVE  rpc'[o] = rpc[o] /\ rjob'[o] = rjob[o]
  <2>1. \E stage, j : Turn(q, stage, j)
    BY <1>1 DEF Rotate, RotateBegin, RotateList, RotateRead, RotateWrite, RotateCommit,
                RotateFails
  <2> QED
    BY <1>0, <1>1, <2>1 DEF Turn, TypeOK
<1>2. ASSUME NEW r \in Requests, Upload(r)
      PROVE  rpc' = rpc /\ rjob' = rjob
  BY <1>2 DEF Upload, UploadBegin, UploadMint, UploadReread, UploadWrite, UploadInsert,
              UploadOcr, UploadFails
<1>3. ASSUME NEW g \in Files, DeleteAttachment(g) \/ Ocr(g)
      PROVE  rpc' = rpc /\ rjob' = rjob
  BY <1>3 DEF DeleteAttachment, Ocr, OcrEnds, Age, SweepRow
<1>4. CASE RotateKek \/ Boot \/ \E s \in Secrets : LinkSecret(s)
  BY <1>4 DEF RotateKek, Configure, ClearKek, PutKek, KekList, KekCommit, KekAbort, KekEnv,
              Boot, LinkSecret
<1>5. CASE Crash
  BY <1>5 DEF Crash
<1>6. CASE UNCHANGED vars
  BY <1>6 DEF vars
<1> QED
  BY <1>1, <1>2, <1>3, <1>4, <1>5, <1>6 DEF Next

\* What a rotation has rewritten it keeps in hand; if it ends, it marks it, and a
\* commit that overlaps another rotation marks everything.
LEMMA DoneKept ==
  ASSUME AttachmentsOK, Inv, [Next]_vars, NEW o \in Rotators, NEW f \in rjob[o].done
  PROVE  \/ f \in rjob'[o].done /\ rpc'[o] # "idle"
         \/ f \in torn'
         \/ RotateCommit(o) /\ Rivals(o) = {}
<1> USE DEF server, kekVars, keys, files, ocrVars, requestVars, rotationVars, bounds, history
<1>0. TypeOK /\ Jobs /\ Rotations
  BY DEF Inv
<1>1. rpc[o] # "idle" /\ rpc[o] # "list" /\ f \in Files
  <2>1. rpc[o] # "idle"
    BY <1>0 DEF Rotations, NoRotation
  <2> QED
    BY <1>0, <2>1, RotationHeld DEF RotationOf, Rotationrecs
<1>2. CASE rpc'[o] = rpc[o] /\ rjob'[o] = rjob[o]
  BY <1>1, <1>2
<1>3. CASE Crash
  BY <1>3 DEF Crash
<1>4. CASE RotateBegin(o) \/ RotateList(o)
  BY <1>1, <1>4 DEF RotateBegin, RotateList
<1>5. ASSUME NEW g \in Files, NEW v \in Versions, RotateRead(o, g, v)
      PROVE  f \in rjob'[o].done /\ rpc'[o] # "idle"
  BY <1>0, <1>5, RotationReads DEF Rotates, Reading
<1>6. CASE RotateWrite(o)
  BY <1>0, <1>6, RotationWrites DEF Rotates
<1>7. CASE RotateCommit(o)
  BY <1>1, <1>7 DEF RotateCommit, LeftBehind
<1>8. CASE RotateFails(o)
  BY <1>8 DEF RotateFails
<1> QED
  BY <1>2, <1>3, <1>4, <1>5, <1>6, <1>7, <1>8, RotationMoves DEF Rotate

\* A file that has a row, or had one, is used by no upload that is to begin or to write.
LEMMA KnownIsTaken ==
  ASSUME AttachmentsOK, Inv, NEW f \in Files, Known(f), NEW r \in Requests
  PROVE  /\ ~UploadBegin(r, f)
         /\ (UploadInsert(r) \/ UploadWrite(r)) => f # job[r].file
<1>1. ~UploadBegin(r, f)
  BY DEF UploadBegin, Unused, Known
<1>2. ASSUME UploadInsert(r) \/ UploadWrite(r)
      PROVE  ~Known(job[r].file)
  <2>1. pc[r] \in {"insert", "write"}
    BY <1>2 DEF UploadInsert, UploadWrite
  <2> QED
    BY <2>1 DEF Inv, Jobs, JobOf
<1> QED
  BY <1>1, <1>2

\* While two rotations run, neither commits without marking everything.
LEMMA RivalCommits ==
  ASSUME AttachmentsOK, Inv, NEW o \in Rotators, NEW q \in Rotators, rpc[o] # "idle", q # o,
         RotateCommit(q)
  PROVE  torn' = Files
<1>1. LeftBehind(q) = Files /\ torn \subseteq Files
  BY DEF LeftBehind, Rivals, Inv, TypeOK
<1> QED
  BY <1>1 DEF RotateCommit

LEMMA LostStays ==
  ASSUME AttachmentsOK, Inv, [Next]_vars, NEW o \in Rotators, NEW f \in Files,
         rpc[o] # "idle", rpc'[o] # "idle", Known(f), Lost(o, f)
  PROVE  Lost(o, f)'
<1>2. CASE f \in torn
  BY <1>2, TornMoves, KnownIsTaken DEF Lost
<1>3. CASE version[f] = NoVersion
  BY <1>3, RowMoves, KnownIsTaken DEF Lost
<1>4. ASSUME NEW q \in Rotators \ {o}, f \in rjob[q].done
      PROVE  Lost(o, f)'
  <2>1. CASE RotateCommit(q)
    BY <2>1, RivalCommits DEF Lost
  <2>2. CASE ~RotateCommit(q)
    BY <1>4, <2>2, DoneKept DEF Lost
  <2> QED
    BY <2>1, <2>2
<1> QED
  BY <1>2, <1>3, <1>4 DEF Lost

\* A row listed by a running rotation is still what the list says, or lost.
LEMMA ListedStays ==
  ASSUME AttachmentsOK, Inv, [Next]_vars, NEW o \in Rotators, NEW f \in Files, NEW v,
         rpc[o] # "idle", ~RotateCommit(o), Known(f),
         version[f] \in {v, NoVersion} \/ f \in torn
  PROVE  version'[f] \in {v, NoVersion} \/ f \in torn'
<1>1. CASE f \in torn
  BY <1>1, TornMoves, KnownIsTaken
<1>2. CASE version[f] \in {v, NoVersion}
  <2>1. ASSUME NEW q \in Rotators, RotateCommit(q)
        PROVE  f \in torn'
    BY <2>1, RivalCommits
  <2> QED
    BY <1>2, <2>1, RowMoves, KnownIsTaken
<1> QED
  BY <1>1, <1>2

\* A file a running rotation has rewritten is still under its key, or lost.
LEMMA RewrittenStays ==
  ASSUME AttachmentsOK, Inv, [Next]_vars, NEW o \in Rotators, NEW f \in rjob[o].done,
         rpc[o] # "idle", rpc'[o] # "idle"
  PROVE  Known(f)' /\ (disk'[f] = UnderDek(rjob[o].fresh) \/ Lost(o, f)')
<1>1. /\ RotationOf(o) /\ Known(f) /\ f \in Files
      /\ disk[f] = UnderDek(rjob[o].fresh) \/ Lost(o, f)
  BY RotationHeld DEF Inv, RotationOf, Rotationrecs
<1>2. Known(f)'
  BY <1>1, StillKnown
<1>3. CASE Lost(o, f)
  BY <1>1, <1>2, <1>3, LostStays
<1>4. CASE disk[f] = UnderDek(rjob[o].fresh)
  <2>1. ASSUME NEW q \in Rotators, RotateWrite(q), f = rjob[q].file
        PROVE  Lost(o, f)'
    <3>1. q # o
      BY <1>1, <2>1 DEF RotateWrite, RotationOf
    <3>2. f \in rjob'[q].done
      BY <2>1, RotationWrites DEF Inv, Rotates
    <3> QED
      BY <3>1, <3>2 DEF Lost
  <2>2. version'[f] = NoVersion => Lost(o, f)'
    BY DEF Lost
  <2> QED
    BY <1>1, <1>2, <1>4, <2>1, <2>2, FileMoves, KnownIsTaken
<1> QED
  BY <1>1, <1>3, <1>4

LEMMA RotationsStep ==
  ASSUME AttachmentsOK, Inv, [Next]_vars
  PROVE  Rotations'
<1> SUFFICES ASSUME NEW o \in Rotators
             PROVE  IF rpc'[o] = "idle" THEN rjob'[o] = NoRotation ELSE RotationOf(o)'
  BY DEF Rotations, NoRotation, NoFile
<1>0. TypeOK /\ Shapes /\ Jobs /\ Rotations /\ RowsKnown /\ FilesHeld
  BY DEF Inv
<1>1. CASE Crash
  BY <1>0, <1>1 DEF Crash
<1>2. CASE RotateCommit(o) \/ RotateFails(o)
  BY <1>0, <1>2, RotationCommits, RotationFails DEF Rotates
<1>3. CASE RotateBegin(o)
  <2>1. PICK j \in Rotationrecs :
          /\ Rotates(o, "list", j) /\ j.fresh # 0 /\ j.todo = {} /\ j.done = {}
    BY <1>0, <1>3, RotationBegins
  <2>2. rpc'[o] = "list" /\ rjob'[o] = j
    BY <2>1 DEF Rotates
  <2> QED
    BY <2>1, <2>2 DEF RotationOf
<1>4. CASE RotateList(o)
  <2>1. PICK j \in Rotationrecs :
          /\ Rotates(o, "next", j) /\ j.fresh = rjob[o].fresh /\ j.done = {}
          /\ \A e \in j.todo : /\ e \in Listed /\ e[2] = version[e[1]]
                               /\ version[e[1]] # NoVersion
    BY <1>0, <1>4, RotationLists
  <2>2. rpc'[o] = "next" /\ rjob'[o] = j /\ version' = version /\ ocr' = ocr /\ torn' = torn
    BY <1>4, <2>1 DEF Rotates, RotateList, files, ocrVars, history
  <2>3. j.fresh # 0
    BY <1>0, <1>4, <2>1, RotationHeld DEF RotateList, RotationOf
  <2>4. ASSUME NEW e \in j.todo
        PROVE  /\ ocr[e[1]] # "none" /\ version[e[1]] = e[2]
               /\ \A d \in j.todo : d[1] = e[1] => d = e
    BY <1>0, <2>1 DEF RowsKnown, Known, Listed
  <2> QED
    BY <2>1, <2>2, <2>3, <2>4 DEF RotationOf, Known
<1>5. ASSUME rpc[o] # "idle", rpc'[o] # "idle"
      PROVE  /\ rjob[o].fresh # 0
             /\ \A e \in rjob[o].todo :
                  /\ ocr'[e[1]] # "none" /\ e[1] \in Files /\ e[1] \notin rjob[o].done
                  /\ version'[e[1]] \in {e[2], NoVersion} \/ e[1] \in torn'
                  /\ \A d \in rjob[o].todo : d[1] = e[1] => d = e
             /\ \A f \in rjob[o].done :
                  ocr'[f] # "none" /\ (disk'[f] = UnderDek(rjob[o].fresh) \/ Lost(o, f)')
  <2>1. RotationOf(o) /\ rjob[o] \in Rotationrecs /\ ~RotateCommit(o)
    BY <1>0, <1>2, <1>5, RotationHeld, RotationCommits DEF Rotates
  <2>2. ASSUME NEW e \in rjob[o].todo
        PROVE  /\ ocr'[e[1]] # "none" /\ e[1] \in Files
               /\ version'[e[1]] \in {e[2], NoVersion} \/ e[1] \in torn'
    <3>1. PICK f \in Files : f = e[1]
      BY <2>1 DEF Rotationrecs, Listed
    <3>2. Known(f) /\ (version[f] \in {e[2], NoVersion} \/ f \in torn)
      BY <2>1, <3>1 DEF RotationOf, Known
    <3>3. Known(f)'
      BY <3>2, StillKnown
    <3>4. version'[f] \in {e[2], NoVersion} \/ f \in torn'
      BY <1>5, <2>1, <3>2, ListedStays
    <3> QED
      BY <3>1, <3>3, <3>4 DEF Known
  <2>3. ASSUME NEW f \in rjob[o].done
        PROVE  ocr'[f] # "none" /\ (disk'[f] = UnderDek(rjob[o].fresh) \/ Lost(o, f)')
    BY <1>5, RewrittenStays DEF Known
  <2> QED
    BY <2>1, <2>2, <2>3 DEF RotationOf
<1>6. CASE rpc'[o] = rpc[o] /\ rjob'[o] = rjob[o]
  <2>1. CASE rpc[o] = "idle"
    BY <1>0, <1>6, <2>1 DEF Rotations
  <2>2. CASE rpc[o] # "idle"
    <3>1. RotationOf(o)
      BY <1>0, <2>2, RotationHeld
    <3>2. ASSUME rpc[o] = "write"
          PROVE  /\ ocr'[rjob[o].file] # "none"
                 /\ rjob[o].holds = Plain
                    \/ (rjob[o].holds = Junk
                        /\ \A f \in Files : f = rjob[o].file => Lost(o, f)')
      <4>1. PICK f \in Files : f = rjob[o].file
        BY <3>1, <3>2 DEF RotationOf
      <4>2. /\ Known(f)
            /\ rjob[o].holds = Plain \/ (rjob[o].holds = Junk /\ Lost(o, f))
        BY <3>1, <3>2, <4>1 DEF RotationOf, Lost, Known
      <4>3. Known(f)'
        BY <4>2, StillKnown
      <4>4. Lost(o, f) => Lost(o, f)'
        BY <1>6, <2>2, <4>2, LostStays
      <4> QED
        BY <4>1, <4>2, <4>3, <4>4 DEF Known
    <3>3. rpc[o] = "write" => rjob[o].file \in Files
      BY <3>1 DEF RotationOf
    <3> QED
      BY <1>5, <1>6, <2>2, <3>1, <3>2, <3>3 DEF RotationOf, Known, Lost
  <2> QED
    BY <2>1, <2>2
<1>7. ASSUME NEW f \in Files, NEW v \in Versions, RotateRead(o, f, v)
      PROVE  RotationOf(o)'
  <2>1. PICK j \in Rotationrecs : Rotates(o, "write", j) /\ Reading(o, f, v, j)
    BY <1>0, <1>7, RotationReads
  <2>2. /\ rpc[o] = "next" /\ <<f, v>> \in rjob[o].todo
        /\ rpc'[o] = "write" /\ rjob'[o] = j
    BY <1>7, <2>1 DEF RotateRead, Rotates
  <2>3. RotationOf(o)
    BY <1>0, <2>2, RotationHeld
  <2>4. /\ Known(f) /\ f \notin rjob[o].done
        /\ version[f] \in {v, NoVersion} \/ f \in torn
        /\ \A d \in rjob[o].todo : d[1] = f => d = <<f, v>>
    BY <2>2, <2>3 DEF RotationOf
  <2>5. Known(f)'
    BY <2>4, StillKnown
  <2>6. ASSUME j.holds = Junk, j.holds # Plain
        PROVE  Lost(o, f)'
    <3>1. v = 0 /\ disk[f] # Plain
      BY <2>1, <2>6 DEF Reading
    <3>2. f \in torn \/ version[f] = NoVersion \/ Rewriting(f)
      BY <1>0, <2>4, <3>1 DEF FilesHeld, Held
    <3>3. Lost(o, f)
      BY <2>4, <3>2 DEF Lost, Rewriting
    <3> QED
      BY <2>2, <2>4, <3>3, LostStays
  <2>7. j.holds = Plain \/ (j.holds = Junk /\ Lost(o, f)')
    BY <2>1, <2>6 DEF Reading
  <2>8. \A e \in j.todo : e[1] # f
    BY <2>1, <2>4 DEF Reading
  <2> QED
    BY <1>5, <2>1, <2>2, <2>4, <2>5, <2>7, <2>8 DEF RotationOf, Known, Lost, Reading
<1>8. CASE RotateWrite(o)
  <2>1. PICK j \in Rotationrecs :
          /\ Rotates(o, "next", j) /\ j.fresh = rjob[o].fresh
          /\ j.todo = rjob[o].todo /\ j.done = rjob[o].done \cup {rjob[o].file}
    BY <1>0, <1>8, RotationWrites
  <2>2. rpc[o] = "write" /\ rpc'[o] = "next" /\ rjob'[o] = j
    BY <1>8, <2>1 DEF RotateWrite, Rotates
  <2>3. RotationOf(o)
    BY <1>0, <2>2, RotationHeld
  <2>4. PICK f \in Files : f = rjob[o].file
    BY <2>2, <2>3 DEF RotationOf
  <2>5. /\ Known(f) /\ \A e \in rjob[o].todo : e[1] # f
        /\ rjob[o].holds = Plain \/ Lost(o, f)
    BY <2>2, <2>3, <2>4 DEF RotationOf, Known, Lost
  <2>6. Known(f)'
    BY <2>5, StillKnown
  <2>7. disk'[f] = UnderDek(rjob[o].fresh) \/ Lost(o, f)'
    <3>1. rjob[o].holds = Plain => disk'[f] = UnderDek(rjob[o].fresh)
      BY <1>0, <1>8, <2>4, RotationWrites
    <3>2. Lost(o, f) => Lost(o, f)'
      BY <2>2, <2>5, LostStays
    <3> QED
      BY <2>5, <3>1, <3>2
  <2> QED
    BY <1>5, <2>1, <2>2, <2>4, <2>5, <2>6, <2>7 DEF RotationOf, Known, Lost
<1>9. CASE Rotate(o)
  <2>1. ASSUME RotateWrite(o) \/ \E f \in Files, v \in Versions : RotateRead(o, f, v)
        PROVE  rpc'[o] # "idle"
    BY <1>0, <2>1 DEF RotateWrite, RotateRead, Turn, TypeOK
  <2> QED
    BY <1>2, <1>3, <1>4, <1>7, <1>8, <1>9, <2>1 DEF Rotate
<1> QED
  BY <1>1, <1>6, <1>9, RotationMoves

-----------------------------------------------------------------------------
(* FilesHeld.                                                              *)

LEMMA NoDekNoFile ==
  ASSUME AttachmentsOK, TypeOK, NEW f \in Files
  PROVE  disk[f] # UnderDek(0)
BY DEF TypeOK, Content, NoFile, Plain, Junk, UnderKek, UnderDek, Deks

\* A rotation that commits alone leaves what it has rewritten under its key.
LEMMA CommitHolds ==
  ASSUME AttachmentsOK, Inv, NEW o \in Rotators, RotateCommit(o), Rivals(o) = {},
         NEW f \in rjob[o].done, f \notin torn
  PROVE  Held(f)'
<1>0. TypeOK /\ Jobs /\ Rotations
  BY DEF Inv
<1>1. /\ rpc[o] # "idle" /\ keyRow'.dek = rjob[o].fresh
      /\ version'[f] = IF version[f] # NoVersion THEN 2 ELSE NoVersion
      /\ RotationOf(o) /\ f \in Files
  <2>1. rpc[o] # "idle"
    BY DEF RotateCommit
  <2>2. RotationOf(o) /\ f \in Files
    BY <1>0, <2>1, RotationHeld DEF Rotationrecs
  <2> QED
    BY <1>0, <2>1, <2>2, RotationCommits
<1>2. disk' = disk
  BY DEF RotateCommit
<1>3. ASSUME NEW q \in Rotators \ {o}
      PROVE  f \notin rjob[q].done
  BY <1>0 DEF Rivals, Rotations, NoRotation
<1>4. version[f] = NoVersion \/ disk[f] = UnderDek(rjob[o].fresh)
  BY <1>1, <1>3 DEF RotationOf, Lost
<1>5. CASE version[f] = NoVersion
  BY <1>1, <1>5 DEF Held, NoVersion
<1>6. CASE version[f] # NoVersion
  BY <1>1, <1>2, <1>4, <1>6 DEF Held, UnderDek
<1> QED
  BY <1>5, <1>6

\* The row of an upload says what the upload wrote.
LEMMA InsertHolds ==
  ASSUME AttachmentsOK, Inv, NEW r \in Requests, UploadInsert(r), NEW f, f = job[r].file,
         f \notin torn
  PROVE  Held(f)'
<1>0. TypeOK /\ Jobs /\ HandsCurrent
  BY DEF Inv
<1>1. /\ pc[r] = "insert" /\ f \in Files /\ disk[f] = job[r].key
      /\ version'[f] = IF job[r].key = Plain THEN 0 ELSE 2
      /\ disk' = disk /\ keyRow' = keyRow
  BY <1>0, Inserts, JobHeld DEF UploadInsert, Jobs, JobOf, keys
<1>2. job[r].key # Plain => disk[f] = UnderDek(keyRow.dek)
  BY <1>0, <1>1 DEF HandsCurrent
<1> QED
  BY <1>1, <1>2 DEF Held, UnderDek, Plain

\* Only a setting and a boot change the server's KEK, and what the new one
\* does not read is marked.
LEMMA KekMoves ==
  ASSUME AttachmentsOK, Inv, [Next]_vars
  PROVE  kekRun' = kekRun \/ Shut(kekRun') \subseteq torn'
<1> USE DEF server, kekVars, keys, files, ocrVars, requestVars, rotationVars, bounds, history
<1>1. ASSUME NEW r \in Requests, Upload(r)
      PROVE  kekRun' = kekRun
  BY <1>1 DEF Upload, UploadBegin, UploadMint, UploadReread, UploadWrite, UploadInsert,
              UploadOcr, UploadFails
<1>2. ASSUME NEW o \in Rotators, Rotate(o)
      PROVE  kekRun' = kekRun
  BY <1>2 DEF Rotate, RotateBegin, RotateList, RotateRead, RotateWrite, RotateCommit,
              RotateFails
<1>3. ASSUME NEW f \in Files, DeleteAttachment(f) \/ Ocr(f)
      PROVE  kekRun' = kekRun
  BY <1>3 DEF DeleteAttachment, Ocr, OcrEnds, Age, SweepRow
<1>4. ASSUME NEW k \in Keks, PutKek(k)
      PROVE  Shut(kekRun') \subseteq torn'
  <2>1. kekRun' = k /\ torn' = torn \cup Shut(k)
    BY <1>4 DEF PutKek
  <2> QED
    BY <2>1
<1>5. CASE Boot
  <2>1. kekRun' = Effective /\ torn' = torn \cup Shut(Effective)
    BY <1>5 DEF Boot
  <2> QED
    BY <2>1
<1>6. CASE Configure \/ ClearKek \/ KekList \/ KekCommit \/ KekAbort \/ KekEnv
  BY <1>6 DEF Configure, ClearKek, KekList, KekCommit, KekAbort, KekEnv
<1>7. ASSUME NEW s \in Secrets, LinkSecret(s)
      PROVE  kekRun' = kekRun
  BY <1>7 DEF LinkSecret
<1>8. CASE Crash
  BY <1>8 DEF Crash
<1>9. CASE UNCHANGED vars
  BY <1>9 DEF vars
<1> QED
  BY <1>1, <1>2, <1>3, <1>4, <1>5, <1>6, <1>7, <1>8, <1>9 DEF Next, RotateKek

LEMMA FilesStep ==
  ASSUME AttachmentsOK, Inv, [Next]_vars
  PROVE  FilesHeld'
<1> SUFFICES ASSUME NEW f \in Files, f \notin torn'
             PROVE  Rewriting(f)' \/ Held(f)'
  BY DEF FilesHeld, Held, Rewriting, UnderDek, Plain
<1>0. TypeOK /\ Jobs /\ Rotations /\ FilesHeld
  BY DEF Inv
<1>1. version'[f] = NoVersion => Held(f)'
  BY DEF Held, NoVersion
<1>2. CASE f \in torn
  <2>1. ASSUME NEW r \in Requests, UploadBegin(r, f)
        PROVE  version'[f] = NoVersion
    BY <2>1 DEF UploadBegin, Unused, files
  <2> QED
    BY <1>1, <1>2, <2>1, TornMoves
<1>3. ASSUME f \notin torn, NEW o \in Rotators, f \in rjob[o].done
      PROVE  Rewriting(f)' \/ Held(f)'
  BY <1>3, DoneKept, CommitHolds DEF Rewriting
<1>4. CASE f \notin torn /\ ~Rewriting(f) /\ version[f] = NoVersion
  <2>1. ASSUME NEW r \in Requests, UploadInsert(r), f = job[r].file
        PROVE  Held(f)'
    BY <1>4, <2>1, InsertHolds
  <2> QED
    BY <1>1, <1>4, <2>1, RowMoves
<1>5. ASSUME f \notin torn, ~Rewriting(f), version[f] # NoVersion, version'[f] # NoVersion
      PROVE  Rewriting(f)' \/ Held(f)'
  <2>1. Held(f) /\ Known(f)
    BY <1>0, <1>5, StillKnown DEF FilesHeld
  <2>2. ASSUME NEW o \in Rotators, RotateCommit(o)
        PROVE  FALSE
    BY <1>5, <2>2 DEF RotateCommit, LeftBehind, Rows, Rewriting
  <2>3. version'[f] = version[f]
    BY <1>5, <2>1, <2>2, RowMoves, KnownIsTaken
  <2>4. ASSUME NEW o \in Rotators, RotateWrite(o), f = rjob[o].file
        PROVE  Rewriting(f)'
    <3>1. f \in rjob'[o].done
      BY <1>0, <2>4, RotationWrites DEF Rotates
    <3> QED
      BY <3>1 DEF Rewriting
  <2>5. disk'[f] = disk[f] \/ Rewriting(f)'
    BY <1>5, <2>1, <2>4, FileMoves, KnownIsTaken
  <2>6. version[f] = 2 => keyRow'.dek = keyRow.dek
    <3>1. version[f] = 2 => keyRow # NoKey
      BY <1>0, <2>1, NoDekNoFile, Contents DEF Held
    <3>2. ~(KekCommit /\ torn' = Files)
      OBVIOUS
    <3> QED
      BY <2>2, <3>1, <3>2, KeyMoves
  <2>7. CASE Rewriting(f)'
    BY <2>7
  <2>8. CASE disk'[f] = disk[f] /\ version[f] # 1
    <3>1. version'[f] \in {0, 2}
      BY <1>0, <1>5, <2>3, <2>8 DEF TypeOK, Versions
    <3> QED
      BY <2>1, <2>3, <2>6, <2>8, <3>1 DEF Held, UnderDek, Plain
  <2>9. CASE disk'[f] = disk[f] /\ version[f] = 1
    <3>1. disk[f] = UnderKek(kekRun)
      BY <2>1, <2>9 DEF Held
    <3>2. kekRun' = kekRun \/ f \notin Shut(kekRun')
      BY <1>5, KekMoves
    <3>3. disk'[f] = UnderKek(kekRun')
      BY <2>9, <3>1, <3>2 DEF Shut
    <3> QED
      BY <2>3, <2>9, <3>3 DEF Held, UnderKek
  <2> QED
    BY <2>5, <2>7, <2>8, <2>9
<1> QED
  BY <1>1, <1>2, <1>3, <1>4, <1>5 DEF Rewriting

-----------------------------------------------------------------------------
(* KeysFollow.                                                             *)

LEMMA KeysStep ==
  ASSUME AttachmentsOK, Inv, [Next]_vars
  PROVE  Unlisted' /\ KeysFollow'
<1> USE DEF server, kekVars, keys, files, ocrVars, requestVars, rotationVars, bounds, history
<1>0. /\ TypeOK /\ Shapes /\ Jobs /\ Rotations /\ Unlisted /\ KeysFollow
      /\ kjob \in Rewraprecs /\ "key" \notin Secrets
      /\ NoKey.dek = 0 /\ NoKey.kek = 0
  BY ScriptHeld, Contents DEF Inv, AttachmentsOK
<1>1. ASSUME NEW r \in Requests, Upload(r)
      PROVE  Unlisted' /\ KeysFollow'
  <2>1. CASE UploadMint(r)
    <3>1. /\ secrets' = secrets /\ kekEnv' = kekEnv /\ kekRun' = kekRun /\ kpc' = kpc
          /\ kjob' = kjob
      BY <2>1 DEF UploadMint
    <3>2. CASE keyRow' = keyRow /\ late' = late
      BY <1>0, <3>1, <3>2 DEF Unlisted, KeysFollow, DbKek
    <3>3. CASE keyRow = NoKey /\ keyRow'.kek = job[r].kek
               /\ late' = IF Astray(job[r].kek) THEN late \cup {"key"} ELSE late
      BY <1>0, <3>1, <3>3 DEF Unlisted, KeysFollow, DbKek, Astray
    <3> QED
      BY <1>0, <2>1, <3>2, <3>3, Mints
  <2>2. CASE ~UploadMint(r)
    BY <1>0, <1>1, <2>2 DEF Upload, UploadBegin, UploadReread, UploadWrite, UploadInsert,
         UploadOcr, UploadFails, Unlisted, KeysFollow, DbKek
  <2> QED
    BY <2>1, <2>2
<1>2. ASSUME NEW o \in Rotators, Rotate(o)
      PROVE  Unlisted' /\ KeysFollow'
  <2>1. CASE RotateCommit(o)
    <3>1. /\ keyRow'.kek = rjob[o].kek
          /\ late' = IF Astray(rjob[o].kek) THEN late \cup {"key"} ELSE late \ {"key"}
          /\ secrets' = secrets /\ kekEnv' = kekEnv /\ kpc' = kpc /\ kjob' = kjob
      BY <2>1 DEF RotateCommit
    <3> QED
      BY <1>0, <3>1 DEF Unlisted, KeysFollow, DbKek, Astray
  <2>2. CASE ~RotateCommit(o)
    BY <1>0, <1>2, <2>2 DEF Rotate, RotateBegin, RotateList, RotateRead, RotateWrite,
         RotateFails, Unlisted, KeysFollow, DbKek
  <2> QED
    BY <2>1, <2>2
<1>3. ASSUME NEW f \in Files, DeleteAttachment(f) \/ Ocr(f)
      PROVE  Unlisted' /\ KeysFollow'
  BY <1>0, <1>3 DEF DeleteAttachment, Ocr, OcrEnds, Age, SweepRow, Unlisted, KeysFollow, DbKek
<1>4. CASE Configure
  <2>1. /\ kpc = "idle" /\ kpc' = "idle" /\ kekEnv = 0 /\ keyRow' = keyRow /\ late' = late
        /\ secrets' = secrets
    BY <1>0, <1>4 DEF Configure, Shapes
  <2>2. keyRow # NoKey => "key" \in late
    BY <1>0, <2>1 DEF KeysFollow, DbKek, Shapes
  <2>3. \A s \in Secrets \ late : secrets[s] = 0
    BY <1>0, <2>1 DEF KeysFollow, DbKek
  <2> QED
    BY <2>1, <2>2, <2>3 DEF Unlisted, KeysFollow, DbKek
<1>5. CASE ClearKek \/ \E k \in Keks : PutKek(k)
  BY <1>0, <1>5 DEF ClearKek, PutKek, Unlisted, KeysFollow, DbKek
<1>6. CASE KekList
  <2>1. /\ kpc = "idle" /\ kpc' = "rewrap" /\ kekEnv' = kekEnv /\ keyRow' = keyRow
        /\ late' = late /\ secrets' = secrets
        /\ kjob'.row = keyRow /\ kjob'.secrets = secrets
    BY <1>6 DEF KekList
  <2> QED
    BY <1>0, <2>1 DEF Unlisted, KeysFollow, DbKek
<1>7. CASE KekCommit
  <2>1. /\ kpc = "rewrap" /\ kpc' = "env" /\ kjob' = kjob /\ late' = late \ Rewrapped
        /\ keyRow' = IF kjob.row = NoKey THEN keyRow
                     ELSE [dek |-> kjob.row.dek, kek |-> kjob.kek]
        /\ \A s \in Secrets :
             secrets'[s] = IF kjob.secrets[s] = 0 THEN secrets[s] ELSE kjob.kek
    BY <1>7 DEF KekCommit
  <2>2. keyRow' # NoKey /\ "key" \notin late' => keyRow'.kek = kjob.kek
    <3>1. CASE kjob.row # NoKey
      BY <2>1, <3>1
    <3>2. CASE kjob.row = NoKey
      <4>1. keyRow' = keyRow /\ (keyRow = NoKey \/ "key" \in late)
        BY <1>0, <2>1, <3>2 DEF Unlisted
      <4>2. "key" \notin Rewrapped
        BY <1>0, <3>2 DEF Rewrapped
      <4> QED
        BY <2>1, <4>1, <4>2
    <3> QED
      BY <3>1, <3>2
  <2>3. ASSUME NEW s \in Secrets, s \notin late'
        PROVE  secrets'[s] \in {0, kjob.kek}
    <3>1. CASE kjob.secrets[s] # 0
      BY <2>1, <3>1
    <3>2. CASE kjob.secrets[s] = 0
      <4>1. s \notin Rewrapped
        BY <1>0, <3>2 DEF Rewrapped
      <4> QED
        BY <1>0, <2>1, <2>3, <3>2, <4>1 DEF Unlisted
    <3> QED
      BY <3>1, <3>2
  <2> QED
    BY <2>1, <2>2, <2>3 DEF Unlisted, KeysFollow, DbKek
<1>8. CASE KekAbort
  BY <1>0, <1>8 DEF KekAbort, Unlisted, KeysFollow, DbKek
<1>9. CASE KekEnv
  BY <1>0, <1>9 DEF KekEnv, Unlisted, KeysFollow, DbKek
<1>10. ASSUME NEW s \in Secrets, LinkSecret(s)
       PROVE  Unlisted' /\ KeysFollow'
  <2>1. /\ \A t \in Secrets : secrets'[t] = IF t = s THEN kekRun ELSE secrets[t]
        /\ late' = IF Astray(kekRun) THEN late \cup {s} ELSE late \ {s}
        /\ keyRow' = keyRow /\ kekEnv' = kekEnv /\ kpc' = kpc /\ kjob' = kjob
    BY <1>0, <1>10 DEF LinkSecret, TypeOK
  <2> QED
    BY <1>0, <2>1 DEF Unlisted, KeysFollow, DbKek, Astray
<1>11. CASE Crash \/ Boot
  BY <1>0, <1>11 DEF Crash, Boot, Unlisted, KeysFollow, DbKek
<1>12. CASE UNCHANGED vars
  BY <1>0, <1>12 DEF vars, Unlisted, KeysFollow, DbKek
<1> QED
  BY <1>1, <1>2, <1>3, <1>4, <1>5, <1>6, <1>7, <1>8, <1>9, <1>10, <1>11, <1>12
  DEF Next, RotateKek

-----------------------------------------------------------------------------
(* SettledStays.                                                           *)

LEMMA ComesToOcr ==
  ASSUME AttachmentsOK, Inv, [Next]_vars, NEW r \in Requests, pc'[r] = "ocr"
  PROVE  (pc[r] = "ocr" /\ job'[r] = job[r]) \/ UploadInsert(r)
<1>0. TypeOK /\ Shapes /\ Jobs
  BY DEF Inv
<1>1. ASSUME NEW f \in Files, UploadBegin(r, f)
      PROVE  FALSE
  <2>1. PICK stage \in {"mint", "write"}, key \in DekKeys \cup {Plain}, k \in Keks :
            Uploads(r, stage, Wrapped(f, key, k))
    BY <1>0, <1>1, Begins
  <2> QED
    BY <2>1 DEF Uploads
<1>2. CASE UploadMint(r)
  BY <1>0, <1>2, Mints DEF Uploads
<1>3. CASE UploadReread(r)
  BY <1>0, <1>3, Rereads DEF Uploads
<1>4. CASE UploadWrite(r)
  BY <1>0, <1>4, Writes DEF Uploads
<1>5. CASE UploadOcr(r) \/ UploadFails(r)
  BY <1>0, <1>5, Decides, Fails DEF Uploads
<1> QED
  BY <1>1, <1>2, <1>3, <1>4, <1>5, JobMoves DEF Upload

SettledKept ==
    \A f \in Files : ocr[f] \in {"extracted", "failed", "skipped"} => ocr'[f] = ocr[f]

\* A step that leaves the answers alone leaves OcrOpen alone.
LEMMA OcrRests ==
  ASSUME AttachmentsOK, Inv, [Next]_vars, ocr' = ocr, extracting' = extracting, sweep' = sweep
  PROVE  OcrOpen' /\ SettledKept
<1>1. TypeOK /\ Jobs /\ OcrOpen
  BY DEF Inv
<1>2. ASSUME NEW r \in Requests, pc'[r] = "ocr"
      PROVE  pc[r] = "ocr" /\ job'[r] = job[r]
  <2>1. ~UploadInsert(r)
    BY <1>1, Inserts, JobHeld DEF Jobs, JobOf, Known
  <2> QED
    BY <1>2, <2>1, ComesToOcr
<1> QED
  BY <1>1, <1>2 DEF OcrOpen, SettledKept

\* The uploads at their decision have files of their own.
LEMMA OcrItsOwn ==
  ASSUME AttachmentsOK, Inv, NEW r \in Requests, NEW q \in Requests,
         pc[r] \in {"insert", "ocr"}, pc[q] = "ocr", job[r].file = job[q].file
  PROVE  r = q
BY DEF Inv, Jobs

LEMMA OcrStep ==
  ASSUME AttachmentsOK, Inv, [Next]_vars
  PROVE  OcrOpen' /\ SettledKept
<1> USE DEF server, kekVars, keys, files, ocrVars, requestVars, rotationVars, bounds, history
<1>0. /\ TypeOK /\ Shapes /\ Jobs /\ OcrOpen
      /\ ocr \in [Files -> OcrStates] /\ sweep \subseteq Listed /\ extracting \subseteq Files
  BY DEF Inv, TypeOK
<1>1. ASSUME NEW r \in Requests, UploadInsert(r)
      PROVE  OcrOpen' /\ SettledKept
  <2>1. PICK f \in Files : f = job[r].file
    BY <1>0, <1>1, JobHeld DEF UploadInsert
  <2>2. /\ pc[r] = "insert" /\ ocr[f] = "none"
        /\ extracting' = extracting /\ sweep' = sweep
        /\ \A g \in Files : ocr'[g] = IF g = f THEN "pending" ELSE ocr[g]
    BY <1>0, <1>1, <2>1, Inserts DEF UploadInsert, Jobs, JobOf, Known
  <2>3. f \notin extracting /\ \A e \in sweep : e[1] # f /\ e[1] \in Files
    BY <1>0, <2>2 DEF OcrOpen, Listed
  <2>4. ASSUME NEW q \in Requests, pc'[q] = "ocr"
        PROVE  \/ pc[q] = "ocr" /\ job'[q].file = job[q].file
                  /\ job[q].file # f /\ job[q].file \in Files
               \/ job'[q].file = f
    <3>1. CASE q = r
      BY <1>0, <1>1, <2>1, <3>1, Inserts DEF Uploads
    <3>2. CASE q # r
      <4>1. pc[q] = "ocr" /\ job'[q] = job[q]
        BY <1>0, <1>1, <2>4, <3>2, Inserts DEF Uploads
      <4>2. job[q].file \in Files
        BY <1>0, <4>1, JobHeld
      <4> QED
        BY <2>1, <2>2, <3>2, <4>1, <4>2, OcrItsOwn
    <3> QED
      BY <3>1, <3>2
  <2> QED
    BY <1>0, <2>2, <2>3, <2>4 DEF OcrOpen, SettledKept
<1>2. ASSUME NEW r \in Requests, UploadOcr(r)
      PROVE  OcrOpen' /\ SettledKept
  <2>1. PICK f \in Files : f = job[r].file
    BY <1>0, <1>2, JobHeld DEF UploadOcr
  <2>2. /\ pc[r] = "ocr" /\ pc'[r] = "idle" /\ sweep' = sweep
        /\ ocr[f] = "pending" /\ f \notin extracting
        /\ \A e \in sweep : e[1] # f /\ e[1] \in Files
        /\ \/ /\ extracting' = extracting
              /\ \A g \in Files : g # f => ocr'[g] = ocr[g]
           \/ extracting' = extracting \cup {f} /\ ocr' = ocr
    BY <1>0, <1>2, <2>1, Decides DEF UploadOcr, OcrOpen, Uploads, Listed
  <2>3. ASSUME NEW q \in Requests, pc'[q] = "ocr"
        PROVE  /\ pc[q] = "ocr" /\ job'[q] = job[q]
               /\ job[q].file # f /\ job[q].file \in Files
    <3>1. q # r /\ pc[q] = "ocr" /\ job'[q] = job[q]
      BY <1>0, <1>2, <2>2, <2>3, Decides DEF Uploads
    <3>2. job[q].file \in Files
      BY <1>0, <3>1, JobHeld
    <3> QED
      BY <2>1, <2>2, <3>1, <3>2, OcrItsOwn
  <2> QED
    BY <1>0, <2>2, <2>3 DEF OcrOpen, SettledKept
<1>3. ASSUME NEW r \in Requests, Upload(r), ~UploadInsert(r), ~UploadOcr(r)
      PROVE  OcrOpen' /\ SettledKept
  <2>1. ocr' = ocr /\ extracting' = extracting /\ sweep' = sweep
    BY <1>3 DEF Upload, UploadBegin, UploadMint, UploadReread, UploadWrite, UploadFails
  <2> QED
    BY <2>1, OcrRests
<1>4. ASSUME NEW o \in Rotators, Rotate(o)
      PROVE  OcrOpen' /\ SettledKept
  <2>1. ocr' = ocr /\ extracting' = extracting /\ sweep' = sweep
    BY <1>4 DEF Rotate, RotateBegin, RotateList, RotateRead, RotateWrite, RotateCommit,
                RotateFails
  <2> QED
    BY <2>1, OcrRests
\* An answer comes to a receipt that nobody else is to answer.
<1>5. ASSUME NEW f \in Files, pc' = pc, job' = job,
             \A g \in Files : g # f => ocr'[g] = ocr[g],
             ocr[f] = "pending",
             \A r \in Requests : pc[r] = "ocr" => job[r].file # f,
             f \notin extracting', \A e \in sweep' : e[1] # f,
             extracting' \subseteq extracting, sweep' \subseteq sweep
      PROVE  OcrOpen' /\ SettledKept
  <2>1. \A r \in Requests : pc[r] = "ocr" => job[r].file \in Files
    BY <1>0, JobHeld
  <2>2. \A e \in sweep : e[1] \in Files
    BY <1>0 DEF Listed
  <2> QED
    BY <1>0, <1>5, <2>1, <2>2 DEF OcrOpen, SettledKept
<1>6. ASSUME NEW f \in Files, OcrEnds(f)
      PROVE  OcrOpen' /\ SettledKept
  <2>1. /\ pc' = pc /\ job' = job /\ f \in extracting /\ sweep' = sweep
        /\ extracting' = extracting \ {f}
        /\ \A g \in Files : g # f => ocr'[g] = ocr[g]
    BY <1>0, <1>6 DEF OcrEnds, Settle
  <2> QED
    BY <1>0, <1>5, <2>1 DEF OcrOpen
<1>7. ASSUME NEW f \in Files, NEW v \in Versions, SweepRow(f, v)
      PROVE  OcrOpen' /\ SettledKept
  <2>1. /\ pc' = pc /\ job' = job /\ <<f, v>> \in sweep /\ extracting' = extracting
        /\ sweep' = sweep \ {<<f, v>>}
        /\ \A g \in Files : g # f => ocr'[g] = ocr[g]
    BY <1>0, <1>7 DEF SweepRow, Settle
  <2>2. ocr[f] = "pending" /\ f \notin extracting /\ \A d \in sweep : d[1] = f => d = <<f, v>>
    BY <1>0, <2>1 DEF OcrOpen
  <2> QED
    BY <1>0, <1>5, <2>1, <2>2 DEF OcrOpen
<1>8. ASSUME NEW f \in Files, DeleteAttachment(f) \/ Age(f)
      PROVE  OcrOpen' /\ SettledKept
  BY <1>8, OcrRests DEF DeleteAttachment, Age
<1>9. CASE RotateKek \/ \E s \in Secrets : LinkSecret(s)
  <2>1. ocr' = ocr /\ extracting' = extracting /\ sweep' = sweep
    BY <1>9 DEF RotateKek, Configure, ClearKek, PutKek, KekList, KekCommit, KekAbort, KekEnv,
                LinkSecret
  <2> QED
    BY <2>1, OcrRests
<1>10. CASE Crash
  BY <1>10 DEF Crash, OcrOpen, SettledKept
<1>11. CASE Boot
  <2>1. /\ pc' = pc /\ ocr' = ocr /\ extracting' = {}
        /\ sweep' = {<<f, version[f]>> : f \in Unanswered}
        /\ \A r \in Requests : pc[r] = "idle"
    BY <1>0, <1>11 DEF Boot, Shapes
  <2> QED
    BY <2>1 DEF OcrOpen, SettledKept, Unanswered
<1>12. CASE UNCHANGED vars
  BY <1>12, OcrRests DEF vars
<1> QED
  BY <1>1, <1>2, <1>3, <1>4, <1>6, <1>7, <1>8, <1>9, <1>10, <1>11, <1>12 DEF Next, Ocr

-----------------------------------------------------------------------------
(* The theorems.                                                           *)

LEMMA InvInit ==
  ASSUME AttachmentsOK, Init
  PROVE  Inv
<1>1. TypeOK
  BY TypeInit
<1>2. Shapes
  BY Contents DEF Init, Shapes, NoRewrap
<1>3. HandsCurrent /\ Rotations /\ OcrOpen /\ Unlisted
  BY DEF Init, HandsCurrent, Rotations, OcrOpen, Unlisted
<1>4. RowsKnown /\ Jobs
  BY DEF Init, RowsKnown, Known, Jobs
<1>5. FilesHeld
  <2>1. ASSUME NEW f \in Files
        PROVE  Held(f)
    BY DEF Init, Held, UnderKek, NoVersion
  <2> QED
    BY <2>1 DEF FilesHeld
<1>6. KeysFollow
  BY DEF Init, KeysFollow
<1> QED
  BY <1>1, <1>2, <1>3, <1>4, <1>5, <1>6 DEF Inv

LEMMA InvStep ==
  ASSUME AttachmentsOK, Inv, [Next]_vars
  PROVE  Inv'
BY TypeStep, ShapesStep, RowsStep, JobsStep, HandsStep, RotationsStep, FilesStep, KeysStep,
   OcrStep DEF Inv

LEMMA InvHolds ==
  ASSUME AttachmentsOK
  PROVE  Spec => []Inv
<1>1. Init => Inv
  BY InvInit
<1>2. Inv /\ [Next]_vars => Inv'
  BY InvStep
<1> QED
  BY <1>1, <1>2, PTL DEF Spec

\* Every step of an upload, a rotation of either key, the sweep, a crash or a boot
\* keeps what each variable may hold (attachments/storage.ts, tenant-keys.ts,
\* kek-rotation.ts, ocr/extract-service.ts).
THEOREM AttachmentTypes ==
  ASSUME AttachmentsOK
  PROVE  Spec => []TypeOK
<1>1. Inv => TypeOK
  BY DEF Inv
<1> QED
  BY <1>1, InvHolds, PTL

\* A stored receipt is under the key its row points at, however uploads, deletions,
\* rotations and crashes interleave, except for the files that history marks.
THEOREM FilesStayHeld ==
  ASSUME AttachmentsOK
  PROVE  Spec => []FilesHeld
<1>1. Inv => FilesHeld
  BY DEF Inv
<1> QED
  BY <1>1, InvHolds, PTL

\* Rotating the KEK loses no key and no bank login: what the server wrapped while it
\* was on the KEK the script knows is under the one .env holds or is about to hold.
THEOREM KeysKeepFollowing ==
  ASSUME AttachmentsOK
  PROVE  Spec => []KeysFollow
<1>1. Inv => KeysFollow
  BY DEF Inv
<1> QED
  BY <1>1, InvHolds, PTL

\* An OCR answer that is there is never replaced: the sweep, the upload's own call
\* and its decision never have one receipt at once.
THEOREM SettledAnswersStay ==
  ASSUME AttachmentsOK
  PROVE  Spec => SettledStays
<1>1. ASSUME Inv, [Next]_vars
      PROVE  [\A f \in Files : ocr[f] \in {"extracted", "failed", "skipped"}
                                 => ocr'[f] = ocr[f]]_vars
  BY <1>1, OcrStep DEF SettledKept
<1> QED
  BY <1>1, InvHolds, PTL DEF Spec, SettledStays

===============================================================================
