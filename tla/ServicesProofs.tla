---------------------------- MODULE ServicesProofs ----------------------------
(***************************************************************************)
(* Proofs about Services: what was proved of each service by itself holds  *)
(* of the specification that the runs check, for any value of the          *)
(* constants.                                                              *)
(*                                                                         *)
(* A behaviour of Services is one of a single service, for which Only says *)
(* that it behaves as its own specification demands, or it never is one    *)
(* of that service: then the service's properties are not about it.        *)
(***************************************************************************)
EXTENDS Services, HouseholdsProofs

In(name) == service = name

-----------------------------------------------------------------------------
(* Subscriptions, quotas and bank connections.                             *)

LEMMA SubscriptionsOnly == Services => (In("subscriptions") /\ S!Spec) \/ []~In("subscriptions")
<1>1. Start /\ In("subscriptions") => S!Init
  BY DEF Start, In
<1>2. [Step]_all /\ In("subscriptions") => [S!Next]_(S!vars) /\ In("subscriptions")'
  BY DEF Step, In, all, others, after7, after8, after10, after11, after15, after18,
     S!vars, S!stripe, S!usage, S!bank, S!bounds, S!trail
<1>3. [Step]_all /\ ~In("subscriptions") => ~In("subscriptions")'
  BY DEF Step, In, all
<1> QED BY <1>1, <1>2, <1>3, PTL DEF Services, S!Spec

\* Whatever overlaps, fails and is sent again, what Stripe has been told is
\* received has been written or is being handled, but for what died with its claim.
THEOREM AcksHoldHere == Services => []AckedApplied
<1>1. S!Spec => []S!AckedApplied
  BY ServicesOK, S!AcksHold DEF ServicesOK
<1>2. S!AckedApplied \/ ~In("subscriptions") => AckedApplied
  BY DEF AckedApplied, Of, In
<1> QED BY <1>1, <1>2, SubscriptionsOnly, PTL

\* No event is applied a second time but after a write whose reply was lost.
THEOREM WritesOnceHere == Services => []AppliedOnce
<1>1. S!Spec => []S!AppliedOnce
  BY ServicesOK, S!WritesOnce DEF ServicesOK
<1>2. S!AppliedOnce \/ ~In("subscriptions") => AppliedOnce
  BY DEF AppliedOnce, Of, In
<1> QED BY <1>1, <1>2, SubscriptionsOnly, PTL

\* No race of requests gets more out of a period than the largest quota.
THEOREM QuotaHoldsHere == Services => []QuotaHeld
<1>1. S!Spec => []S!QuotaHeld
  BY ServicesOK, S!QuotaIsHeld DEF ServicesOK
<1>2. S!QuotaHeld \/ ~In("subscriptions") => QuotaHeld
  BY DEF QuotaHeld, Of, In
<1> QED BY <1>1, <1>2, SubscriptionsOnly, PTL

\* The counter of a period is what was granted, is to be given back or leaked.
THEOREM CounterExactHere == Services => []CounterExact
<1>1. S!Spec => []S!CounterExact
  BY ServicesOK, S!CounterIsExact DEF ServicesOK
<1>2. S!CounterExact \/ ~In("subscriptions") => CounterExact
  BY DEF CounterExact, Of, In
<1> QED BY <1>1, <1>2, SubscriptionsOnly, PTL

\* Bank connections stay within the caps, but for those that raced.
THEOREM SlotsHoldHere == Services => []SlotsHeld
<1>1. S!Spec => []S!SlotsHeld
  BY ServicesOK, S!SlotsAreHeld DEF ServicesOK
<1>2. S!SlotsHeld \/ ~In("subscriptions") => SlotsHeld
  BY DEF SlotsHeld, Of, In
<1> QED BY <1>1, <1>2, SubscriptionsOnly, PTL

-----------------------------------------------------------------------------
(* Transfers.                                                              *)

LEMMA TransfersOnly == Services => (In("transfers") /\ T!Spec) \/ []~In("transfers")
<1>1. Start /\ In("transfers") => T!Init
  BY DEF Start, In
<1>2. [Step]_all /\ In("transfers") => [T!Next]_(T!vars) /\ In("transfers")'
  BY DEF Step, In, all, others, after7, after8, after10, after11, after15, after18,
     T!vars
<1>3. [Step]_all /\ ~In("transfers") => ~In("transfers")'
  BY DEF Step, In, all
<1> QED BY <1>1, <1>2, <1>3, PTL DEF Services, T!Spec

\* Groups stay pairs on two accounts, whatever is detected, linked, unlinked and
\* deleted at once, but for those that history marks.
THEOREM PairsWholeHere == Services => []PairsWhole
<1>1. T!Spec => []T!PairsWhole
  BY ServicesOK, T!PairsStayWhole DEF ServicesOK
<1>2. T!PairsWhole \/ ~In("transfers") => PairsWhole
  BY DEF PairsWhole, Of, In
<1> QED BY <1>1, <1>2, TransfersOnly, PTL

-----------------------------------------------------------------------------
(* The parts of transactions and accounts.                                 *)

LEMMA SharingOnly == Services => (In("cost_sharing") /\ CS!C!Spec) \/ []~In("cost_sharing")
<1>1. Start /\ In("cost_sharing") => CS!C!Init
  BY DEF Start, In
<1>2. [Step]_all /\ In("cost_sharing") => [CS!C!Next]_(CS!C!vars) /\ In("cost_sharing")'
  BY DEF Step, In, all, others, after7, after8, after10, after11, after15, after18,
     CS!C!vars
<1>3. [Step]_all /\ ~In("cost_sharing") => ~In("cost_sharing")'
  BY DEF Step, In, all
<1> QED BY <1>1, <1>2, <1>3, PTL DEF Services, CS!C!Spec

\* Lines and shares add up to what they divide, but for a whole that two
\* requests have divided at once or a participant has left.
THEOREM DivisionsAddUpHere == Services => []DivisionsAddUp
<1>1. CS!C!Spec => [](CS!C!LinesAddUp /\ CS!C!SharesAddUp)
  BY ServicesOK, CS!DivisionsHold DEF ServicesOK
<1>2. (CS!C!LinesAddUp /\ CS!C!SharesAddUp) \/ ~In("cost_sharing") => DivisionsAddUp
  BY DEF DivisionsAddUp, Of, In
<1> QED BY <1>1, <1>2, SharingOnly, PTL

-----------------------------------------------------------------------------
(* Categories.                                                             *)

LEMMA LabelsOnly == Services => (In("categories") /\ CA!A!Spec) \/ []~In("categories")
<1>1. Start /\ In("categories") => CA!A!Init
  BY DEF Start, In
<1>2. [Step]_all /\ In("categories") => [CA!A!Next]_(CA!A!vars) /\ In("categories")'
  BY DEF Step, In, all, others, after7, after8, after10, after11, after15, after18,
     CA!A!vars
<1>3. [Step]_all /\ ~In("categories") => ~In("categories")'
  BY DEF Step, In, all
<1> QED BY <1>1, <1>2, <1>3, PTL DEF Services, CA!A!Spec

\* What the user chose outlives every rule, import and answer of a model.
THEOREM ManualStaysHere == Services => []ManualKept
<1>1. CA!A!Spec => []CA!A!ManualKept
  BY ServicesOK, CA!ManualStays DEF ServicesOK
<1>2. CA!A!ManualKept \/ ~In("categories") => ManualKept
  BY DEF ManualKept, Of, In
<1> QED BY <1>1, <1>2, LabelsOnly, PTL

-----------------------------------------------------------------------------
(* Schedule changes.                                                       *)

LEMMA ChangesOnly == Services => (In("schedule_changes") /\ CL!L!Spec) \/ []~In("schedule_changes")
<1>1. Start /\ In("schedule_changes") => CL!L!Init
  BY DEF Start, In
<1>2. [Step]_all /\ In("schedule_changes") => [CL!L!Next]_(CL!L!vars) /\ In("schedule_changes")'
  BY DEF Step, In, all, others, after7, after8, after10, after11, after15, after18,
     CL!L!vars
<1>3. [Step]_all /\ ~In("schedule_changes") => ~In("schedule_changes")'
  BY DEF Step, In, all
<1> QED BY <1>1, <1>2, <1>3, PTL DEF Services, CL!L!Spec

\* However many callers promote at once, no change is folded in twice.
THEOREM FoldsOnceHere == Services => []FoldedOnce
<1>1. CL!L!Spec => []CL!L!FoldedOnce
  BY ServicesOK, CL!FoldsOnce DEF ServicesOK
<1>2. CL!L!FoldedOnce \/ ~In("schedule_changes") => FoldedOnce
  BY DEF FoldedOnce, Of, In
<1> QED BY <1>1, <1>2, ChangesOnly, PTL

\* A field is as the latest applied change says, but for promotions that
\* overlapped and changes added behind a later one.
THEOREM LatestStaysHere == Services => []LatestWins
<1>1. CL!L!Spec => []CL!L!LatestWins
  BY ServicesOK, CL!LatestIsKept DEF ServicesOK
<1>2. CL!L!LatestWins \/ ~In("schedule_changes") => LatestWins
  BY DEF LatestWins, Of, In
<1> QED BY <1>1, <1>2, ChangesOnly, PTL

-----------------------------------------------------------------------------
(* The review of recurring charges.                                        *)

LEMMA ReviewOnly == Services => (In("recurring") /\ RD!D!Spec) \/ []~In("recurring")
<1>1. Start /\ In("recurring") => RD!D!Init
  BY DEF Start, In
<1>2. [Step]_all /\ In("recurring") => [RD!D!Next]_(RD!D!vars) /\ In("recurring")'
  BY DEF Step, In, all, others, after7, after8, after10, after11, after15, after18,
     RD!D!vars
<1>3. [Step]_all /\ ~In("recurring") => ~In("recurring")'
  BY DEF Step, In, all
<1> QED BY <1>1, <1>2, <1>3, PTL DEF Services, RD!D!Spec

\* A suggestion has its one bill exactly when confirmed and is not made again
\* once answered, but for requests that overlapped.
THEOREM AnswersStandHere == Services => []AnswersStand
<1>1. RD!D!Spec => []RD!D!AnswersStand
  BY ServicesOK, RD!AnswersAreKept DEF ServicesOK
<1>2. RD!D!AnswersStand \/ ~In("recurring") => AnswersStand
  BY DEF AnswersStand, Of, In
<1> QED BY <1>1, <1>2, ReviewOnly, PTL

-----------------------------------------------------------------------------
(* Backups.                                                                *)

LEMMA RestoresOnly == Services => (In("backup_restore") /\ BR!Spec) \/ []~In("backup_restore")
<1>1. Start /\ In("backup_restore") => BR!Init
  BY DEF Start, In
<1>2. [Step]_all /\ In("backup_restore") => [BR!Next]_(BR!vars) /\ In("backup_restore")'
  BY DEF Step, In, all, others, after7, after8, after10, after11, after15, after18,
     BR!vars
<1>3. [Step]_all /\ ~In("backup_restore") => ~In("backup_restore")'
  BY DEF Step, In, all
<1> QED BY <1>1, <1>2, <1>3, PTL DEF Services, BR!Spec

LEMMA PrunesOnly == Services => (In("backup_prune") /\ BP!Spec) \/ []~In("backup_prune")
<1>1. Start /\ In("backup_prune") => BP!Init
  BY DEF Start, In
<1>2. [Step]_all /\ In("backup_prune") => [BP!Next]_(BP!vars) /\ In("backup_prune")'
  BY DEF Step, In, all, others, after7, after8, after10, after11, after15, after18,
     BP!vars
<1>3. [Step]_all /\ ~In("backup_prune") => ~In("backup_prune")'
  BY DEF Step, In, all
<1> QED BY <1>1, <1>2, <1>3, PTL DEF Services, BP!Spec

\* Every attachment row has its file after any backups, uploads, deletions and
\* restores, but for those that history marks.
THEOREM RestoresWholeHere == Services => []RestoredWhole
<1>1. BR!Spec => []BR!RestoredWhole
  BY ServicesOK, BR!RestoresWhole DEF ServicesOK
<1>2. BP!Spec => []BP!RestoredWhole
  BY ServicesOK, BP!RestoresWhole DEF ServicesOK
<1>3. (BR!RestoredWhole \/ ~In("backup_restore")) /\ (BP!RestoredWhole \/ ~In("backup_prune"))
        => RestoredWhole
  BY DEF RestoredWhole, OfBackups, Of, In
<1> QED BY <1>1, <1>2, <1>3, RestoresOnly, PrunesOnly, PTL

\* While no administrator deletes or restores, a success is left to restore.
THEOREM LastGoodKeptHere == Services => []LastGoodKept
<1>1. BR!Spec => []BR!LastGoodKept
  BY ServicesOK, BR!LastGoodStays DEF ServicesOK
<1>2. BP!Spec => []BP!LastGoodKept
  BY ServicesOK, BP!LastGoodStays DEF ServicesOK
<1>3. (BR!LastGoodKept \/ ~In("backup_restore")) /\ (BP!LastGoodKept \/ ~In("backup_prune"))
        => LastGoodKept
  BY DEF LastGoodKept, OfBackups, Of, In
<1> QED BY <1>1, <1>2, <1>3, RestoresOnly, PrunesOnly, PTL

-----------------------------------------------------------------------------
(* Staged batches.                                                         *)

LEMMA StagedOnly == Services => (In("staged") /\ SB!G!Spec) \/ []~In("staged")
<1>1. Start /\ In("staged") => SB!G!Init
  BY DEF Start, In
<1>2. [Step]_all /\ In("staged") => [SB!G!Next]_(SB!G!vars) /\ In("staged")'
  BY DEF Step, In, all, others, after7, after8, after10, after11, after15, after18,
     SB!G!vars
<1>3. [Step]_all /\ ~In("staged") => ~In("staged")'
  BY DEF Step, In, all
<1> QED BY <1>1, <1>2, <1>3, PTL DEF Services, SB!G!Spec

\* Whatever the plan, a batch that one request applies and one undoes, beside
\* nobody, is what its two buttons say.
THEOREM UndoIsInverseHere == Services => []UndoIsInverse
<1>1. SB!G!Spec => []SB!G!UndoIsInverse
  BY ServicesOK, SB!UndoInverts DEF ServicesOK
<1>2. SB!G!UndoIsInverse \/ ~In("staged") => UndoIsInverse
  BY DEF UndoIsInverse, Of, In
<1> QED BY <1>1, <1>2, StagedOnly, PTL

-----------------------------------------------------------------------------
(* Receipts and keys.                                                      *)

LEMMA KeysOnly == Services => (In("keys") /\ K!Spec) \/ []~In("keys")
<1>1. Start /\ In("keys") => K!Init
  BY DEF Start, In
<1>2. [Step]_all /\ In("keys") => [K!Next]_(K!vars) /\ In("keys")'
  BY DEF Step, In, all, others, after7, after8, after10, after11, after15, after18,
     K!vars, K!keys, K!files, K!ocrVars, K!requestVars, K!rotationVars,
     K!kekVars, K!server, K!bounds, K!history
<1>3. [Step]_all /\ ~In("keys") => ~In("keys")'
  BY DEF Step, In, all
<1> QED BY <1>1, <1>2, <1>3, PTL DEF Services, K!Spec

\* A stored receipt is under the key its row points at, but for what overlapping
\* or interrupted rotations are known to leave behind.
THEOREM FilesHeldHere == Services => []FilesHeld
<1>1. K!Spec => []K!FilesHeld
  BY ServicesOK, K!FilesStayHeld DEF ServicesOK
<1>2. K!FilesHeld \/ ~In("keys") => FilesHeld
  BY DEF FilesHeld, Of, In
<1> QED BY <1>1, <1>2, KeysOnly, PTL

\* What is wrapped is under one master key, but for what a server on another
\* wrapped.
THEOREM KeysFollowHere == Services => []KeysFollow
<1>1. K!Spec => []K!KeysFollow
  BY ServicesOK, K!KeysKeepFollowing DEF ServicesOK
<1>2. K!KeysFollow \/ ~In("keys") => KeysFollow
  BY DEF KeysFollow, Of, In
<1> QED BY <1>1, <1>2, KeysOnly, PTL

-----------------------------------------------------------------------------
(* Households, whose invariant holds wherever a behaviour starts.          *)

LEMMA HouseholdsToo == Services => []Inv /\ [][Next]_vars
<1>1. Start => Inv
  BY ServicesOK, InitHolds, SettledHolds DEF Start, ServicesOK
<1>2. [Step]_all => [Next]_vars
  BY DEF Step, all
<1>3. Inv /\ [Next]_vars => Inv'
  BY ServicesOK, InvNext, InvStutter DEF ServicesOK
<1> QED BY <1>1, <1>2, <1>3, PTL DEF Services

\* Of a household that is there from the start or is founded, a user founds one.
THEOREM OneHouseholdHere == Services => []OneHousehold
<1>1. Inv => OneHousehold
  BY DEF Inv, Founding
<1> QED BY <1>1, HouseholdsToo, PTL

\* A session stands only in a household its user is in, but between the two
\* statements of a removal and for those an overlapping switch or login wrote.
THEOREM SessionsInsideHere == Services => []SessionsInside
<1>1. Inv => SessionsInside
  BY DEF Inv
<1> QED BY <1>1, HouseholdsToo, PTL

\* A reset ends every session of before it, but for logins that were under way.
THEOREM OldPasswordsOutHere == Services => []OldPasswordOut
<1>1. Inv => OldPasswordOut
  BY DEF Inv
<1> QED BY <1>1, HouseholdsToo, PTL

\* Who joins founds the household or uses up an invitation into it.
THEOREM JoiningConsumesHere == Services => JoiningConsumes
<1>1. Inv /\ [Next]_vars => [JoinsByInvitation]_vars
  BY ServicesOK, InvNext DEF ServicesOK, Moderate
<1> QED BY <1>1, HouseholdsToo, PTL DEF JoiningConsumes

\* No household loses its last administrator and stays, but for departures that
\* did not see each other.
THEOREM AdminRemainsHere == Services => AdminRemains
<1>1. Inv /\ [Next]_vars => [LastAdminOut]_vars
  BY ServicesOK, InvNext DEF ServicesOK, Moderate
<1> QED BY <1>1, HouseholdsToo, PTL DEF AdminRemains

-----------------------------------------------------------------------------
(* Types.                                                                  *)

\* Every variable of every service keeps its type.
THEOREM TypesHere == Services => []Types
<1>1. Inv => TypeOK
  BY ServicesOK, InvTypes DEF ServicesOK
<1>2. S!Spec => []S!TypeOK
  BY ServicesOK, S!SubscriptionTypes DEF ServicesOK
<1>3. T!Spec => []T!TypeOK
  BY ServicesOK, T!TransferTypes DEF ServicesOK
<1>4. CS!C!Spec => []CS!C!TypeOK
  BY ServicesOK, CS!ShareTypesHold DEF ServicesOK
<1>5. CA!A!Spec => []CA!A!TypeOK
  BY ServicesOK, CA!CategoryTypes DEF ServicesOK
<1>6. CL!L!Spec => []CL!L!TypeOK
  BY ServicesOK, CL!ChangeTypes DEF ServicesOK
<1>7. RD!D!Spec => []RD!D!TypeOK
  BY ServicesOK, RD!ReviewTypes DEF ServicesOK
<1>8. BR!Spec => []BR!TypeOK
  BY ServicesOK, BR!BackupTypes DEF ServicesOK
<1>9. BP!Spec => []BP!TypeOK
  BY ServicesOK, BP!BackupTypes DEF ServicesOK
<1>10. K!Spec => []K!TypeOK
  BY ServicesOK, K!AttachmentTypes DEF ServicesOK
<1>11. SB!G!Spec => []SB!G!TypeOK
  BY ServicesOK, SB!StagedTypes DEF ServicesOK
<1>12. (/\ TypeOK
        /\ S!TypeOK \/ ~In("subscriptions")
        /\ T!TypeOK \/ ~In("transfers")
        /\ CS!C!TypeOK \/ ~In("cost_sharing")
        /\ CA!A!TypeOK \/ ~In("categories")
        /\ CL!L!TypeOK \/ ~In("schedule_changes")
        /\ RD!D!TypeOK \/ ~In("recurring")
        /\ BR!TypeOK \/ ~In("backup_restore")
        /\ BP!TypeOK \/ ~In("backup_prune")
        /\ SB!G!TypeOK \/ ~In("staged")
        /\ K!TypeOK \/ ~In("keys")) => Types
  BY DEF Types, OfBackups, Of, In
<1> QED BY <1>1, <1>2, <1>3, <1>4, <1>5, <1>6, <1>7, <1>8, <1>9, <1>10, <1>11, <1>12,
         SubscriptionsOnly, TransfersOnly, SharingOnly, LabelsOnly,
         ChangesOnly, ReviewOnly, RestoresOnly, PrunesOnly, StagedOnly, KeysOnly,
         HouseholdsToo, PTL

=============================================================================
