--------------------------- MODULE ScheduleChanges ---------------------------
(***************************************************************************)
(* Future-effective changes of one bill or recurring income                *)
(* (domain/schedule-changes.ts, routes/schedule-changes.ts).               *)
(*                                                                         *)
(* A change replaces the amount, the frequency or both from its date on.   *)
(* Whoever lists the changes first promotes the due ones: a transaction    *)
(* locks those no other promotion has locked, folds them into the parent   *)
(* row in order of date, and marks them applied.  A value is identified    *)
(* with the change that set it; 0 stands for the user's own.               *)
(***************************************************************************)
EXTENDS Integers, FiniteSets

CONSTANTS
    Callers,        \* requests that list changes
    MaxChanges,     \* bound: changes ever added
    MaxDay,         \* bound: the clock
    MaxEdits        \* bound: edits of the parent row by the user

ChangesOK == MaxChanges \in Nat /\ MaxDay \in Nat /\ MaxEdits \in Nat

Fields == {"amount", "frequency"}
Ids == 1..MaxChanges

VARIABLES
    today,
    changes,        \* recurring_schedule_changes, by creation
    created,        \* how many were ever created
    applied,        \* those with applied_at
    parent,         \* the fields of the bill or income row
    pc, batch,      \* a promotion and the rows it has locked
    edits,
    uses,           \* history: how often a change was folded in
    late,           \* history: changes added when a later one was being or had been applied
    crossed         \* history: changes of promotions that overlapped another
vars == <<today, changes, created, applied, parent, pc, batch, edits, uses, late, crossed>>

Change == [due : 1..MaxDay, sets : SUBSET Fields \ {{}}]
Locked == UNION {batch[p] : p \in Callers}

TypeOK ==
    /\ DOMAIN changes \subseteq 1..created /\ \A c \in DOMAIN changes : changes[c] \in Change
    /\ applied \cup Locked \subseteq DOMAIN changes
    /\ \A f \in Fields : parent[f] \in {0} \cup {c \in applied : f \in changes[c].sets}
    /\ \A p \in Callers : pc[p] = "idle" => batch[p] = {}

Init ==
    /\ today = 1 /\ changes = [c \in {} |-> {}] /\ created = 0 /\ applied = {}
    /\ parent = [f \in Fields |-> 0]
    /\ pc = [p \in Callers |-> "idle"] /\ batch = [p \in Callers |-> {}]
    /\ edits = 0 /\ uses = [c \in Ids |-> 0] /\ late = {} /\ crossed = {}

-----------------------------------------------------------------------------

\* ORDER BY effective_date, created_at
After(d, c) == changes[d].due > changes[c].due \/ (changes[d].due = changes[c].due /\ d > c)
Setting(S, f) == {c \in S : f \in changes[c].sets}

\* POST: any date will do, a past one too.
Add(due, sets) ==
    /\ created < MaxChanges
    /\ created' = created + 1
    /\ changes' = [c \in DOMAIN changes \cup {created'} |->
                     IF c = created' THEN [due |-> due, sets |-> sets] ELSE changes[c]]
    /\ late' = IF \E c \in applied \cup Locked : changes[c].due > due
               THEN late \cup {created'} ELSE late
    /\ UNCHANGED <<today, applied, parent, pc, batch, edits, uses, crossed>>

\* DELETE of a change not yet applied.  It waits for a promotion that holds
\* the row, and then finds it applied.
Delete(c) ==
    /\ c \in DOMAIN changes \ (applied \cup Locked)
    /\ changes' = [d \in DOMAIN changes \ {c} |-> changes[d]]
    /\ UNCHANGED <<today, created, applied, parent, pc, batch, edits, uses, late, crossed>>

\* PATCH of the bill or income itself.
Edit(f) ==
    /\ edits < MaxEdits /\ edits' = edits + 1
    /\ parent[f] # 0 /\ parent' = [parent EXCEPT ![f] = 0]
    /\ UNCHANGED <<today, changes, created, applied, pc, batch, uses, late, crossed>>

Due == {c \in DOMAIN changes \ applied : changes[c].due <= today}

\* The outcome of a SELECT that has locked the rows S.
Take(p, S) ==
    /\ pc[p] = "idle"
    /\ pc' = [pc EXCEPT ![p] = "apply"]
    /\ batch' = [batch EXCEPT ![p] = S]
    /\ crossed' = IF \E q \in Callers \ {p} : pc[q] = "apply"
                  THEN crossed \cup S \cup Locked ELSE crossed
    /\ UNCHANGED <<today, changes, created, applied, parent, edits, uses, late>>

\* A mutant of Look: the candidate rows are not locked.
LookUnlocked(p) == Due # {} /\ Take(p, Due)

\* SELECT ... FOR UPDATE SKIP LOCKED
Look(p) == Due # {} /\ Take(p, Due \ Locked)

\* A mutant of Last: the changes are folded in with the latest first.
LastReversed(S, f) == CHOOSE c \in Setting(S, f) : \A d \in Setting(S, f) \ {c} : After(d, c)

\* The change among S that sets f last.
Last(S, f) == CHOOSE c \in Setting(S, f) : \A d \in Setting(S, f) \ {c} : After(c, d)

\* The loop of promoteDueChanges and its COMMIT.
Apply(p) ==
    /\ pc[p] = "apply"
    /\ parent' = [f \in Fields |->
                    IF Setting(batch[p], f) = {} THEN parent[f] ELSE Last(batch[p], f)]
    /\ applied' = applied \cup batch[p]
    /\ uses' = [c \in Ids |-> IF c \in batch[p] THEN uses[c] + 1 ELSE uses[c]]
    /\ pc' = [pc EXCEPT ![p] = "idle"] /\ batch' = [batch EXCEPT ![p] = {}]
    /\ UNCHANGED <<today, changes, created, edits, late, crossed>>

\* A statement fails or the server stops: nothing was committed.
Rollback(p) ==
    /\ pc[p] = "apply"
    /\ pc' = [pc EXCEPT ![p] = "idle"] /\ batch' = [batch EXCEPT ![p] = {}]
    /\ UNCHANGED <<today, changes, created, applied, parent, edits, uses, late, crossed>>

Tomorrow ==
    /\ today < MaxDay /\ today' = today + 1
    /\ UNCHANGED <<changes, created, applied, parent, pc, batch, edits, uses, late, crossed>>

Next ==
    \/ \E due \in 1..MaxDay, sets \in SUBSET Fields \ {{}} : Add(due, sets)
    \/ \E c \in Ids : Delete(c)
    \/ \E f \in Fields : Edit(f)
    \/ \E p \in Callers : Look(p) \/ Apply(p) \/ Rollback(p)
    \/ Tomorrow

Spec == Init /\ [][Next]_vars

-----------------------------------------------------------------------------
(* Properties.                                                             *)

\* "Lock the candidate rows so a parallel caller doesn't double-apply": no
\* change is folded in twice, so none comes back over a later edit.
FoldedOnce == \A c \in Ids : uses[c] <= 1

\* A field a change has set is the one the latest applied change gives it,
\* unless promotions overlapped (the one that locked the older rows may commit
\* last) or an older change was added after a later one.
LatestWins ==
    \A f \in Fields :
      parent[f] # 0 =>
        \A d \in Setting(applied, f) \ {parent[f]} :
          After(parent[f], d) \/ {parent[f], d} \cap (crossed \cup late) # {}

=============================================================================
