---------------------------- MODULE Categorisation ----------------------------
(***************************************************************************)
(* What category a transaction gets.  Many writers share                   *)
(* transactions.category_id and normalization_status: the user's edits,    *)
(* the rules after an import, the rules applied on request, the AI         *)
(* normaliser, which reads the rows, asks a model and writes minutes       *)
(* later, the resolution of the categories it proposed, the bill matcher,  *)
(* and the assistant's tools with their undo.  Only the status 'manual',   *)
(* looked at by the UPDATEs of the first four, protects the user's edit.   *)
(*                                                                         *)
(* "none" stands for no category and for 'Uncategorized'.  A rule's        *)
(* pattern is the set of transactions it fits.  At boot, categories of one *)
(* name are merged: nothing here, where a category is its name.            *)
(***************************************************************************)
EXTENDS Integers, Sequences, FiniteSets

CONSTANTS
    Txns, Cats,
    Rules,            \* a sequence, in ascending priority
    Fits,             \* the transactions a rule's pattern fits
    Verbatim,         \* the rule whose pattern is a transaction's description
    Proposals,        \* categories the model may propose that are not there
    Requests,
    Loaded,           \* the transactions there were before migration 017, ...
    LoadedTag,        \* ... tagged with a proposal of then
    MaxSuggestions, MaxStarts         \* bounds

RuleIds == {Rules[i] : i \in 1..Len(Rules)}
NoJob == [ids |-> {}, rules |-> <<>>, all |-> FALSE, names |-> {}, result |-> <<>>,
          suggestion |-> 0, to |-> "none", saved |-> <<>>]
NoRule == [there |-> FALSE, on |-> FALSE, to |-> "none", named |-> FALSE]
Unmade == [in |-> FALSE, cat |-> "none", status |-> "pending", tag |-> "none"]
Deleted == [Unmade EXCEPT !.status = "deleted"]

CategorisationOK ==
    /\ Proposals \subseteq Cats /\ LoadedTag \in Proposals /\ Loaded \subseteq Txns
    /\ {"none", "open"} \cap Cats = {}
    /\ Fits \in [RuleIds -> SUBSET Txns] /\ Verbatim \in [Txns -> RuleIds]
    /\ \A t \in Txns : t \in Fits[Verbatim[t]]

VARIABLES
    row,              \* transactions
    cat,              \* categories: "unused", "live", "gone"
    rule,             \* normalization_rules
    suggestions,      \* category_suggestions; mine: has the household's id
    pc, job,
    starts,
    chosen            \* history: the category a user's edit, or a bill since, left on a row,
                      \* "open" if the user has since let others decide
vars == <<row, cat, rule, suggestions, pc, job, starts, chosen>>

Live == {c \in Cats : cat[c] = "live"}

TypeOK ==
    /\ \A t \in Txns : /\ row[t].cat \in Live \cup {"none"}
                       /\ row[t].status \in {"pending", "normalized", "manual", "deleted"}
                       /\ row[t].tag \in Proposals \cup {"none"}
    /\ \A q \in RuleIds : /\ rule[q].to \in Live \cup {"none"}
                          /\ rule[q].there => rule[q].named \/ rule[q].to # "none"
    /\ \A i, j \in 1..Len(suggestions) :
         (/\ suggestions[i].name = suggestions[j].name
          /\ suggestions[i].status = "pending" /\ suggestions[j].status = "pending") => i = j
    /\ \A r \in Requests : pc[r] = "idle" => job[r] = NoJob
    /\ chosen \in [Txns -> Cats \cup {"none", "open"}]

Init ==
    /\ row = [t \in Txns |->
                IF t \in Loaded THEN [in |-> TRUE, cat |-> "none",
                                      status |-> "normalized", tag |-> LoadedTag]
                ELSE Unmade]
    /\ cat = [c \in Cats |-> IF c \in Proposals THEN "unused" ELSE "live"]
    /\ rule \in [RuleIds -> {NoRule} \cup
                   {[there |-> TRUE, on |-> TRUE, to |-> c, named |-> FALSE] : c \in Live}]
    /\ suggestions = <<[name |-> LoadedTag, status |-> "pending", mine |-> TRUE]>>
    /\ pc = [r \in Requests |-> "idle"] /\ job = [r \in Requests |-> NoJob]
    /\ starts = 0
    /\ chosen = [t \in Txns |-> "open"]

\* A request; that is all of it if it is one statement.
Act == starts < MaxStarts /\ starts' = starts + 1
Start(r, stage, j) ==
    /\ pc[r] = "idle" /\ Act
    /\ pc' = [pc EXCEPT ![r] = stage] /\ job' = [job EXCEPT ![r] = j]
Become(r, stage, j) ==
    /\ pc' = [pc EXCEPT ![r] = stage] /\ job' = [job EXCEPT ![r] = j]
    /\ starts' = starts
Finish(r) == Become(r, "idle", NoJob)

-----------------------------------------------------------------------------
(* The rules: after an import, and on request.                             *)

Import(r, t) ==
    /\ row[t] = Unmade
    /\ row' = [row EXCEPT ![t] = [Unmade EXCEPT !.in = TRUE]]
    /\ Start(r, "rules", [NoJob EXCEPT !.ids = {t}])
    /\ UNCHANGED <<cat, rule, suggestions, chosen>>

\* The enabled rules among S, as they are now, the weakest first.
Enabled(S) ==
    LET on(q) == q \in S /\ rule[q].there /\ rule[q].on
        snapshot == [i \in 1..Len(Rules) |-> [id |-> Rules[i], to |-> rule[Rules[i]].to]]
    IN SelectSeq(snapshot, LAMBDA s : on(s.id))

ReadRules(r) ==
    /\ pc[r] = "rules"
    /\ Become(r, "apply", [job[r] EXCEPT !.rules = Enabled(RuleIds)])
    /\ UNCHANGED <<row, cat, rule, suggestions, chosen>>

\* POST /api/normalization-rules/apply: any transaction, S or all the rules.
Apply(r, S, includeManual) ==
    /\ Start(r, "apply", [NoJob EXCEPT !.ids = Txns, !.rules = Enabled(S),
                                       !.all = includeManual])
    /\ UNCHANGED <<row, cat, rule, suggestions, chosen>>

\* A mutant of Protected: an automatic pass that forgets the status.
Forgotten(t) == FALSE
Protected(t) == row[t].status = "manual"

\* One UPDATE for each rule.  The category may be gone by then: the statement
\* fails, and the rules after it are not applied.
ApplyRule(r) ==
    /\ pc[r] = "apply" /\ job[r].rules # <<>>
    /\ LET q == Head(job[r].rules)
           hit == {t \in job[r].ids \cap Fits[q.id] :
                     row[t].in /\ (job[r].all \/ ~Protected(t))}
       IN IF hit # {} /\ q.to # "none" /\ q.to \notin Live
          THEN Finish(r) /\ UNCHANGED <<row, chosen>>
          ELSE /\ row' = [t \in Txns |->
                    IF t \notin hit THEN row[t]
                    ELSE [row[t] EXCEPT !.status = "normalized",
                            !.cat = IF q.to = "none" THEN @ ELSE q.to]]
               /\ Become(r, "apply", [job[r] EXCEPT !.rules = Tail(@)])
               /\ chosen' = [t \in Txns |-> IF t \in hit /\ job[r].all THEN "open"
                                            ELSE chosen[t]]
    /\ UNCHANGED <<cat, rule, suggestions>>

Applied(r) ==
    /\ pc[r] = "apply" /\ job[r].rules = <<>>
    /\ Finish(r) /\ UNCHANGED <<row, cat, rule, suggestions, chosen>>

-----------------------------------------------------------------------------
(* The AI normaliser.                                                      *)

\* All the rows of the mode: the limit and the account of a call are left out.
AIBegin(r, mode) ==
    /\ LET ids == {t \in Txns : /\ row[t].in
                                /\ row[t].status \in {"pending"} \cup
                                     (IF mode = "all" THEN {"normalized"} ELSE {})}
       IN ids # {} /\ Start(r, "ask", [NoJob EXCEPT !.ids = ids, !.names = Live])
    /\ UNCHANGED <<row, cat, rule, suggestions, chosen>>

\* The names the model may choose from were read before it was asked, the ids
\* they stand for after: a category deleted meanwhile becomes "none", one
\* made meanwhile is a proposal.
AIAnswer(r) ==
    /\ pc[r] = "ask"
    /\ \E answer \in [job[r].ids -> job[r].names \cup (Proposals \ job[r].names) \cup {"none"}] :
         Become(r, "write", [job[r] EXCEPT !.result =
           [t \in job[r].ids |->
              IF answer[t] \in job[r].names
              THEN [to |-> IF answer[t] \in Live THEN answer[t] ELSE "none", tag |-> "none"]
              ELSE [to |-> "none", tag |-> answer[t]]]])
    /\ UNCHANGED <<row, cat, rule, suggestions, chosen>>

Wrote(r, t) ==
    IF job[r].result[t].tag # "none" THEN Become(r, "capture", [job[r] EXCEPT !.ids = {t}])
    ELSE IF DOMAIN job[r].result = {t} THEN Finish(r)
    ELSE Become(r, "write", [job[r] EXCEPT
           !.result = [u \in DOMAIN @ \ {t} |-> @[u]], !.ids = @ \ {t}])

\* A statement that fails is counted, and the next row's turn comes.
AIWrite(r, t) ==
    /\ pc[r] = "write" /\ t \in DOMAIN job[r].result
    /\ LET a == job[r].result[t]
       IN row' = IF row[t].in /\ ~Protected(t) /\ a.to \in Live \cup {"none"}
                 THEN [row EXCEPT ![t].cat = a.to, ![t].status = "normalized",
                                  ![t].tag = a.tag]
                 ELSE row
    /\ Wrote(r, t)
    /\ UNCHANGED <<cat, rule, suggestions, chosen>>

\* The proposal, without the household's id, unless one is pending.
Capture(r, t) ==
    /\ pc[r] = "capture" /\ job[r].ids = {t}
    /\ LET name == job[r].result[t].tag
           rest == DOMAIN job[r].result \ {t}
           pending == \E i \in 1..Len(suggestions) :
                        suggestions[i].name = name /\ suggestions[i].status = "pending"
       IN /\ pending \/ Len(suggestions) < MaxSuggestions
          /\ suggestions' = IF pending THEN suggestions
                            ELSE Append(suggestions, [name |-> name, status |-> "pending",
                                                      mine |-> FALSE])
          /\ IF rest = {} THEN Finish(r)
             ELSE Become(r, "write", [job[r] EXCEPT
                    !.result = [u \in rest |-> @[u]], !.ids = rest])
    /\ UNCHANGED <<row, cat, rule, chosen>>

-----------------------------------------------------------------------------
(* The proposals.                                                          *)

\* Only a row with the household's id is found.  `to' is the category to merge
\* it with, "approve" or "reject".
ResolveRead(r, i, to) ==
    /\ suggestions[i].mine /\ suggestions[i].status = "pending"
    /\ to \in Live \cup {"approve", "reject"}
    /\ Start(r, "resolve", [NoJob EXCEPT !.suggestion = i, !.to = to])
    /\ UNCHANGED <<row, cat, rule, suggestions, chosen>>

\* The transaction does not look at the status again, nor at the rows': those
\* tagged with the name are its category's.  (A category of a name is made
\* once: approving a name that is gone is left out.)
Relink(name, c) ==
    /\ row' = [t \in Txns |->
                 IF ~row[t].in \/ row[t].tag # name THEN row[t]
                 ELSE IF c = "reject" THEN [row[t] EXCEPT !.tag = "none"]
                 ELSE [row[t] EXCEPT !.cat = c, !.tag = "none", !.status = "normalized"]]
    /\ chosen' = [t \in Txns |->
                    IF row[t].in /\ row[t].tag = name /\ c # "reject" THEN "open"
                    ELSE chosen[t]]

Resolve(r) ==
    /\ pc[r] = "resolve"
    /\ LET i == job[r].suggestion
           name == suggestions[i].name
           resolved(status) == suggestions' = [suggestions EXCEPT ![i].status = status]
       IN \/ /\ job[r].to = "approve" /\ cat[name] = "unused"
             /\ cat' = [cat EXCEPT ![name] = "live"]
             /\ resolved("approved") /\ Relink(name, name)
          \/ /\ job[r].to = "approve" /\ cat[name] = "live"
             /\ UNCHANGED <<row, cat, suggestions, chosen>>
          \/ /\ job[r].to = "reject"
             /\ resolved("rejected") /\ Relink(name, "reject") /\ cat' = cat
          \/ /\ job[r].to \in Live
             /\ resolved("merged") /\ Relink(name, job[r].to) /\ cat' = cat
          \/ /\ job[r].to \in Cats \ Live
             /\ UNCHANGED <<row, cat, suggestions, chosen>>
    /\ Finish(r)
    /\ rule' = rule

-----------------------------------------------------------------------------
(* The bill matcher and the assistant, which write the category alone.     *)

\* The category of a bill a transaction is linked to, if it has none: the
\* status is not looked at.
MatchFill(t, c) ==
    /\ Act /\ row[t].in /\ row[t].cat = "none" /\ c \in Live
    /\ row' = [row EXCEPT ![t].cat = c]
    /\ chosen' = [chosen EXCEPT ![t] = IF @ = "open" THEN @ ELSE c]
    /\ UNCHANGED <<cat, rule, suggestions, pc, job>>

\* What the tools write, at the user's word: a row the user's edit protects
\* stays so.  A name that is no category's is "none".
Retag(S, c) ==
    LET to == IF c \in Live THEN c ELSE "none" IN
    /\ row' = [t \in Txns |-> IF t \in S THEN [row[t] EXCEPT !.cat = to] ELSE row[t]]
    /\ chosen' = [t \in Txns |-> IF t \in S /\ chosen[t] # "open" THEN to ELSE chosen[t]]

\* update_transaction_category and bulk_recategorize, called in a conversation.
Recategorise(S, c) ==
    /\ Act /\ S # {} /\ \A t \in S : row[t].in
    /\ Retag(S, c)
    /\ UNCHANGED <<cat, rule, suggestions, pc, job>>

\* A staged batch: the row as it is, for an inverse, then the tool, then an
\* undo at any time, which two requests may have read the batch for.
StageLook(r, t, c) ==
    /\ row[t].in
    /\ Start(r, "staged", [NoJob EXCEPT !.ids = {t}, !.to = c, !.saved = row[t]])
    /\ UNCHANGED <<row, cat, rule, suggestions, chosen>>

StageWrite(r, t) ==
    /\ pc[r] = "staged" /\ job[r].ids = {t} /\ row[t].in
    /\ Retag({t}, job[r].to)
    /\ Become(r, "applied", job[r])
    /\ UNCHANGED <<cat, rule, suggestions>>

\* Category and status come back, unless the category has gone since.
StageUndo(r, t) ==
    /\ pc[r] = "applied" /\ job[r].ids = {t}
    /\ LET was == job[r].saved IN
         IF row[t].in /\ was.cat \in Live \cup {"none"}
         THEN /\ row' = [row EXCEPT ![t].cat = was.cat, ![t].status = was.status]
              /\ chosen' = [chosen EXCEPT ![t] = IF was.status = "manual" THEN was.cat
                                                 ELSE "open"]
         ELSE UNCHANGED <<row, chosen>>
    /\ Finish(r) \/ Become(r, "applied", job[r])
    /\ UNCHANGED <<cat, rule, suggestions>>

-----------------------------------------------------------------------------
(* The user: transactions, rules and categories.                           *)

\* One or several transactions; c may be "none".
Edit(S, c) ==
    /\ Act /\ S # {} /\ \A t \in S : row[t].in
    /\ c \in Live \cup {"none"}
    /\ row' = [t \in Txns |-> IF t \in S THEN [row[t] EXCEPT !.cat = c, !.status = "manual"]
                                         ELSE row[t]]
    /\ chosen' = [t \in Txns |-> IF t \in S THEN c ELSE chosen[t]]
    /\ UNCHANGED <<cat, rule, suggestions, pc, job>>

\* A new merchant name, with a category or the one the row has: the row is the
\* user's, and the description becomes a rule, in a statement of its own that
\* may fail.
Rename(r, t, c) ==
    /\ Start(r, "learn", [NoJob EXCEPT !.ids = {t}])
    /\ row[t].in
    /\ c \in Live \cup {"none"}
    /\ row' = [row EXCEPT ![t].cat = c, ![t].status = "manual"]
    /\ chosen' = [chosen EXCEPT ![t] = c]
    /\ UNCHANGED <<cat, rule, suggestions>>

Learn(r, t) ==
    /\ pc[r] = "learn" /\ job[r].ids = {t}
    /\ rule' = [rule EXCEPT ![Verbatim[t]] =
                  [there |-> TRUE, on |-> TRUE, to |-> @.to, named |-> TRUE]]
    /\ Finish(r)
    /\ UNCHANGED <<row, cat, suggestions, chosen>>

\* POST and PATCH: a rule names a merchant or a category or both.
PutRule(q, on, to, named) ==
    /\ Act /\ to \in Live \cup {"none"} /\ (named \/ to # "none")
    /\ rule[q] # [there |-> TRUE, on |-> on, to |-> to, named |-> named]
    /\ rule' = [rule EXCEPT ![q] = [there |-> TRUE, on |-> on, to |-> to, named |-> named]]
    /\ UNCHANGED <<row, cat, suggestions, pc, job, chosen>>

DeleteRule(q) ==
    /\ rule[q].there /\ rule' = [rule EXCEPT ![q] = NoRule]
    /\ Act /\ UNCHANGED <<row, cat, suggestions, pc, job, chosen>>

NewCategory(c) ==
    /\ cat[c] = "unused" /\ cat' = [cat EXCEPT ![c] = "live"]
    /\ Act /\ UNCHANGED <<row, rule, suggestions, pc, job, chosen>>

\* One, or all of them by a reset (the canonical ones made anew are not among
\* Cats).  Transactions and rules lose it; a rule that does nothing else
\* forbids it.
DeleteCategories(S) ==
    /\ S # {} /\ S \subseteq Live
    /\ \A q \in RuleIds : rule[q].to \in S => rule[q].named
    /\ cat' = [c \in Cats |-> IF c \in S THEN "gone" ELSE cat[c]]
    /\ row' = [t \in Txns |-> IF row[t].cat \in S THEN [row[t] EXCEPT !.cat = "none"] ELSE row[t]]
    /\ rule' = [q \in RuleIds |-> IF rule[q].to \in S THEN [rule[q] EXCEPT !.to = "none"]
                                                      ELSE rule[q]]
    /\ chosen' = [t \in Txns |-> IF chosen[t] \in S THEN "none" ELSE chosen[t]]
    /\ Act /\ UNCHANGED <<suggestions, pc, job>>

DeleteTxn(t) ==
    /\ row[t].in /\ row' = [row EXCEPT ![t] = Deleted]
    /\ chosen' = [chosen EXCEPT ![t] = "open"]
    /\ Act /\ UNCHANGED <<cat, rule, suggestions, pc, job>>

\* The model or a statement fails, or the process stops.
Fail(r) ==
    /\ pc[r] # "idle" /\ Finish(r)
    /\ UNCHANGED <<row, cat, rule, suggestions, chosen>>

Next ==
    \/ \E r \in Requests :
         \/ \E t \in Txns : \/ Import(r, t) \/ AIWrite(r, t) \/ Capture(r, t)
                            \/ Learn(r, t)
                            \/ StageWrite(r, t) \/ StageUndo(r, t)
                            \/ \E c \in Cats \cup {"none"} : \/ Rename(r, t, c)
                                                          \/ StageLook(r, t, c)
         \/ ReadRules(r) \/ ApplyRule(r) \/ Applied(r)
         \/ \E S \in SUBSET RuleIds, includeManual \in BOOLEAN : Apply(r, S, includeManual)
         \/ \E mode \in {"pending", "all"} : AIBegin(r, mode)
         \/ AIAnswer(r) \/ Resolve(r) \/ Fail(r)
         \/ \E i \in 1..Len(suggestions), to \in Cats \cup {"approve", "reject"} :
              ResolveRead(r, i, to)
    \/ \E S \in SUBSET Txns, c \in Cats \cup {"none"} : Edit(S, c) \/ Recategorise(S, c)
    \/ \E t \in Txns, c \in Cats : MatchFill(t, c)
    \/ \E q \in RuleIds, on \in BOOLEAN, to \in Cats \cup {"none"}, named \in BOOLEAN :
         PutRule(q, on, to, named)
    \/ \E q \in RuleIds : DeleteRule(q)
    \/ \E c \in Cats : NewCategory(c) \/ DeleteCategories({c})
    \/ DeleteCategories(Live)
    \/ \E t \in Txns : DeleteTxn(t)

Spec == Init /\ [][Next]_vars

-----------------------------------------------------------------------------

(***************************************************************************)
(* A category the user has given a transaction stays, whatever rules, an   *)
(* import's pass over it and models that were asked before the edit write  *)
(* later, until the user says otherwise: to the assistant, or by applying  *)
(* the rules to manual rows too, resolving a proposal the row is tagged    *)
(* with, undoing a batch, or deleting the category.  (rules-applier.ts:8   *)
(* "a user's explicit hand-edit is never overwritten by an automatic       *)
(* pass"; normalize-service.ts:107 "race-safe".)  A row the user left      *)
(* without a category stays so, until a bill matched to it fills it in.    *)
(***************************************************************************)
ManualKept ==
    \A t \in Txns : chosen[t] # "open" =>
        /\ row[t].in /\ row[t].status = "manual"
        /\ row[t].cat = chosen[t]

=============================================================================
