------------------------------- MODULE Transfers -------------------------------
(***************************************************************************)
(* Pairing the two legs of a transfer: domain/transfers.ts, called by      *)
(* routes/transfers.ts, for the transactions of one household.             *)
(*                                                                         *)
(* A transaction in a group is left out of spending, so a leg whose        *)
(* partner is not in the group takes money out of every report.  Detection *)
(* and linking look at the groups first and write in a transaction of      *)
(* their own that does not look again.                                     *)
(***************************************************************************)
EXTENDS Integers, FiniteSets

CONSTANTS
    Txns,             \* ids of transactions
    Account, Currency, Amount, Date,   \* of a transaction; the currency is its account's
    Requests,
    MaxGroups,        \* bound: groups ever made
    MaxStarts         \* bound: requests ever started

MaxDateDiff == 5      \* MAX_DATE_DIFF_DAYS
Ungrouped == 0
NoJob == [pairs |-> {}, clear |-> {}]

TransfersOK ==
    /\ IsFiniteSet(Txns) /\ IsFiniteSet(Requests)
    /\ Amount \in [Txns -> Int] /\ Date \in [Txns -> Int]
    /\ MaxGroups \in Nat /\ MaxStarts \in Nat

VARIABLES
    rows,             \* transactions that exist
    group,            \* transfer_group_id
    groups,           \* group ids drawn so far
    pc, job,          \* of a request: the pairs to write, the groups to clear
    starts,
    parted            \* history: legs whose partner was deleted, or that were
                      \* written while another request's look at one of the
                      \* two was still unwritten
vars == <<rows, group, groups, pc, job, starts, parted>>

TypeOK ==
    /\ rows \subseteq Txns
    /\ group \in [Txns -> 0..MaxGroups] /\ groups \in 0..MaxGroups
    /\ \A t \in Txns : group[t] <= groups /\ (t \notin rows => group[t] = Ungrouped)
    /\ \A r \in Requests :
         /\ pc[r] = "idle" => job[r] = NoJob
         /\ \A p \in job[r].pairs : p \subseteq Txns /\ Cardinality(p) = 2

Init ==
    /\ rows = Txns /\ group = [t \in Txns |-> Ungrouped] /\ groups = 0
    /\ pc = [r \in Requests |-> "idle"] /\ job = [r \in Requests |-> NoJob]
    /\ starts = 0 /\ parted = {}

-----------------------------------------------------------------------------

Gap(p) == LET t == CHOOSE t \in p : TRUE
              u == CHOOSE u \in p : u # t
          IN IF Date[t] > Date[u] THEN Date[t] - Date[u] ELSE Date[u] - Date[t]
Cents(p) == LET a == Amount[CHOOSE t \in p : TRUE] IN IF a < 0 THEN 0 - a ELSE a

\* The candidate join, with a leg on one of the accounts S.
Candidates(S) ==
    {p \in {{t, u} : t, u \in rows} :
       /\ Cardinality(p) = 2
       /\ \E t \in p : Account[t] \in S
       /\ \A t \in p : group[t] = Ungrouped
       /\ \A t, u \in p : t # u => /\ Amount[t] = 0 - Amount[u]
                                   /\ Account[t] # Account[u]
                                   /\ Currency[t] = Currency[u]
       /\ Gap(p) <= MaxDateDiff}

\* ORDER BY the distance of the dates, then the amount; ties in any order.
Before(p, q) == Gap(p) < Gap(q) \/ (Gap(p) = Gap(q) /\ Cents(p) >= Cents(q))

\* What the loop over the candidates can take: disjoint pairs, and nothing is
\* passed over but for one of its legs being taken by a pair no later.
Taken(C, S) ==
    /\ \A p, q \in S : p = q \/ p \cap q = {}
    /\ \A p \in C \ S : \E q \in S : p \cap q # {} /\ Before(q, p)

Start(r, stage, j) ==
    /\ pc[r] = "idle" /\ starts < MaxStarts /\ starts' = starts + 1
    /\ pc' = [pc EXCEPT ![r] = stage] /\ job' = [job EXCEPT ![r] = j]
End(r) == pc' = [pc EXCEPT ![r] = "idle"] /\ job' = [job EXCEPT ![r] = NoJob]

\* POST /api/transfers/detect, for all accounts or for one; no pair, no
\* transaction.
Scopes == {{Account[t] : t \in Txns}} \cup {{Account[t]} : t \in Txns}
Detect(r) ==
    \E A \in Scopes : \E S \in SUBSET Candidates(A) :
      /\ S # {} /\ Taken(Candidates(A), S)
      /\ Start(r, "write", [NoJob EXCEPT !.pairs = S])
      /\ UNCHANGED <<rows, group, groups, parted>>

\* POST /api/transfers: any two of the household's, on different accounts.
Link(r, t, u) ==
    /\ t # u /\ {t, u} \subseteq rows /\ Account[t] # Account[u]
    /\ Start(r, "write", [pairs |-> {{t, u}}, clear |-> {group[t], group[u]} \ {Ungrouped}])
    /\ UNCHANGED <<rows, group, groups, parted>>

\* The legs another request has looked at and not written yet.
Unwritten(r) == UNION UNION {job[q].pairs : q \in Requests \ {r}}

\* randomUUID: some numbering of the pairs by ids not drawn before.
NewGroup(S, t) ==
    LET id == CHOOSE f \in [S -> (groups + 1)..(groups + Cardinality(S))] :
                \A p, q \in S : f[p] = f[q] => p = q
    IN id[CHOOSE p \in S : t \in p]

\* A mutant of Write: the groups the two were in are not cleared.
WriteOver(r) ==
    /\ pc[r] = "write" /\ groups + Cardinality(job[r].pairs) <= MaxGroups
    /\ LET S == job[r].pairs IN
       /\ group' = [t \in Txns |-> IF t \in rows \cap UNION S
                                   THEN NewGroup(S, t) ELSE group[t]]
       /\ groups' = groups + Cardinality(S)
       /\ parted' = parted \cup UNION {p \in S : p \cap Unwritten(r) # {}}
    /\ End(r)
    /\ UNCHANGED <<rows, starts>>

\* The transaction of detectTransfers or linkTransfer: clear, then write.
Write(r) ==
    /\ pc[r] = "write" /\ groups + Cardinality(job[r].pairs) <= MaxGroups
    /\ LET S == job[r].pairs IN
       /\ group' = [t \in Txns |-> IF t \in rows \cap UNION S THEN NewGroup(S, t)
                                   ELSE IF group[t] \in job[r].clear THEN Ungrouped
                                   ELSE group[t]]
       /\ groups' = groups + Cardinality(S)
       /\ parted' = parted \cup UNION {p \in S : p \cap Unwritten(r) # {}}
    /\ End(r)
    /\ UNCHANGED <<rows, starts>>

\* A statement of the transaction fails: nothing of it stays.
Rollback(r) ==
    /\ pc[r] = "write" /\ End(r)
    /\ UNCHANGED <<rows, group, groups, starts, parted>>

\* DELETE /api/transfers/:groupId.
Unlink(g) ==
    /\ g \in 1..groups /\ \E t \in rows : group[t] = g
    /\ starts < MaxStarts /\ starts' = starts + 1
    /\ group' = [t \in Txns |-> IF group[t] = g THEN Ungrouped ELSE group[t]]
    /\ UNCHANGED <<rows, groups, pc, job, parted>>

\* POST /api/transactions/bulk-delete, or the cascade from the account.
Delete(t) ==
    /\ t \in rows /\ starts < MaxStarts /\ starts' = starts + 1
    /\ rows' = rows \ {t}
    /\ group' = [group EXCEPT ![t] = Ungrouped]
    /\ parted' = parted \cup {u \in rows : group[u] = group[t] /\ group[t] # Ungrouped}
                \cup UNION {p \in UNION {job[q].pairs : q \in Requests} : t \in p}
    /\ UNCHANGED <<groups, pc, job>>

Next ==
    \/ \E t \in Txns : Delete(t)
    \/ \E r \in Requests :
         \/ Detect(r) \/ Write(r) \/ Rollback(r)
         \/ \E t, u \in Txns : Link(r, t, u)
    \/ \E g \in 1..MaxGroups : Unlink(g)

Spec == Init /\ [][Next]_vars

-----------------------------------------------------------------------------

\* A group is a pair on two accounts, whatever was detected, linked and
\* unlinked before, unless its partner was deleted or two requests wrote what
\* each had seen before the other wrote.
Legs(g) == {t \in rows : group[t] = g}
PairsWhole ==
    \A g \in 1..groups :
      LET legs == Legs(g) IN
        \/ legs = {} \/ legs \cap parted # {}
        \/ Cardinality(legs) = 2 /\ Cardinality({Account[t] : t \in legs}) = 2

=============================================================================
