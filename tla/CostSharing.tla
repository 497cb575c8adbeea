------------------------------ MODULE CostSharing ------------------------------
(***************************************************************************)
(* A whole shared out in parts: a transaction over categories              *)
(* (routes/splits.ts, the view of migration 010) and an account over the   *)
(* participants of a household (routes/household.ts), with the custody     *)
(* periods that override the latter and the totals drawn from both.        *)
(*                                                                         *)
(* Both sets of parts are replaced by DELETE and INSERT in one transaction *)
(* at READ COMMITTED: what another request commits after the DELETE looked *)
(* is not deleted.                                                         *)
(***************************************************************************)
EXTENDS Integers, FiniteSets, FiniteSetsExt

CONSTANTS
    Txns, Accounts, Participants, Categories,
    AccountOf, Amount, Day,       \* of a transaction; cents
    Divisions,                    \* of a transaction or an account: the ways a
                                  \* user may divide it, functions into parts
    Requests,
    MaxStarts                     \* bound: requests ever started

None == "none"
Wholes == Txns \cup Accounts
Hundred == 1000000    \* a share is in units of 0.0001 %, ...
Slack == 10           \* ... and shares may be 0.001 % out
Parts(w) == IF w \in Txns THEN Categories ELSE Participants

\* What the column keeps: cents, or a percentage to three decimals.
Column(w, size) == IF w \in Txns THEN size ELSE 10 * ((size + 5) \div 10)

\* A division as the request that is number n stores it, and the sums of what
\* is stored and of what was asked for.
Rows(w, d, n) == {[part |-> x, size |-> Column(w, d[x]), put |-> n] : x \in DOMAIN d}
Total(rows) == MapThenSumSet(LAMBDA row : row.size, rows)
Asked(w, d, n) == MapThenSumSet(LAMBDA row : d[row.part], Rows(w, d, n))
Near(a, b, e) == a - b <= e /\ b - a <= e

CostSharingOK ==
    /\ Txns \cap Accounts = {}
    /\ None \notin Wholes /\ AccountOf \in [Txns -> Accounts]
    /\ Amount \in [Txns -> Int] /\ Day \in [Txns -> Int] /\ MaxStarts \in Nat
    /\ \A w \in Wholes : \A d \in Divisions[w] :      \* what the handlers demand
         /\ IsFiniteSet(DOMAIN d) /\ DOMAIN d \subseteq Parts(w)
         /\ \A x \in DOMAIN d : d[x] \in Int \ {0}
         /\ w \in Accounts => \A x \in DOMAIN d : d[x] \in 1..Hundred
         /\ DOMAIN d # {} => \A n \in 0..MaxStarts :
              IF w \in Txns THEN Asked(w, d, n) = Amount[w]
              ELSE Near(Asked(w, d, n), Hundred, Slack)   \* (a sum of doubles)

VARIABLES
    present,          \* household_participants
    rows,             \* transaction_splits and account_splits, by their whole
    custody,          \* custody_periods
    pc, job, starts,
    mixed,            \* history: wholes two requests have divided at once
    shrunk            \* history: accounts whose participant was deleted
vars == <<present, rows, custody, pc, job, starts, mixed, shrunk>>

NoJob == [whole |-> None, division |-> <<>>, seen |-> {}]
Period == [account : Accounts, who : Participants, from : Int, to : Int]

TypeOK ==
    /\ present \subseteq Participants
    /\ \A w \in Wholes : \A row \in rows[w] : row.part \in Parts(w) /\ row.put \in 1..starts
    /\ \A a \in Accounts :      \* the unique key and the foreign keys
         /\ \A s, t \in rows[a] : s.part = t.part => s = t
         /\ {s.part : s \in rows[a]} \subseteq present
    /\ \A p \in custody : p \in Period /\ p.who \in present /\ p.from <= p.to
    /\ \A r \in Requests : pc[r] = "idle" <=> job[r] = NoJob

Init ==
    /\ present = Participants /\ rows = [w \in Wholes |-> {}] /\ custody = {}
    /\ pc = [r \in Requests |-> "idle"] /\ job = [r \in Requests |-> NoJob]
    /\ starts = 0 /\ mixed = {} /\ shrunk = {}

-----------------------------------------------------------------------------

Start == starts < MaxStarts /\ starts' = starts + 1
End(r) == pc' = [pc EXCEPT ![r] = "idle"] /\ job' = [job EXCEPT ![r] = NoJob]

\* PUT .../splits, validated; an account's participants must be there.
PutLook(r, w, d) ==
    /\ pc[r] = "idle" /\ Start
    /\ w \in Accounts => DOMAIN d \subseteq present
    /\ pc' = [pc EXCEPT ![r] = "delete"]
    /\ job' = [job EXCEPT ![r] = [whole |-> w, division |-> d, seen |-> {}]]
    /\ UNCHANGED <<present, rows, custody, mixed, shrunk>>

\* DELETE: the rows this statement sees.
PutDelete(r) ==
    /\ pc[r] = "delete"
    /\ pc' = [pc EXCEPT ![r] = "insert"]
    /\ job' = [job EXCEPT ![r].seen = rows[job[r].whole]]
    /\ mixed' = IF \E q \in Requests : pc[q] = "insert" /\ job[q].whole = job[r].whole
                THEN mixed \cup {job[r].whole} ELSE mixed
    /\ UNCHANGED <<present, rows, custody, starts, shrunk>>

\* A participant who has gone or is there already, or a share that rounds to
\* 0, makes the transaction fail; a category has no such key.
Refused(w, d, there) ==
    w \in Accounts /\ \E x \in DOMAIN d :
      x \notin present \/ x \in {s.part : s \in there} \/ Column(w, d[x]) = 0

\* A mutant of PutCommit: the old parts are not deleted.
PutAdd(r) ==
    /\ pc[r] = "insert"
    /\ LET w == job[r].whole
           d == job[r].division IN
         IF Refused(w, d, rows[w]) THEN UNCHANGED rows
         ELSE rows' = [rows EXCEPT ![w] = @ \cup Rows(w, d, starts)]
    /\ End(r)
    /\ UNCHANGED <<present, custody, starts, mixed, shrunk>>

\* INSERT and COMMIT.
PutCommit(r) ==
    /\ pc[r] = "insert"
    /\ LET w == job[r].whole
           d == job[r].division
           old == rows[w] \ job[r].seen IN
         IF Refused(w, d, old) THEN UNCHANGED rows
         ELSE rows' = [rows EXCEPT ![w] = old \cup Rows(w, d, starts)]
    /\ End(r)
    /\ UNCHANGED <<present, custody, starts, mixed, shrunk>>

Rollback(r) ==
    /\ pc[r] = "insert" /\ End(r)
    /\ UNCHANGED <<present, rows, custody, starts, mixed, shrunk>>

\* DELETE /api/transactions/:id/splits; an account is cleared by an empty PUT.
Clear(t) ==
    /\ rows[t] # {} /\ Start
    /\ rows' = [rows EXCEPT ![t] = {}]
    /\ UNCHANGED <<present, custody, pc, job, mixed, shrunk>>

AddPeriod(p) ==
    /\ p.who \in present /\ p.from <= p.to /\ p \notin custody /\ Start
    /\ custody' = custody \cup {p}
    /\ UNCHANGED <<present, rows, pc, job, mixed, shrunk>>

DeletePeriod(p) ==
    /\ p \in custody /\ custody' = custody \ {p}
    /\ UNCHANGED <<present, rows, pc, job, starts, mixed, shrunk>>

\* DELETE /api/household/participants/:id and its cascade.
DeleteParticipant(x) ==
    /\ x \in present /\ Start
    /\ present' = present \ {x}
    /\ rows' = [w \in Wholes |-> IF w \in Accounts THEN {s \in rows[w] : s.part # x}
                                 ELSE rows[w]]
    /\ custody' = {p \in custody : p.who # x}
    /\ shrunk' = shrunk \cup {a \in Accounts : \E s \in rows[a] : s.part = x}
    /\ UNCHANGED <<pc, job, mixed>>

Days == {Day[t] : t \in Txns}
Next ==
    \/ \E r \in Requests :
         \/ \E w \in Wholes : \E d \in Divisions[w] : PutLook(r, w, d)
         \/ PutDelete(r) \/ PutCommit(r) \/ Rollback(r)
    \/ \E t \in Txns : Clear(t)
    \/ \E a \in Accounts, x \in Participants, from, to \in Days :
         LET p == [account |-> a, who |-> x, from |-> from, to |-> to]
         IN AddPeriod(p) \/ DeletePeriod(p)
    \/ \E x \in Participants : DeleteParticipant(x)

Spec == Init /\ [][Next]_vars

-----------------------------------------------------------------------------
(* GET /api/household/participants/totals, and transaction_category_lines. *)

\* What stands for the parts where there are none.
Undivided(size) == {[part |-> None, size |-> size, put |-> 0]}

\* What a transaction counts for a category: its parts, or itself under None.
Lines(t) == IF rows[t] = {} THEN Undivided(Amount[t]) ELSE rows[t]

Covering(t) == {p \in custody : p.account = AccountOf[t] /\ p.from <= Day[t] /\ Day[t] <= p.to}
Latest(t) == {p \in Covering(t) : \A q \in Covering(t) : q.from <= p.from}

\* The rows of the query's "attributed": the join with account_splits, every
\* row of which is the custodian's and the whole of t when there is one.
Attributed(t, custodian) ==
    LET splits == rows[AccountOf[t]] IN
    IF custodian = None THEN splits
    ELSE {[s EXCEPT !.size = Hundred] : s \in IF splits = {} THEN Undivided(Hundred) ELSE splits}

\* What the totals count a transaction for, as a share of its amount.
Counted(t, custodian) == Total(Attributed(t, custodian))
Custodian(t) == IF Covering(t) = {} THEN {None} ELSE {p.who : p \in Latest(t)}

-----------------------------------------------------------------------------
(* Properties.                                                             *)

\* The lines of a transaction add up to it, whoever divides and clears it,
\* unless two requests divided it at once.
LinesAddUp == \A t \in Txns \ mixed : Total(Lines(t)) = Amount[t]

\* Without a custody period, the totals count a transaction once if its
\* account is shared and not at all if it is not, but for 0.001 % and half of
\* that for each participant, which is what the tolerance of the handler and
\* the rounding of the column come to; unless two requests shared the account
\* at once or one of its participants was deleted.
SharesAddUp ==
    \A t \in Txns :
      Covering(t) = {} /\ AccountOf[t] \notin mixed \cup shrunk
        => LET parts == rows[AccountOf[t]] IN
           IF parts = {} THEN Counted(t, None) = 0
           ELSE Near(Counted(t, None), Hundred, Slack + 5 * Cardinality(parts))

\* "100% attributed to that participant ... so we don't double-count".
CustodyCountsOnce ==
    \A t \in Txns : \A x \in Custodian(t) \ {None} : Counted(t, x) = Hundred

=============================================================================
