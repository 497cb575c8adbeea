----------------------------- MODULE FeedLedger -----------------------------
(***************************************************************************)
(* What bank synchronisation promises, without workers, windows or         *)
(* failures: the bank announces changes one by one, the ledger enters      *)
(* transactions the bank has announced, and the mark it would resume from  *)
(* never stands beyond a transaction it has neither entered nor passed     *)
(* because its account was not open to it.                                 *)
(***************************************************************************)
EXTENDS Integers, Sequences

CONSTANTS Feed,   \* the bank's log of changes, [key, kind] in order
          HomeOf  \* the account of each key

VARIABLES published, mark, entered, passed, open

Mentioned(n) == {Feed[i].key : i \in 1 .. n}

\* Transactions the changes after position m, up to n, leave in existence.
Sent(m, n) ==
    {Feed[i].key : i \in {x \in (m + 1) .. n :
        /\ Feed[x].kind # "removed"
        /\ \A y \in x .. n : Feed[y].key = Feed[x].key => Feed[y].kind # "removed"}}

LedgerInit == published = 0 /\ mark = 0 /\ entered = {} /\ passed = {} /\ open = {}

Announce ==
    /\ published < Len(Feed)
    /\ published' = published + 1
    /\ UNCHANGED <<mark, entered, passed, open>>

\* Enter some announced transactions, each once and for good, or open an account.
Enter ==
    /\ entered \subseteq entered' /\ entered' \subseteq Mentioned(published)
    /\ open \subseteq open'
    /\ UNCHANGED <<published, mark, passed>>

\* Move the mark, back or forth, to a place all before which is entered or
\* passed, passing nothing of an account that is open.
Resume ==
    /\ mark' \in 0 .. published
    /\ Sent(0, mark') \subseteq entered' \cup passed'
    /\ passed \subseteq passed' /\ passed' \subseteq Mentioned(published)
    /\ \A k \in passed' \ passed : HomeOf[k] \notin open
    /\ open \subseteq open'
    /\ UNCHANGED <<published, entered>>

LedgerNext == Announce \/ Enter \/ Resume
LedgerSpec == LedgerInit /\ [][LedgerNext]_<<published, mark, entered, passed, open>>
=============================================================================
