----------------------------- MODULE MCServices -----------------------------
(***************************************************************************)
(* Small instances of the services for TLC.                                *)
(***************************************************************************)
EXTENDS Services, TLC

\* Nothing tells one request, caller, rotation or backup from another, and what is
\* checked of them is safety.
Alike == Permutations(Requests)

Event(kind, plan, status, ends, atEnd) ==
    [kind |-> kind, plan |-> plan, status |-> status, ends |-> ends, atEnd |-> atEnd,
     fit |-> TRUE]

MCFounder == [user |-> "u1", house |-> "h1", session |-> "s1"]

\* A subscription, an unpaid renewal, the end; the limits of three plans.
MCBilling ==
    [Script |-> <<Event("upsert", "plus", "active", 2, FALSE),
                  Event("invoice", "plus", "past_due", 2, FALSE),
                  Event("deleted", "plus", "canceled", 4, TRUE)>>,
     Quota |-> [plus |-> 2, family |-> 99, starter |-> 0],
     Connections |-> [plus |-> 1, family |-> 2, starter |-> 0],
     Amounts |-> {2, 3}, Grants |-> {"plus"},
     MaxTime |-> 3, MaxStarts |-> 3, MaxFailures |-> 1]

\* A payment two receipts fit, and another payment days later.
MCMovements ==
    [Txns |-> {"t1", "t2", "t3", "t4"},
     Account |-> [t1 |-> "checking", t2 |-> "savings", t3 |-> "card", t4 |-> "checking"],
     Currency |-> [t \in {"t1", "t2", "t3", "t4"} |-> "USD"],
     Amount |-> [t1 |-> -5, t2 |-> 5, t3 |-> 5, t4 |-> -5],
     Date |-> [t1 |-> 1, t2 |-> 1, t3 |-> 3, t4 |-> 4],
     MaxGroups |-> 4, MaxStarts |-> 4]

\* Two transactions of one account, one of them divided; two participants, with
\* shares that are rounded to 50.001 and 50.
MCSharing ==
    [Txns |-> {"t1", "t2"}, Accounts |-> {"a1"}, Participants |-> {"p1", "p2"},
     Categories |-> {"c1", "c2"},
     AccountOf |-> [t1 |-> "a1", t2 |-> "a1"], Amount |-> [t1 |-> 10, t2 |-> 10],
     Day |-> [t1 |-> 1, t2 |-> 2],
     Divisions |-> [t1 |-> {[c1 |-> 10], [c1 |-> 4, c2 |-> 6]}, t2 |-> {},
                    a1 |-> {<<>>, [p1 |-> 1000000], [p2 |-> 1000000],
                            [p1 |-> 500005, p2 |-> 499995]}],
     MaxStarts |-> 4]

\* Three changes over two days, with as many callers that promote them as
\* there are requests.
MCChanges == [MaxChanges |-> 3, MaxDay |-> 2, MaxEdits |-> 1]

\* A file under the KEK itself, an upload, two rotations of the tenant key and
\* one of the KEK.
MCKeys ==
    [Files |-> {"f1", "f3"}, Legacy0 |-> {}, Legacy1 |-> {"f3"}, Requests |-> {"r1"},
     Secrets |-> {"s1"}, InitialKeks |-> {1},
     MaxDeks |-> 2, MaxKeks |-> 2, MaxEdits |-> 1, MaxFailures |-> 1]

\* Two runs, and restores of them that overlap; nothing tells the runs apart
\* either, so requests stand for them.
MCRestoring ==
    [Runs |-> Requests, Files |-> {"f1"}, Retention |-> 1, MaxDay |-> 1,
     MaxRestores |-> 2, MaxRemovals |-> 0]

\* Two runs and what they prune, or an administrator removes.
MCPruning ==
    [Runs |-> Requests, Files |-> {}, Retention |-> 1, MaxDay |-> 3,
     MaxRestores |-> 0, MaxRemovals |-> 1]

\* Two households with one charge in common.
MCReview ==
    [Houses |-> {"h1", "h2"}, Keys |-> {"k1", "k2"}, BillKeys |-> {"k1"},
     Patterns |-> [h1 |-> {"k1", "k2"}, h2 |-> {"k1"}], MaxRows |-> 3, MaxStarts |-> 3]

\* A transaction with a proposal of old, one to import, a rule for both and a
\* stronger one for the second.
MCLabels ==
    [Txns |-> {"t1", "t2"}, Cats |-> {"c1", "p1"}, Rules |-> <<"q1", "q2">>,
     Fits |-> [q1 |-> {"t1", "t2"}, q2 |-> {"t2"}],
     Verbatim |-> [t1 |-> "q1", t2 |-> "q2"], Proposals |-> {"p1"},
     Loaded |-> {"t1"}, LoadedTag |-> "p1", MaxSuggestions |-> 2, MaxStarts |-> 3]

On(tool, t, c) == [tool |-> tool, on |-> t, to |-> c, padded |-> FALSE]
Bare(tool) == On(tool, "none", "none")

\* The same row twice; two goals; what has no inverse; what always fails;
\* a goal with blanks about its name.
MCStaging ==
    [Txns |-> {"t1"}, Categories |-> {"c1", "c2"}, Batches |-> {"b1"},
     Plans |-> {<<On("update_transaction_category", "t1", "c1"),
                  On("update_transaction_category", "t1", "c2")>>,
                <<Bare("update_savings_goal"), Bare("create_savings_goal")>>,
                <<On("bulk_recategorize", "none", "c1"), Bare("mark_bill_paid"),
                  On("split_transaction", "t1", "none")>>,
                <<On("update_transaction_category", "t1", "c1"), Bare("create_budget")>>,
                <<[Bare("create_savings_goal") EXCEPT !.padded = TRUE]>>},
     Connections |-> 3, MaxGoals |-> 3, MaxEdits |-> 1, MaxFailures |-> 1]

=============================================================================
