--------------------------- MODULE MCBillMatching ---------------------------
(* Instances of BillMatching for TLC, and the properties checked on them.  *)
EXTENDS BillMatching

CONSTANTS b1, b2, t1, t2

\* t1 may pay either bill, t2 only b1: one vendor, two bills.
MCVerdicts == [p \in Pairs |->
                 CASE p = <<b1, t1>> -> {"fit", "edge"}
                   [] p = <<b2, t1>> -> {"fit", "out"}
                   [] p[1] = b1 -> {"fit"}
                   [] OTHER -> {}]
\* Both fixed-amount bills of one vendor: the verdict never changes.
MCFixed == [p \in Pairs |-> {"fit"}]
MCDates == [t \in Txns |-> 0]
MCDatesLater == [t \in Txns |-> 2]

=============================================================================
