---------------------------- MODULE MCBankIngest ----------------------------
(* Instances of BankIngest for TLC.                                        *)
EXTENDS BankIngest

CONSTANTS checking, card, buy, pay, csv

MCKeys == {buy, pay, csv}
MCHome == [k \in MCKeys |-> IF k = pay THEN card ELSE checking]
MCFeed == << [key |-> buy, kind |-> "added"],
             [key |-> pay, kind |-> "added"],
             [key |-> buy, kind |-> "removed"] >>
Bag(k, n) == [x \in MCKeys |-> IF x = k THEN n ELSE 0]
MCFiles == {Bag(csv, 1), Bag(csv, 2)}

=============================================================================
