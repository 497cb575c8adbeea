-------------------------- MODULE TransactionsProofs --------------------------
(***************************************************************************)
(* Proofs about what is written on the transactions there are: Transfers   *)
(* (PairsWhole), Categorisation (ManualKept) and CostSharing (LinesAddUp   *)
(* and SharesAddUp), for any number of transactions, rules, proposals,     *)
(* accounts, participants and requests.                                    *)
(***************************************************************************)
EXTENDS Transfers, Sequences, FiniteSetTheorems, WellFoundedInduction, TLAPS

CONSTANTS
    Cats, Rules, Fits, Verbatim, Proposals, Loaded, LoadedTag, MaxSuggestions,
    Accounts, Participants, Categories, AccountOf, Day, Divisions
VARIABLES
    row, cat, rule, suggestions, chosen,
    present, custody, mixed, shrunk

\* They share the transactions, the requests and no step.
A == INSTANCE Categorisation
C == INSTANCE CostSharing

-----------------------------------------------------------------------------
(* Transfers.                                                              *)

Pairing == [pairs : SUBSET SUBSET Txns, clear : SUBSET Int]

\* A pair that can be linked: two transactions on two accounts.
Partners(p) == \E t, u \in Txns : p = {t, u} /\ t # u /\ Account[t] # Account[u]

\* What a request has looked at and not written: disjoint pairs, each there
\* yet, or marked; a leg that is in a group by now is of a group the request
\* clears, or of one that is marked as a whole.
Looked(r) ==
    /\ \A p \in job[r].pairs : /\ Partners(p)
                               /\ p \subseteq rows \/ p \subseteq parted
    /\ \A p, q \in job[r].pairs : p = q \/ p \cap q = {}
    /\ \A p \in job[r].pairs : \A t \in p :
         \/ group[t] = 0 \/ group[t] \in job[r].clear
         \/ Legs(group[t]) \subseteq parted

LedgerTypes ==
    /\ rows \subseteq Txns
    /\ group \in [Txns -> 0..MaxGroups] /\ groups \in 0..MaxGroups
    /\ \A t \in Txns : group[t] <= groups /\ (t \notin rows => group[t] = 0)

RequestTypes ==
    /\ pc \in [Requests -> {"idle", "write"}] /\ job \in [Requests -> Pairing]
    /\ \A r \in Requests : pc[r] = "idle" => job[r] = NoJob

\* The type invariant made inductive, and what is between a look and a write.
PairInv == /\ LedgerTypes /\ RequestTypes
           /\ \A r \in Requests : Looked(r)
           /\ PairsWhole

\* The legs of a group after the step.
LegsAfter(g) == {t \in rows' : group'[t] = g}

LEMMA Two ==
  ASSUME NEW p, Partners(p)
  PROVE  /\ Cardinality(p) = 2 /\ Cardinality({Account[t] : t \in p}) = 2
         /\ p \subseteq Txns /\ p # {}
<1>1. PICK t \in Txns, u \in Txns : p = {t, u} /\ t # u /\ Account[t] # Account[u]
  BY DEF Partners
<1>2. ASSUME NEW a, NEW b, a # b PROVE Cardinality({a, b}) = 2
  <2>1. IsFiniteSet({a}) /\ Cardinality({a}) = 1 /\ b \notin {a} /\ {a, b} = {a} \cup {b}
    BY <1>2, FS_Singleton
  <2>2. Cardinality({a} \cup {b}) = 1 + 1
    BY <2>1, FS_AddElement
  <2> QED BY <2>1, <2>2
<1>3. {Account[x] : x \in p} = {Account[t], Account[u]}
  BY <1>1
<1>4. Cardinality({t, u}) = 2 /\ Cardinality({Account[t], Account[u]}) = 2
  BY <1>1, <1>2
<1> QED BY <1>1, <1>3, <1>4

\* Where nothing is written the groups are as they were.
LEMMA PairsStay ==
  ASSUME PairInv, UNCHANGED <<rows, group, groups, parted>>
  PROVE  LedgerTypes' /\ PairsWhole'
<1>1. ASSUME NEW g \in 1..groups PROVE Legs(g)' = Legs(g)
  BY DEF Legs
<1>2. PairsWhole'
  BY <1>1 DEF PairInv, PairsWhole
<1> QED BY <1>2 DEF PairInv, LedgerTypes

LEMMA PairInit == ASSUME TransfersOK, Init PROVE PairInv
<1>1. LedgerTypes
  BY DEF TransfersOK, Init, Ungrouped, LedgerTypes
<1>2. RequestTypes
  BY DEF Init, NoJob, RequestTypes, Pairing
<1>3. \A r \in Requests : Looked(r)
  BY DEF Init, NoJob, Looked
<1>4. PairsWhole
  BY DEF Init, PairsWhole
<1> QED BY <1>1, <1>2, <1>3, <1>4 DEF PairInv

\* A request that has looked at pairs no leg of which is in a group it does
\* not clear.
LEMMA PairLook ==
  ASSUME PairInv, NEW r \in Requests, NEW j \in Pairing, Start(r, "write", j),
         UNCHANGED <<rows, group, groups, parted>>,
         \A p \in j.pairs : Partners(p) /\ p \subseteq rows,
         \A p, q \in j.pairs : p = q \/ p \cap q = {},
         \A p \in j.pairs : \A t \in p : group[t] = 0 \/ group[t] \in j.clear
  PROVE  PairInv'
<1>1. pc' = [pc EXCEPT ![r] = "write"] /\ job' = [job EXCEPT ![r] = j]
  BY DEF Start
<1>2. LedgerTypes' /\ PairsWhole'
  BY PairsStay
<1>3. RequestTypes'
  BY <1>1 DEF PairInv, RequestTypes
<1>4. ASSUME NEW q \in Requests PROVE Looked(q)'
  <2>1. CASE q = r
    BY <1>1, <2>1 DEF PairInv, RequestTypes, Looked, Legs
  <2>2. CASE q # r
    BY <1>1, <2>2 DEF PairInv, RequestTypes, Looked, Legs
  <2> QED BY <2>1, <2>2
<1> QED BY <1>2, <1>3, <1>4 DEF PairInv

LEMMA PairDetect ==
  ASSUME TransfersOK, PairInv, NEW r \in Requests, Detect(r)
  PROVE  PairInv'
<1>1. PICK some \in Scopes : \E S \in SUBSET Candidates(some) :
             /\ S # {} /\ Taken(Candidates(some), S)
             /\ Start(r, "write", [NoJob EXCEPT !.pairs = S])
             /\ UNCHANGED <<rows, group, groups, parted>>
  BY DEF Detect
<1>2. PICK S \in SUBSET Candidates(some) :
             /\ S # {} /\ Taken(Candidates(some), S)
             /\ Start(r, "write", [NoJob EXCEPT !.pairs = S])
             /\ UNCHANGED <<rows, group, groups, parted>>
  BY <1>1
<1> DEFINE j == [pairs |-> S, clear |-> {}]
<1>3. [NoJob EXCEPT !.pairs = S] = j
  BY DEF NoJob
<1>4. ASSUME NEW p \in S
      PROVE  Partners(p) /\ p \subseteq rows /\ \A t \in p : group[t] = 0
  <2>1. /\ p \in {{t, u} : t, u \in rows} /\ Cardinality(p) = 2
        /\ \A t \in p : group[t] = Ungrouped
        /\ \A t, u \in p : t # u => Account[t] # Account[u]
    BY DEF Candidates
  <2>2. PICK t \in rows, u \in rows : p = {t, u}
    BY <2>1
  <2>3. t # u
    <3>1. SUFFICES ASSUME t = u PROVE FALSE
      OBVIOUS
    <3>2. p = {t} BY <2>2, <3>1
    <3>3. Cardinality(p) = 1 BY <3>2, FS_Singleton
    <3> QED BY <2>1, <3>3
  <2>4. t \in Txns /\ u \in Txns /\ Account[t] # Account[u]
    BY <2>1, <2>2, <2>3 DEF PairInv, LedgerTypes
  <2> QED BY <2>1, <2>2, <2>3, <2>4 DEF Partners, Ungrouped
<1>5. j \in Pairing
  <2>1. \A p \in S : p \subseteq Txns
    BY <1>4 DEF PairInv, LedgerTypes
  <2> QED BY <2>1 DEF Pairing
<1>6. \A p, q \in S : p = q \/ p \cap q = {}
  BY <1>2 DEF Taken
<1>7. j.pairs = S OBVIOUS
<1>8. Start(r, "write", j) BY <1>2, <1>3
<1> HIDE DEF j
<1> QED BY <1>2, <1>4, <1>5, <1>6, <1>7, <1>8, PairLook

LEMMA PairLink ==
  ASSUME TransfersOK, PairInv, NEW r \in Requests, NEW t \in Txns, NEW u \in Txns,
         Link(r, t, u)
  PROVE  PairInv'
<1> DEFINE j == [pairs |-> {{t, u}}, clear |-> {group[t], group[u]} \ {Ungrouped}]
<1>1. /\ t # u /\ {t, u} \subseteq rows /\ Account[t] # Account[u]
      /\ Start(r, "write", j)
      /\ UNCHANGED <<rows, group, groups, parted>>
  BY DEF Link
<1>2. j \in Pairing
  BY DEF Pairing, PairInv, LedgerTypes
<1>3. Partners({t, u})
  BY <1>1 DEF Partners
<1>4. \A x \in {t, u} : group[x] = 0 \/ group[x] \in j.clear
  BY DEF Ungrouped
<1>5. j.pairs = {{t, u}} OBVIOUS
<1> HIDE DEF j
<1>6. /\ \A p \in j.pairs : Partners(p) /\ p \subseteq rows
      /\ \A p, q \in j.pairs : p = q \/ p \cap q = {}
      /\ \A p \in j.pairs : \A x \in p : group[x] = 0 \/ group[x] \in j.clear
  BY <1>1, <1>3, <1>4, <1>5
<1> QED BY <1>1, <1>2, <1>6, PairLook

\* The ids of new groups: one for each pair, none drawn before.
LEMMA Numbered ==
  ASSUME NEW S, IsFiniteSet(S), NEW n \in Nat
  PROVE  /\ Cardinality(S) \in Nat
         /\ \E f \in [S -> (n + 1)..(n + Cardinality(S))] :
              \A p, q \in S : f[p] = f[q] => p = q
<1>1. Cardinality(S) \in Nat /\ ExistsBijection(1..Cardinality(S), S)
  BY FS_CardinalityType
<1> DEFINE c == Cardinality(S)
<1> HIDE DEF c
<1>2. PICK b \in Bijection(1..c, S) : TRUE
  BY <1>1 DEF ExistsBijection, c
<1>3. /\ b \in [1..c -> S]
      /\ \A p \in S : \E i \in 1..c : b[i] = p
  BY <1>2 DEF Bijection, Injection, Surjection, IsInjective
<1> DEFINE f == [p \in S |-> n + (CHOOSE i \in 1..c : b[i] = p)]
<1>4. \A p \in S : \E i \in 1..c : b[i] = p /\ f[p] = n + i
  BY <1>3
<1>5. DOMAIN f = S /\ f = [p \in S |-> f[p]]
  OBVIOUS
<1> HIDE DEF f
<1>6. c \in Nat BY <1>1 DEF c
<1>7. \A p \in S : f[p] \in (n + 1)..(n + c)
  BY <1>4, <1>6
<1>8. f \in [S -> (n + 1)..(n + c)]
  BY <1>5, <1>7
<1>9. \A p, q \in S : f[p] = f[q] => p = q
  <2>1. SUFFICES ASSUME NEW p \in S, NEW q \in S, f[p] = f[q] PROVE p = q
    OBVIOUS
  <2>2. PICK i \in 1..c : b[i] = p /\ f[p] = n + i
    BY <1>4
  <2>3. PICK k \in 1..c : b[k] = q /\ f[q] = n + k
    BY <1>4
  <2>4. i \in Int /\ k \in Int
    BY <1>6
  <2>6. n + i = n + k
    BY <2>1, <2>2, <2>3
  <2>5. i = k
    BY <2>4, <2>6
  <2> QED BY <2>2, <2>3, <2>5
<1>10. c = Cardinality(S) BY DEF c
<1> QED BY <1>1, <1>8, <1>9, <1>10

LEMMA PairEnd ==
  ASSUME RequestTypes, NEW r \in Requests, End(r)
  PROVE  /\ RequestTypes'
         /\ job'[r].pairs = {}
         /\ \A q \in Requests \ {r} : job'[q] = job[q]
BY DEF RequestTypes, End, NoJob, Pairing

LEMMA PairWrite ==
  ASSUME TransfersOK, PairInv, NEW r \in Requests, Write(r)
  PROVE  PairInv'
<1> DEFINE S == job[r].pairs
           n == Cardinality(S)
           f == CHOOSE g \in [S -> (groups + 1)..(groups + Cardinality(S))] :
                  \A p, q \in S : g[p] = g[q] => p = q
<1>1. groups \in Nat /\ job[r] \in Pairing /\ S \subseteq SUBSET Txns /\ Looked(r)
  BY DEF PairInv, LedgerTypes, RequestTypes, Pairing
<1>2. IsFiniteSet(S)
  <2>1. IsFiniteSet(Txns)
    BY DEF TransfersOK
  <2>2. IsFiniteSet(SUBSET Txns)
    BY <2>1, FS_SUBSET
  <2>3. S \in SUBSET (SUBSET Txns)
    BY <1>1
  <2> HIDE DEF S
  <2> QED BY <2>2, <2>3, FS_Subset
<1>3. /\ n \in Nat /\ f \in [S -> (groups + 1)..(groups + n)]
      /\ \A p, q \in S : f[p] = f[q] => p = q
  <2>1. /\ n \in Nat
        /\ \E g \in [S -> (groups + 1)..(groups + n)] :
             \A p, q \in S : g[p] = g[q] => p = q
    BY <1>1, <1>2, Numbered
  <2> QED BY <2>1
<1>4. /\ groups + n <= MaxGroups /\ groups' = groups + n /\ rows' = rows
      /\ group' = [t \in Txns |-> IF t \in rows \cap UNION S THEN NewGroup(S, t)
                                  ELSE IF group[t] \in job[r].clear THEN Ungrouped
                                  ELSE group[t]]
      /\ parted' = parted \cup UNION {p \in S : p \cap Unwritten(r) # {}}
      /\ End(r)
  BY DEF Write
<1>5. ASSUME NEW p \in S, NEW t \in p
      PROVE  t \in Txns /\ NewGroup(S, t) = f[p]
  <2>1. \A q \in S : t \in q => q = p
    BY <1>1, <1>5 DEF Looked
  <2>2. (CHOOSE q \in S : t \in q) = p
    BY <2>1, <1>5
  <2>3. NewGroup(S, t) = f[CHOOSE q \in S : t \in q]
    BY DEF NewGroup
  <2> QED BY <1>1, <2>2, <2>3
<1> HIDE DEF f, n
<1>6. ASSUME NEW p \in S, NEW t \in p, t \in rows
      PROVE  group'[t] = f[p]
  BY <1>4, <1>5, <1>6
<1>7. ASSUME NEW t \in Txns, t \notin rows \/ t \notin UNION S
      PROVE  group'[t] = IF group[t] \in job[r].clear THEN 0 ELSE group[t]
  BY <1>4, <1>7 DEF Ungrouped
<1>8. \A p \in S : f[p] > groups /\ f[p] <= groups' /\ f[p] \in 1..MaxGroups
  <2>1. MaxGroups \in Nat BY DEF TransfersOK
  <2> QED BY <1>1, <1>3, <1>4, <2>1
<1>9. LedgerTypes'
  <2>1. groups' \in 0..MaxGroups
    BY <1>1, <1>3, <1>4 DEF TransfersOK
  <2>2. ASSUME NEW t \in Txns
        PROVE  group'[t] \in 0..MaxGroups /\ group'[t] <= groups' /\ (t \notin rows => group'[t] = 0)
    <3>1. group[t] \in 0..MaxGroups /\ group[t] <= groups /\ (t \notin rows => group[t] = 0)
      BY DEF PairInv, LedgerTypes
    <3>2. CASE t \in rows /\ \E p \in S : t \in p
      BY <1>6, <1>8, <3>2
    <3>3. CASE t \notin rows \/ t \notin UNION S
      <4>1. group'[t] = 0 \/ group'[t] = group[t]
        BY <1>7, <3>3
      <4>2. group[t] <= groups' /\ 0 <= groups'
        <5>1. group[t] \in Int /\ n \in Nat /\ groups' = groups + n
          BY <1>3, <1>4, <3>1
        <5> QED BY <1>1, <3>1, <5>1
      <4>3. t \notin rows => group'[t] = 0
        BY <3>1, <4>1
      <4>4. group'[t] \in 0..MaxGroups /\ group'[t] <= groups'
        BY <3>1, <4>1, <4>2, <2>1 DEF TransfersOK
      <4> QED BY <4>3, <4>4
    <3> QED BY <3>2, <3>3
  <2>3. group' = [t \in Txns |-> group'[t]]
    BY <1>4
  <2> QED BY <1>4, <2>1, <2>2, <2>3 DEF PairInv, LedgerTypes
<1>10. /\ RequestTypes' /\ job'[r].pairs = {}
       /\ \A q \in Requests \ {r} : job'[q] = job[q]
  BY <1>4, PairEnd DEF PairInv
\* The legs of a group afterwards: what there is yet of a pair, or what was
\* there before and is not rewritten.
<1>11. ASSUME NEW p \in S
       PROVE  LegsAfter(f[p]) = p \cap rows
  <2>1. ASSUME NEW t \in rows, group'[t] = f[p] PROVE t \in p
    <3>1. t \in Txns /\ group[t] <= groups /\ group[t] \in Nat
      BY DEF PairInv, LedgerTypes
    <3>2. group'[t] > groups
      BY <1>8, <2>1
    <3>3. t \in UNION S
      BY <1>1, <1>7, <3>1, <3>2
    <3>4. PICK q \in S : t \in q BY <3>3
    <3>5. f[q] = f[p] BY <1>6, <2>1, <3>4
    <3> QED BY <1>3, <3>4, <3>5
  <2>2. \A t \in p : t \in rows => group'[t] = f[p]
    BY <1>6
  <2> QED BY <1>4, <2>1, <2>2 DEF LegsAfter
<1>12. ASSUME NEW g \in 1..groups
       PROVE  /\ LegsAfter(g) = IF g \in job[r].clear THEN {} ELSE Legs(g) \ UNION S
              /\ LegsAfter(g) \subseteq Legs(g)
  <2>1. ASSUME NEW t \in rows, t \in UNION S PROVE group'[t] # g
    <3>1. PICK p \in S : t \in p BY <2>1
    <3>2. group'[t] = f[p] BY <1>6, <3>1
    <3>3. f[p] > groups BY <1>8
    <3> QED BY <1>1, <3>2, <3>3
  <2>2. ASSUME NEW t \in rows, t \notin UNION S
        PROVE  group'[t] = IF group[t] \in job[r].clear THEN 0 ELSE group[t]
    BY <1>7, <2>2 DEF PairInv, LedgerTypes
  <2>3. g # 0 BY <1>1
  <2>4. \A t \in rows : t \notin UNION S =>
          (group'[t] = g <=> group[t] = g /\ g \notin job[r].clear)
    BY <2>2, <2>3
  <2>5. LegsAfter(g) = {t \in rows : group'[t] = g}
    BY <1>4 DEF LegsAfter
  <2>6. Legs(g) = {t \in rows : group[t] = g}
    BY DEF Legs
  <2> QED BY <2>1, <2>4, <2>5, <2>6
<1>13. parted \subseteq parted' BY <1>4
<1>14. ASSUME NEW q \in Requests PROVE Looked(q)'
  <2>1. CASE q = r
    BY <1>10, <2>1 DEF Looked
  <2>2. CASE q # r
    <3>1. job'[q] = job[q] /\ Looked(q)
      BY <1>10, <2>2 DEF PairInv
    <3>2. ASSUME NEW p \in job[q].pairs, NEW t \in p
          PROVE  \/ group'[t] = 0 \/ group'[t] \in job[q].clear
                 \/ LegsAfter(group'[t]) \subseteq parted'
      <4>1. t \in Txns
        BY <3>1, <3>2, Two DEF Looked
      <4>2. CASE t \in rows /\ t \in UNION S
        <5>1. PICK s \in S : t \in s BY <4>2
        <5>2. t \in Unwritten(r)
          BY <2>2, <3>2 DEF Unwritten
        <5>3. s \subseteq parted'
          BY <1>4, <5>1, <5>2
        <5>4. group'[t] = f[s] /\ LegsAfter(f[s]) = s \cap rows
          BY <1>6, <1>11, <4>2, <5>1
        <5> QED BY <5>3, <5>4
      <4>3. CASE t \notin rows \/ t \notin UNION S
        <5>1. group'[t] = 0 \/ group'[t] = group[t]
          BY <1>7, <4>1, <4>3
        <5>2. CASE group'[t] = group[t] /\ group[t] # 0
          <6>1. \/ group[t] \in job[q].clear \/ Legs(group[t]) \subseteq parted
            BY <3>1, <3>2, <5>2 DEF Looked
          <6>2. group[t] \in 1..groups
            BY <4>1, <5>2, <1>1 DEF PairInv, LedgerTypes
          <6>3. LegsAfter(group[t]) \subseteq Legs(group[t])
            BY <1>12, <6>2
          <6> QED BY <1>13, <5>2, <6>1, <6>3
        <5> QED BY <5>1, <5>2
      <4> QED BY <4>2, <4>3
    <3>3. /\ \A p \in job[q].pairs : Partners(p) /\ (p \subseteq rows' \/ p \subseteq parted')
          /\ \A p, s \in job[q].pairs : p = s \/ p \cap s = {}
      BY <1>4, <1>13, <3>1 DEF Looked
    <3> QED BY <3>1, <3>2, <3>3 DEF Looked, Partners, Legs, LegsAfter
  <2> QED BY <2>1, <2>2
<1>15. PairsWhole'
  <2>1. ASSUME NEW g \in 1..groups'
        PROVE  \/ LegsAfter(g) = {} \/ LegsAfter(g) \cap parted' # {}
               \/ /\ Cardinality(LegsAfter(g)) = 2
                  /\ Cardinality({Account[t] : t \in LegsAfter(g)}) = 2
    <3>1. CASE g \in 1..groups
      <4>1. CASE LegsAfter(g) = Legs(g)
        <5>1. \/ Legs(g) = {} \/ Legs(g) \cap parted # {}
              \/ /\ Cardinality(Legs(g)) = 2
                 /\ Cardinality({Account[t] : t \in Legs(g)}) = 2
          BY <3>1 DEF PairInv, PairsWhole
        <5>2. Legs(g) \cap parted # {} => LegsAfter(g) \cap parted' # {}
          BY <4>1, <1>13
        <5> QED BY <4>1, <5>1, <5>2
      <4>2. CASE \E t \in rows : group[t] = g /\ t \in UNION S /\ g \notin job[r].clear
        <5>1. PICK p \in S : \E t \in p : group[t] = g
          BY <4>2
        <5> PICK t \in p : group[t] = g
          BY <5>1
        <5>2. Legs(g) \subseteq parted
          <6>1. group[t] = 0 \/ group[t] \in job[r].clear \/ Legs(group[t]) \subseteq parted
            BY <1>1 DEF Looked
          <6> QED BY <3>1, <4>2, <6>1, <1>1
        <5>3. LegsAfter(g) \subseteq parted'
          BY <1>12, <1>13, <3>1, <5>2
        <5> QED BY <5>3
      <4>3. CASE g \in job[r].clear
        BY <1>12, <3>1, <4>3
      <4>4. \/ LegsAfter(g) = Legs(g) \/ g \in job[r].clear
            \/ \E t \in rows : group[t] = g /\ t \in UNION S /\ g \notin job[r].clear
        BY <1>12, <3>1 DEF Legs
      <4> QED BY <4>1, <4>2, <4>3, <4>4
    <3>2. CASE \E p \in S : g = f[p]
      <4>1. PICK p \in S : g = f[p]
        BY <3>2
      <4>2. LegsAfter(g) = p \cap rows
        BY <4>1, <1>11
      <4>3. Partners(p) /\ (p \subseteq rows \/ p \subseteq parted)
        BY <1>1 DEF Looked
      <4>4. CASE p \subseteq rows
        <5>1. LegsAfter(g) = p
          BY <4>2, <4>4
        <5> QED BY <4>3, <5>1, Two
      <4>5. CASE p \subseteq parted
        BY <4>2, <4>5, <1>13
      <4> QED BY <4>3, <4>4, <4>5
    <3>3. CASE g \notin 1..groups /\ ~\E p \in S : g = f[p]
      <4>1. LegsAfter(g) = {}
        <5>1. SUFFICES ASSUME NEW t \in rows, group'[t] = g PROVE FALSE
          BY <1>4 DEF LegsAfter
        <5>2. t \in Txns /\ group[t] \in 0..groups
          BY <1>1 DEF PairInv, LedgerTypes
        <5>3. t \notin UNION S
          BY <1>6, <3>3, <5>1
        <5>4. group'[t] = 0 \/ group'[t] = group[t]
          BY <1>7, <5>2, <5>3
        <5> QED BY <1>1, <3>3, <5>1, <5>2, <5>4
      <4> QED BY <4>1
    <3> QED BY <3>1, <3>2, <3>3
  <2> QED BY <2>1 DEF PairsWhole, Legs, LegsAfter
<1> QED BY <1>9, <1>10, <1>14, <1>15 DEF PairInv

LEMMA PairRollback ==
  ASSUME PairInv, NEW r \in Requests, Rollback(r)
  PROVE  PairInv'
<1>1. End(r) /\ UNCHANGED <<rows, group, groups, parted>>
  BY DEF Rollback
<1>2. LedgerTypes' /\ PairsWhole'
  BY <1>1, PairsStay
<1>3. /\ RequestTypes' /\ job'[r].pairs = {}
      /\ \A q \in Requests \ {r} : job'[q] = job[q]
  BY <1>1, PairEnd DEF PairInv
<1>4. ASSUME NEW q \in Requests PROVE Looked(q)'
  BY <1>1, <1>3 DEF PairInv, Looked, Legs
<1> QED BY <1>2, <1>3, <1>4 DEF PairInv

LEMMA PairUnlink ==
  ASSUME TransfersOK, PairInv, NEW h \in 1..MaxGroups, Unlink(h)
  PROVE  PairInv'
<1>1. /\ h \in 1..groups /\ UNCHANGED <<rows, groups, pc, job, parted>>
      /\ group' = [t \in Txns |-> IF group[t] = h THEN 0 ELSE group[t]]
  BY DEF Unlink, Ungrouped
<1>2. LedgerTypes' /\ RequestTypes'
  <2>1. ASSUME NEW t \in Txns
        PROVE  /\ group'[t] \in 0..MaxGroups /\ group'[t] <= groups
               /\ t \notin rows => group'[t] = 0
    <3>1. group'[t] = 0 \/ group'[t] = group[t]
      BY <1>1
    <3>2. 0 \in 0..MaxGroups /\ 0 <= groups
      BY DEF PairInv, LedgerTypes, TransfersOK
    <3> QED BY <3>1, <3>2 DEF PairInv, LedgerTypes
  <2>2. group' = [t \in Txns |-> group'[t]]
    BY <1>1
  <2> QED BY <1>1, <2>1, <2>2 DEF PairInv, LedgerTypes, RequestTypes
<1>3. ASSUME NEW g \in 1..groups
      PROVE  LegsAfter(g) = IF g = h THEN {} ELSE Legs(g)
  BY <1>1 DEF Legs, LegsAfter, PairInv, LedgerTypes
<1>4. ASSUME NEW q \in Requests PROVE Looked(q)'
  <2>1. ASSUME NEW p \in job[q].pairs, NEW t \in p
        PROVE  \/ group'[t] = 0 \/ group'[t] \in job[q].clear
               \/ LegsAfter(group'[t]) \subseteq parted
    <3>1. t \in Txns
      BY <2>1, Two DEF PairInv, Looked
    <3>2. group[t] = 0 \/ group[t] \in job[q].clear \/ Legs(group[t]) \subseteq parted
      BY DEF PairInv, Looked
    <3>3. CASE group'[t] = group[t] /\ group[t] # 0
      <4>1. group[t] \in 1..groups
        BY <3>1, <3>3 DEF PairInv, LedgerTypes
      <4>2. LegsAfter(group[t]) \subseteq Legs(group[t])
        BY <1>3, <4>1
      <4> QED BY <3>2, <3>3, <4>2
    <3> QED BY <1>1, <3>1, <3>3
  <2>2. Looked(q)
    BY DEF PairInv
  <2> QED BY <1>1, <2>1, <2>2 DEF Looked, Partners, Legs, LegsAfter
<1>5. PairsWhole'
  <2>1. ASSUME NEW g \in 1..groups
        PROVE  \/ LegsAfter(g) = {} \/ LegsAfter(g) \cap parted # {}
               \/ /\ Cardinality(LegsAfter(g)) = 2
                  /\ Cardinality({Account[t] : t \in LegsAfter(g)}) = 2
    <3>1. \/ Legs(g) = {} \/ Legs(g) \cap parted # {}
          \/ /\ Cardinality(Legs(g)) = 2
             /\ Cardinality({Account[t] : t \in Legs(g)}) = 2
      BY DEF PairInv, PairsWhole
    <3>2. LegsAfter(g) = {} \/ LegsAfter(g) = Legs(g)
      BY <1>3
    <3> QED BY <3>1, <3>2
  <2> QED BY <1>1, <2>1 DEF PairsWhole, Legs, LegsAfter
<1> QED BY <1>2, <1>4, <1>5 DEF PairInv

LEMMA PairDelete ==
  ASSUME TransfersOK, PairInv, NEW d \in Txns, Delete(d)
  PROVE  PairInv'
<1> DEFINE lost == UNION {p \in UNION {job[q].pairs : q \in Requests} : d \in p}
<1>1. /\ d \in rows /\ rows' = rows \ {d} /\ UNCHANGED <<groups, pc, job>>
      /\ group' = [group EXCEPT ![d] = 0]
      /\ parted' = parted \cup {u \in rows : group[u] = group[d] /\ group[d] # 0} \cup lost
  BY DEF Delete, Ungrouped
<1>2. LedgerTypes' /\ RequestTypes'
  <2>1. 0 \in 0..MaxGroups /\ 0 <= groups
    BY DEF PairInv, LedgerTypes, TransfersOK
  <2>2. RequestTypes'
    BY <1>1 DEF PairInv, RequestTypes
  <2> QED BY <1>1, <2>1, <2>2 DEF PairInv, LedgerTypes
<1>3. parted \subseteq parted'
  BY <1>1
<1>4. ASSUME NEW g \in 1..groups
      PROVE  /\ LegsAfter(g) \subseteq Legs(g)
             /\ LegsAfter(g) = Legs(g) \/ LegsAfter(g) \subseteq parted'
  <2>1. LegsAfter(g) = Legs(g) \ {d}
    BY <1>1 DEF Legs, LegsAfter, PairInv, LedgerTypes
  <2>2. CASE group[d] = g
    BY <1>1, <2>1, <2>2 DEF Legs
  <2>3. CASE group[d] # g
    BY <2>1, <2>3 DEF Legs
  <2> QED BY <2>1, <2>2, <2>3
<1>5. ASSUME NEW q \in Requests PROVE Looked(q)'
  <2>1. Looked(q)
    BY DEF PairInv
  <2>2. ASSUME NEW p \in job[q].pairs
        PROVE  p \subseteq rows' \/ p \subseteq parted'
    <3>1. p \subseteq rows \/ p \subseteq parted
      BY <2>1 DEF Looked
    <3>2. d \in p => p \subseteq lost
      OBVIOUS
    <3> QED BY <1>1, <1>3, <3>1, <3>2
  <2>3. ASSUME NEW p \in job[q].pairs, NEW t \in p
        PROVE  \/ group'[t] = 0 \/ group'[t] \in job[q].clear
               \/ LegsAfter(group'[t]) \subseteq parted'
    <3>1. t \in Txns
      BY <2>1, Two DEF Looked
    <3>2. group[t] = 0 \/ group[t] \in job[q].clear \/ Legs(group[t]) \subseteq parted
      BY <2>1 DEF Looked
    <3>3. CASE group'[t] = group[t] /\ group[t] # 0
      <4>1. group[t] \in 1..groups
        BY <3>1, <3>3 DEF PairInv, LedgerTypes
      <4>2. LegsAfter(group[t]) \subseteq Legs(group[t])
        BY <1>4, <4>1
      <4> QED BY <1>3, <3>2, <3>3, <4>2
    <3>4. group'[t] = 0 \/ group'[t] = group[t]
      BY <1>1, <3>1 DEF PairInv, LedgerTypes
    <3> QED BY <3>3, <3>4
  <2> QED BY <1>1, <2>1, <2>2, <2>3 DEF Looked, Partners, Legs, LegsAfter
<1>6. PairsWhole'
  <2>1. ASSUME NEW g \in 1..groups
        PROVE  \/ LegsAfter(g) = {} \/ LegsAfter(g) \cap parted' # {}
               \/ /\ Cardinality(LegsAfter(g)) = 2
                  /\ Cardinality({Account[t] : t \in LegsAfter(g)}) = 2
    <3>1. \/ Legs(g) = {} \/ Legs(g) \cap parted # {}
          \/ /\ Cardinality(Legs(g)) = 2
             /\ Cardinality({Account[t] : t \in Legs(g)}) = 2
      BY DEF PairInv, PairsWhole
    <3>2. CASE LegsAfter(g) = Legs(g)
      BY <1>3, <3>1, <3>2
    <3>3. CASE LegsAfter(g) \subseteq parted'
      BY <3>3
    <3> QED BY <1>4, <3>2, <3>3
  <2> QED BY <1>1, <2>1 DEF PairsWhole, Legs, LegsAfter
<1> QED BY <1>2, <1>5, <1>6 DEF PairInv

LEMMA PairInvHolds == ASSUME TransfersOK PROVE Spec => []PairInv
<1>1. Init => PairInv
  BY PairInit
<1>2. PairInv /\ [Next]_vars => PairInv'
  <2> SUFFICES ASSUME PairInv, [Next]_vars PROVE PairInv'
    OBVIOUS
  <2>1. CASE UNCHANGED vars
    <3>1. LedgerTypes' /\ PairsWhole'
      BY <2>1, PairsStay DEF vars
    <3>2. RequestTypes' /\ \A r \in Requests : Looked(r)'
      BY <2>1 DEF vars, PairInv, RequestTypes, Looked, Legs
    <3> QED BY <3>1, <3>2 DEF PairInv
  <2>2. ASSUME NEW t \in Txns, Delete(t) PROVE PairInv'
    BY <2>2, PairDelete
  <2>3. ASSUME NEW r \in Requests, Detect(r) PROVE PairInv'
    BY <2>3, PairDetect
  <2>4. ASSUME NEW r \in Requests, Write(r) PROVE PairInv'
    BY <2>4, PairWrite
  <2>5. ASSUME NEW r \in Requests, Rollback(r) PROVE PairInv'
    BY <2>5, PairRollback
  <2>6. ASSUME NEW r \in Requests, NEW t \in Txns, NEW u \in Txns, Link(r, t, u)
        PROVE  PairInv'
    BY <2>6, PairLink
  <2>7. ASSUME NEW g \in 1..MaxGroups, Unlink(g) PROVE PairInv'
    BY <2>7, PairUnlink
  <2> QED BY <2>1, <2>2, <2>3, <2>4, <2>5, <2>6, <2>7 DEF Next
<1> QED BY <1>1, <1>2, PTL DEF Spec

\* Groups, and what each request has looked at, keep their types.
THEOREM TransferTypes == ASSUME TransfersOK PROVE Spec => []TypeOK
<1>1. PairInv => TypeOK
  <2> SUFFICES ASSUME PairInv PROVE TypeOK
    OBVIOUS
  <2>1. \A r \in Requests : \A p \in job[r].pairs : p \subseteq Txns /\ Cardinality(p) = 2
    BY Two DEF PairInv, Looked
  <2> QED BY <2>1 DEF PairInv, LedgerTypes, RequestTypes, TypeOK, Ungrouped
<1> QED BY <1>1, PairInvHolds, PTL

\* Detecting, linking, unlinking and deleting leave each transfer group with two
\* legs on two accounts or with none, but for the groups that history marks.
THEOREM PairsStayWhole == ASSUME TransfersOK PROVE Spec => []PairsWhole
BY PairInvHolds, PTL DEF PairInv

-----------------------------------------------------------------------------
(* Categories.                                                             *)

OrNone(S) == S \cup {"none"}
Row == [in : BOOLEAN, cat : OrNone(Cats), status : {"pending", "normalized", "manual", "deleted"},
        tag : OrNone(Proposals)]
Rule == [there : BOOLEAN, on : BOOLEAN, to : OrNone(Cats), named : BOOLEAN]
Suggestion == [name : Proposals, status : {"pending", "approved", "rejected", "merged"},
               mine : BOOLEAN]
Stages == {"idle", "rules", "apply", "ask", "write", "capture", "resolve", "learn", "staged",
           "applied"}

\* A job is a record of these fields, whatever they hold.
IsJob(j) == j \in [ids : {j.ids}, rules : {j.rules}, all : {j.all}, names : {j.names},
                   result : {j.result}, suggestion : {j.suggestion}, to : {j.to},
                   saved : {j.saved}]

\* What a request has in hand at each stage.
InHand(r) ==
    /\ IsJob(job[r])
    /\ pc[r] = "idle" => job[r] = A!NoJob
    /\ pc[r] \in {"write", "capture"} =>
         \A t \in DOMAIN job[r].result : job[r].result[t].tag \in OrNone(Proposals)
    /\ pc[r] = "capture" =>
         \A t \in job[r].ids : t \in DOMAIN job[r].result /\ job[r].result[t].tag # "none"
    /\ pc[r] = "resolve" => job[r].suggestion \in 1..Len(suggestions)
    /\ pc[r] \in {"staged", "applied"} => job[r].saved \in Row

CatTypes ==
    /\ row \in [Txns -> Row] /\ cat \in [Cats -> {"unused", "live", "gone"}]
    /\ rule \in [A!RuleIds -> Rule] /\ suggestions \in Seq(Suggestion)
    /\ pc \in [Requests -> Stages] /\ DOMAIN job = Requests
    /\ \A r \in Requests : InHand(r)

CatInv == CatTypes /\ A!TypeOK /\ A!ManualKept

LEMMA CatInit ==
  ASSUME A!CategorisationOK, A!Init
  PROVE  CatInv
<1>1. row \in [Txns -> Row] /\ \A t \in Txns : row[t].cat = "none" /\ chosen[t] = "open"
  BY DEF A!CategorisationOK, A!Init, A!Unmade, Row, OrNone
<1>2. /\ cat \in [Cats -> {"unused", "live", "gone"}]
      /\ rule \in [A!RuleIds -> Rule]
      /\ \A q \in A!RuleIds : /\ rule[q].to \in OrNone(A!Live)
                              /\ rule[q].there => rule[q].to # "none"
  <2>1. cat \in [Cats -> {"unused", "live", "gone"}]
    BY DEF A!Init
  <2>2. A!Live \subseteq Cats /\ "none" \notin A!Live
    BY DEF A!Live, A!CategorisationOK
  <2>3. ASSUME NEW q \in A!RuleIds
        PROVE  /\ rule[q] \in Rule /\ rule[q].to \in OrNone(A!Live)
               /\ rule[q].there => rule[q].to # "none"
    <3>1. \/ rule[q] = A!NoRule
          \/ \E c \in A!Live :
               rule[q] = [there |-> TRUE, on |-> TRUE, to |-> c, named |-> FALSE]
      BY DEF A!Init
    <3>2. CASE rule[q] = A!NoRule
      BY <3>2 DEF A!NoRule, Rule, OrNone
    <3>3. ASSUME NEW c \in A!Live,
                 rule[q] = [there |-> TRUE, on |-> TRUE, to |-> c, named |-> FALSE]
          PROVE  /\ rule[q] \in Rule /\ rule[q].to \in OrNone(A!Live)
                 /\ rule[q].there => rule[q].to # "none"
      BY <2>2, <3>3 DEF Rule, OrNone
    <3> QED BY <3>1, <3>2, <3>3
  <2>4. rule \in [A!RuleIds -> Rule]
    <3>1. rule = [q \in A!RuleIds |-> rule[q]]
      BY DEF A!Init
    <3> QED BY <2>3, <3>1
  <2> QED BY <2>1, <2>3, <2>4
<1>3. /\ suggestions \in Seq(Suggestion) /\ Len(suggestions) = 1
  <2>1. [name |-> LoadedTag, status |-> "pending", mine |-> TRUE] \in Suggestion
    BY DEF A!CategorisationOK, Suggestion
  <2>2. suggestions = <<[name |-> LoadedTag, status |-> "pending", mine |-> TRUE]>>
    BY DEF A!Init
  <2> QED BY <2>1, <2>2
<1>4. /\ pc \in [Requests -> Stages] /\ DOMAIN job = Requests
      /\ \A r \in Requests : InHand(r)
  BY DEF A!Init, InHand, IsJob, A!NoJob, Stages
<1>5. chosen \in [Txns -> Cats \cup {"none", "open"}]
  BY DEF A!Init
<1>6. A!TypeOK
  BY <1>1, <1>2, <1>3, <1>4, <1>5 DEF A!TypeOK, InHand, Row, Rule, OrNone
<1> QED BY <1>1, <1>2, <1>3, <1>4, <1>6 DEF CatInv, CatTypes, A!ManualKept

\* The requests: what is not the step's own stays in hand.
LEMMA OthersInHand ==
  ASSUME CatInv, NEW r \in Requests, NEW stage \in Stages, NEW j, A!Become(r, stage, j) \/ A!Start(r, stage, j),
         Len(suggestions') >= Len(suggestions), Len(suggestions) \in Nat, Len(suggestions') \in Nat,
         IsJob(j),
         stage = "idle" => j = A!NoJob,
         stage \in {"write", "capture"} =>
           \A t \in DOMAIN j.result : j.result[t].tag \in OrNone(Proposals),
         stage = "capture" =>
           \A t \in j.ids : t \in DOMAIN j.result /\ j.result[t].tag # "none",
         stage = "resolve" => j.suggestion \in 1..Len(suggestions'),
         stage \in {"staged", "applied"} => j.saved \in Row
  PROVE  /\ pc' \in [Requests -> Stages] /\ DOMAIN job' = Requests
         /\ \A q \in Requests : InHand(q)'
         /\ \A q \in Requests : pc'[q] = "idle" => job'[q] = A!NoJob
<1>1. /\ pc' = [pc EXCEPT ![r] = stage] /\ job' = [job EXCEPT ![r] = j]
  BY DEF A!Become, A!Start
<1>2. pc' \in [Requests -> Stages] /\ DOMAIN job' = Requests
  BY <1>1 DEF CatInv, CatTypes
<1>3. ASSUME NEW q \in Requests PROVE InHand(q)'
  <2>1. CASE q = r
    BY <1>1, <2>1 DEF CatInv, CatTypes, InHand, IsJob
  <2>2. CASE q # r
    <3>1. pc'[q] = pc[q] /\ job'[q] = job[q]
      BY <1>1, <2>2 DEF CatInv, CatTypes
    <3>2. InHand(q)
      BY DEF CatInv, CatTypes
    <3> QED BY <3>1, <3>2 DEF InHand, IsJob
  <2> QED BY <2>1, <2>2
<1> QED BY <1>2, <1>3 DEF InHand

RequestsKept ==
  /\ pc' \in [Requests -> Stages] /\ DOMAIN job' = Requests
  /\ \A q \in Requests : InHand(q)'
  /\ \A q \in Requests : pc'[q] = "idle" => job'[q] = A!NoJob
RowsKept ==
  /\ row' \in [Txns -> Row]
  /\ chosen' \in [Txns -> Cats \cup {"none", "open"}]
  /\ \A t \in Txns : row'[t].cat \in OrNone(A!Live')
  /\ A!ManualKept'
RulesKept ==
  /\ cat' \in [Cats -> {"unused", "live", "gone"}]
  /\ rule' \in [A!RuleIds -> Rule]
  /\ \A q \in A!RuleIds : /\ rule'[q].to \in OrNone(A!Live')
                          /\ rule'[q].there => rule'[q].named \/ rule'[q].to # "none"
ProposalsKept ==
  /\ suggestions' \in Seq(Suggestion)
  /\ \A i, j \in 1..Len(suggestions') :
         (/\ suggestions'[i].name = suggestions'[j].name
          /\ suggestions'[i].status = "pending" /\ suggestions'[j].status = "pending") => i = j

LEMMA Together ==
  ASSUME RequestsKept, RowsKept, RulesKept, ProposalsKept
  PROVE  CatInv'
BY DEF RequestsKept, RowsKept, RulesKept, ProposalsKept, CatInv, CatTypes, A!TypeOK, Row, OrNone

LEMMA RestKept ==
  ASSUME CatInv
  PROVE  /\ UNCHANGED <<row, cat, chosen>> => RowsKept
         /\ UNCHANGED <<cat, rule>> => RulesKept
         /\ UNCHANGED suggestions => ProposalsKept
         /\ UNCHANGED <<pc, job, suggestions>> => RequestsKept
<1>1. UNCHANGED <<row, cat, chosen>> => RowsKept
  BY DEF RowsKept, CatInv, CatTypes, A!TypeOK, A!ManualKept, A!Live, OrNone
<1>2. UNCHANGED <<cat, rule>> => RulesKept
  BY DEF RulesKept, CatInv, CatTypes, A!TypeOK, A!Live, OrNone, A!RuleIds
<1>3. UNCHANGED suggestions => ProposalsKept
  BY DEF ProposalsKept, CatInv, CatTypes, A!TypeOK
<1>4. UNCHANGED <<pc, job, suggestions>> => RequestsKept
  BY DEF RequestsKept, CatInv, CatTypes, A!TypeOK, InHand, IsJob
<1> QED BY <1>1, <1>2, <1>3, <1>4

LEMMA FinishKept ==
  ASSUME CatInv, NEW r \in Requests, A!Finish(r), UNCHANGED suggestions
  PROVE  RequestsKept
<1>1. Len(suggestions) \in Nat /\ Len(suggestions') = Len(suggestions)
  BY DEF CatInv, CatTypes
<1>2. IsJob(A!NoJob)
  BY DEF IsJob, A!NoJob
<1> QED BY <1>1, <1>2, OthersInHand DEF A!Finish, RequestsKept, Stages

\* A job may have any of its fields replaced.
LEMMA JobEdits ==
  ASSUME NEW j, IsJob(j), NEW x, NEW y, NEW z
  PROVE  /\ IsJob([j EXCEPT !.rules = x])
         /\ IsJob([j EXCEPT !.result = x])
         /\ IsJob([j EXCEPT !.ids = x])
         /\ IsJob([j EXCEPT !.ids = x, !.names = y])
         /\ IsJob([j EXCEPT !.suggestion = x, !.to = y])
         /\ IsJob([j EXCEPT !.result = x, !.ids = y])
         /\ IsJob([j EXCEPT !.ids = x, !.rules = y, !.all = z])
         /\ IsJob([j EXCEPT !.ids = x, !.to = y, !.saved = z])
BY DEF IsJob

LEMMA GoesOn ==
  ASSUME CatInv, NEW r \in Requests, NEW stage \in {"rules", "apply", "ask", "learn"}, NEW j,
         A!Become(r, stage, j) \/ A!Start(r, stage, j), IsJob(j), UNCHANGED suggestions
  PROVE  RequestsKept
<1>1. Len(suggestions) \in Nat /\ Len(suggestions') = Len(suggestions)
  BY DEF CatInv, CatTypes
<1>2. stage \in Stages /\ stage \notin {"idle", "write", "capture", "resolve", "staged", "applied"}
  BY DEF Stages
<1> QED BY <1>1, <1>2, OthersInHand DEF RequestsKept

LEMMA GoesOnWriting ==
  ASSUME CatInv, NEW r \in Requests, NEW stage \in {"write", "capture"}, NEW j,
         A!Become(r, stage, j), IsJob(j),
         Len(suggestions') >= Len(suggestions), Len(suggestions') \in Nat,
         \A t \in DOMAIN j.result : j.result[t].tag \in OrNone(Proposals),
         stage = "capture" => \A t \in j.ids : t \in DOMAIN j.result /\ j.result[t].tag # "none"
  PROVE  RequestsKept
<1>1. Len(suggestions) \in Nat
  BY DEF CatInv, CatTypes
<1>2. stage \in Stages /\ stage \notin {"idle", "resolve", "staged", "applied"}
  BY DEF Stages
<1> QED BY <1>1, <1>2, OthersInHand DEF RequestsKept

LEMMA RulesStep ==
  ASSUME CatInv, A!CategorisationOK, NEW r \in Requests
  PROVE  /\ \A t \in Txns : A!Import(r, t) => CatInv'
         /\ A!ReadRules(r) => CatInv'
         /\ \A S \in SUBSET A!RuleIds, m \in BOOLEAN : A!Apply(r, S, m) => CatInv'
         /\ A!ApplyRule(r) => CatInv'
         /\ A!Applied(r) => CatInv'
<1>0. /\ Len(suggestions) \in Nat /\ IsJob(job[r]) /\ IsJob(A!NoJob)
      /\ {"rules", "apply"} \subseteq Stages
  BY DEF CatInv, CatTypes, InHand, IsJob, A!NoJob, Stages
<1>1. ASSUME NEW t \in Txns, A!Import(r, t) PROVE CatInv'
  <2>1. RequestsKept
    <3>1. IsJob([A!NoJob EXCEPT !.ids = {t}])
      BY <1>0, JobEdits
    <3> QED BY <1>1, <3>1, GoesOn DEF A!Import
  <2>2. RowsKept
    <3>1. row[t].in = FALSE /\ row' = [row EXCEPT ![t] = [A!Unmade EXCEPT !.in = TRUE]]
      BY <1>1 DEF A!Import, A!Unmade
    <3>2. [A!Unmade EXCEPT !.in = TRUE] \in Row /\ [A!Unmade EXCEPT !.in = TRUE].cat = "none"
      BY DEF A!Unmade, Row, OrNone
    <3>3. chosen[t] = "open" /\ chosen' = chosen /\ A!Live' = A!Live
      BY <1>1, <3>1 DEF A!Import, CatInv, A!ManualKept, A!Live
    <3> QED BY <3>1, <3>2, <3>3
            DEF RowsKept, CatInv, CatTypes, A!TypeOK, A!ManualKept, OrNone
  <2> QED BY <1>1, <2>1, <2>2, Together, RestKept DEF A!Import
<1>2. ASSUME A!ReadRules(r) PROVE CatInv'
  <2>1. RequestsKept
    <3>1. IsJob([job[r] EXCEPT !.rules = A!Enabled(A!RuleIds)])
      BY <1>0, JobEdits
    <3> QED BY <1>2, <3>1, GoesOn DEF A!ReadRules
  <2> QED BY <1>2, <2>1, Together, RestKept DEF A!ReadRules
<1>3. ASSUME NEW S \in SUBSET A!RuleIds, NEW m \in BOOLEAN, A!Apply(r, S, m) PROVE CatInv'
  <2>1. RequestsKept
    <3>1. IsJob([A!NoJob EXCEPT !.ids = Txns, !.rules = A!Enabled(S), !.all = m])
      BY <1>0, JobEdits
    <3> QED BY <1>3, <3>1, GoesOn DEF A!Apply
  <2> QED BY <1>3, <2>1, Together, RestKept DEF A!Apply
<1>4. ASSUME A!ApplyRule(r) PROVE CatInv'
  <2> DEFINE q == Head(job[r].rules)
             hit == {t \in job[r].ids \cap Fits[q.id] :
                       row[t].in /\ (job[r].all \/ ~A!Protected(t))}
  <2>1. CASE hit # {} /\ q.to # "none" /\ q.to \notin A!Live
    <3>1. A!Finish(r) /\ UNCHANGED <<row, chosen, cat, rule, suggestions>>
      BY <1>4, <2>1 DEF A!ApplyRule
    <3> QED BY <3>1, FinishKept, Together, RestKept
  <2>2. CASE ~(hit # {} /\ q.to # "none" /\ q.to \notin A!Live)
    <3>1. /\ row' = [t \in Txns |->
                    IF t \notin hit THEN row[t]
                    ELSE [row[t] EXCEPT !.status = "normalized",
                            !.cat = IF q.to = "none" THEN @ ELSE q.to]]
          /\ A!Become(r, "apply", [job[r] EXCEPT !.rules = Tail(@)])
          /\ chosen' = [t \in Txns |-> IF t \in hit /\ job[r].all THEN "open" ELSE chosen[t]]
          /\ UNCHANGED <<cat, rule, suggestions>>
      BY <1>4, <2>2 DEF A!ApplyRule
    <3>2. RequestsKept
      <4>1. IsJob([job[r] EXCEPT !.rules = Tail(job[r].rules)])
        BY <1>0, JobEdits
      <4> QED BY <3>1, <4>1, GoesOn
    <3>3. ASSUME NEW t \in Txns
          PROVE  /\ row'[t] \in Row /\ row'[t].cat \in OrNone(A!Live')
                 /\ chosen'[t] # "open" =>
                      row'[t].in /\ row'[t].status = "manual" /\ row'[t].cat = chosen'[t]
      <4>1. CASE t \in hit
        <5>1. hit # {} /\ (q.to = "none" \/ q.to \in A!Live)
          BY <2>2, <4>1
        <5>2. row[t] \in Row /\ row[t].cat \in OrNone(A!Live)
          BY DEF CatInv, CatTypes, A!TypeOK, OrNone
        <5>3. row'[t] = [row[t] EXCEPT !.status = "normalized",
                            !.cat = IF q.to = "none" THEN @ ELSE q.to]
          BY <3>1, <4>1
        <5>4. row'[t] \in Row /\ row'[t].cat \in OrNone(A!Live')
          BY <3>1, <5>1, <5>2, <5>3 DEF Row, OrNone, A!Live
        <5>5. chosen'[t] = "open"
          <6>1. CASE job[r].all
            BY <3>1, <4>1, <6>1
          <6>2. CASE ~job[r].all
            <7>1. chosen'[t] = chosen[t] /\ row[t].status # "manual"
              BY <3>1, <4>1, <6>2 DEF A!Protected
            <7> QED BY <7>1 DEF CatInv, A!ManualKept
          <6> QED BY <6>1, <6>2
        <5> QED BY <5>4, <5>5
      <4>2. CASE t \notin hit
        <5>1. row'[t] = row[t] /\ chosen'[t] = chosen[t] /\ A!Live' = A!Live
          BY <3>1, <4>2 DEF A!Live
        <5> QED BY <5>1 DEF CatInv, CatTypes, A!TypeOK, A!ManualKept, OrNone
      <4> QED BY <4>1, <4>2
    <3>4. chosen' \in [Txns -> Cats \cup {"none", "open"}]
      BY <3>1 DEF CatInv, A!TypeOK
    <3>5. RowsKept
      BY <3>1, <3>3, <3>4 DEF RowsKept, A!ManualKept
    <3> QED BY <3>1, <3>2, <3>5, Together, RestKept
  <2> QED BY <2>1, <2>2
<1>5. ASSUME A!Applied(r) PROVE CatInv'
  BY <1>5, FinishKept, Together, RestKept DEF A!Applied
<1> QED BY <1>1, <1>2, <1>3, <1>4, <1>5

LEMMA ModelStep ==
  ASSUME CatInv, A!CategorisationOK, NEW r \in Requests
  PROVE  /\ \A mode \in {"pending", "all"} : A!AIBegin(r, mode) => CatInv'
         /\ A!AIAnswer(r) => CatInv'
         /\ \A t \in Txns : A!AIWrite(r, t) => CatInv'
         /\ \A t \in Txns : A!Capture(r, t) => CatInv'
         /\ A!Fail(r) => CatInv'
<1>0. /\ Len(suggestions) \in Nat /\ IsJob(job[r]) /\ IsJob(A!NoJob)
      /\ {"ask", "write", "capture"} \subseteq Stages
  BY DEF CatInv, CatTypes, InHand, IsJob, A!NoJob, Stages
<1>1. ASSUME NEW mode \in {"pending", "all"}, A!AIBegin(r, mode) PROVE CatInv'
  <2> DEFINE ids == {t \in Txns : /\ row[t].in
                                  /\ row[t].status \in {"pending"} \cup
                                       (IF mode = "all" THEN {"normalized"} ELSE {})}
  <2>1. RequestsKept
    <3>1. IsJob([A!NoJob EXCEPT !.ids = ids, !.names = A!Live])
      BY <1>0, JobEdits
    <3>2. /\ A!Start(r, "ask", [A!NoJob EXCEPT !.ids = ids, !.names = A!Live])
          /\ UNCHANGED suggestions
      BY <1>1 DEF A!AIBegin
    <3> QED BY <3>1, <3>2, GoesOn
  <2> QED BY <1>1, <2>1, Together, RestKept DEF A!AIBegin
<1>2. ASSUME A!AIAnswer(r) PROVE CatInv'
  <2> DEFINE names == job[r].names
             result(answer) ==
               [t \in job[r].ids |->
                  IF answer[t] \in names
                  THEN [to |-> IF answer[t] \in A!Live THEN answer[t] ELSE "none", tag |-> "none"]
                  ELSE [to |-> "none", tag |-> answer[t]]]
  <2>1. PICK answer \in [job[r].ids -> names \cup (Proposals \ names) \cup {"none"}] :
          A!Become(r, "write", [job[r] EXCEPT !.result = result(answer)])
    BY <1>2 DEF A!AIAnswer
  <2> DEFINE k == [job[r] EXCEPT !.result = result(answer)]
  <2>2. RequestsKept
    <3>1. IsJob(k)
      BY <1>0, JobEdits
    <3>2. k.result = result(answer)
      BY <1>0 DEF IsJob
    <3>3. \A t \in DOMAIN k.result : k.result[t].tag \in OrNone(Proposals)
      <4> SUFFICES ASSUME NEW t \in job[r].ids
                   PROVE  result(answer)[t].tag \in OrNone(Proposals)
        BY <3>2
      <4>1. CASE answer[t] \in names
        BY <4>1 DEF OrNone
      <4>2. CASE answer[t] \notin names
        <5>1. answer[t] \in OrNone(Proposals)
          BY <4>2 DEF OrNone
        <5> QED BY <4>2, <5>1
      <4> QED BY <4>1, <4>2
    <3>4. UNCHANGED suggestions
      BY <1>2 DEF A!AIAnswer
    <3> HIDE DEF k
    <3>5. A!Become(r, "write", k)
      BY <2>1 DEF k
    <3> QED BY <1>0, <3>1, <3>3, <3>4, <3>5, GoesOnWriting
  <2> QED BY <1>2, <2>2, Together, RestKept DEF A!AIAnswer
<1>3. ASSUME NEW t \in Txns, A!AIWrite(r, t) PROVE CatInv'
  <2> DEFINE a == job[r].result[t]
  <2>1. /\ t \in DOMAIN job[r].result /\ a.tag \in OrNone(Proposals)
        /\ UNCHANGED <<cat, rule, suggestions, chosen>> /\ A!Wrote(r, t)
    BY <1>3 DEF A!AIWrite, CatInv, CatTypes, InHand
  <2>0. Len(suggestions') \in Nat /\ Len(suggestions') >= Len(suggestions)
    BY <1>0, <2>1
  <2>2. RequestsKept
    <3>1. CASE a.tag # "none"
      <4> DEFINE k == [job[r] EXCEPT !.ids = {t}]
      <4>1. IsJob(k) /\ k.ids = {t} /\ k.result = job[r].result
        BY <1>0, JobEdits DEF IsJob
      <4>2. A!Become(r, "capture", k)
        BY <2>1, <3>1 DEF A!Wrote
      <4>3. \A u \in DOMAIN k.result : k.result[u].tag \in OrNone(Proposals)
        BY <1>3, <4>1 DEF A!AIWrite, CatInv, CatTypes, InHand
      <4> HIDE DEF k
      <4> QED BY <2>0, <2>1, <3>1, <4>1, <4>2, <4>3, GoesOnWriting
    <3>2. CASE a.tag = "none" /\ DOMAIN job[r].result = {t}
      BY <2>1, <3>2, FinishKept DEF A!Wrote
    <3>3. CASE a.tag = "none" /\ DOMAIN job[r].result # {t}
      <4> DEFINE rest == [u \in DOMAIN job[r].result \ {t} |-> job[r].result[u]]
                 k == [job[r] EXCEPT !.result = rest, !.ids = job[r].ids \ {t}]
      <4>1. IsJob(k) /\ k.result = rest
        BY <1>0, JobEdits DEF IsJob
      <4>2. A!Become(r, "write", k)
        BY <1>0, <2>1, <3>3 DEF A!Wrote, IsJob
      <4>3. \A u \in DOMAIN k.result : k.result[u].tag \in OrNone(Proposals)
        BY <1>3, <4>1 DEF A!AIWrite, CatInv, CatTypes, InHand
      <4> HIDE DEF k
      <4> QED BY <2>0, <4>1, <4>2, <4>3, GoesOnWriting
    <3> QED BY <3>1, <3>2, <3>3
  <2>3. RowsKept
    <3>1. A!Live' = A!Live /\ chosen' = chosen
      BY <2>1 DEF A!Live
    <3>2. CASE row' = row
      BY <2>1, <3>2, RestKept
    <3>3. CASE /\ row[t].in /\ ~A!Protected(t) /\ a.to \in A!Live \cup {"none"}
               /\ row' = [row EXCEPT ![t].cat = a.to, ![t].status = "normalized", ![t].tag = a.tag]
      <4>1. row[t] \in Row /\ a.to \in OrNone(Cats) /\ a.to \in OrNone(A!Live)
        BY <3>3 DEF CatInv, CatTypes, OrNone, A!Live
      <4>2. row' = [row EXCEPT ![t] = [row[t] EXCEPT !.cat = a.to, !.status = "normalized",
                                                     !.tag = a.tag]]
        BY <3>3 DEF CatInv, CatTypes
      <4> DEFINE new == [row[t] EXCEPT !.cat = a.to, !.status = "normalized", !.tag = a.tag]
      <4>3. new \in Row /\ new.cat = a.to
        BY <2>1, <4>1 DEF Row
      <4>4. chosen[t] = "open"
        BY <3>3 DEF A!Protected, CatInv, A!ManualKept
      <4> HIDE DEF new
      <4>5. row' = [row EXCEPT ![t] = new]
        BY <4>2 DEF new
      <4> QED BY <3>1, <4>1, <4>3, <4>4, <4>5
              DEF RowsKept, CatInv, CatTypes, A!TypeOK, A!ManualKept, OrNone
    <3> QED BY <1>3, <3>2, <3>3 DEF A!AIWrite
  <2> QED BY <2>1, <2>2, <2>3, Together, RestKept
<1>4. ASSUME NEW t \in Txns, A!Capture(r, t) PROVE CatInv'
  <2> DEFINE name == job[r].result[t].tag
             rest == DOMAIN job[r].result \ {t}
             new == [name |-> name, status |-> "pending", mine |-> FALSE]
             pending == \E i \in 1..Len(suggestions) :
                          suggestions[i].name = name /\ suggestions[i].status = "pending"
  <2>1. /\ name \in Proposals /\ UNCHANGED <<row, cat, rule, chosen>>
        /\ suggestions' = IF pending THEN suggestions ELSE Append(suggestions, new)
    BY <1>4 DEF A!Capture, CatInv, CatTypes, InHand, OrNone
  <2>2. /\ ProposalsKept /\ Len(suggestions') \in Nat /\ Len(suggestions') >= Len(suggestions)
    <3>1. CASE pending
      BY <1>0, <2>1, <3>1, RestKept
    <3>2. CASE ~pending
      <4>1. new \in Suggestion /\ suggestions \in Seq(Suggestion)
        BY <2>1 DEF Suggestion, CatInv, CatTypes
      <4> HIDE DEF new
      <4>2. suggestions' = Append(suggestions, new)
        BY <2>1, <3>2
      <4>3. /\ suggestions' \in Seq(Suggestion) /\ Len(suggestions') = Len(suggestions) + 1
            /\ \A i \in 1..Len(suggestions) : suggestions'[i] = suggestions[i]
            /\ suggestions'[Len(suggestions) + 1] = new
        BY <4>1, <4>2
      <4>4. new.name = name
        BY DEF new
      <4>5. \A i, j \in 1..Len(suggestions) :
              (/\ suggestions[i].name = suggestions[j].name
               /\ suggestions[i].status = "pending" /\ suggestions[j].status = "pending") => i = j
        BY DEF CatInv, A!TypeOK
      <4> QED BY <1>0, <3>2, <4>3, <4>4, <4>5 DEF ProposalsKept
    <3> QED BY <3>1, <3>2
  <2>3. RequestsKept
    <3>1. CASE rest = {}
      <4>1. A!Become(r, "idle", A!NoJob)
        BY <1>4, <3>1 DEF A!Capture, A!Finish
      <4> QED BY <1>0, <2>2, <4>1, OthersInHand DEF RequestsKept, Stages
    <3>2. CASE rest # {}
      <4> DEFINE left == [u \in rest |-> job[r].result[u]]
                 k == [job[r] EXCEPT !.result = left, !.ids = rest]
      <4>1. IsJob(k) /\ k.result = left
        BY <1>0, JobEdits DEF IsJob
      <4>2. A!Become(r, "write", k)
        BY <1>0, <1>4, <3>2 DEF A!Capture, IsJob
      <4>3. \A u \in DOMAIN k.result : k.result[u].tag \in OrNone(Proposals)
        BY <1>4, <4>1 DEF A!Capture, CatInv, CatTypes, InHand
      <4> HIDE DEF k
      <4> QED BY <2>2, <4>1, <4>2, <4>3, GoesOnWriting
    <3> QED BY <3>1, <3>2
  <2> QED BY <2>1, <2>2, <2>3, Together, RestKept
<1>5. ASSUME A!Fail(r) PROVE CatInv'
  BY <1>5, FinishKept, Together, RestKept DEF A!Fail
<1> QED BY <1>1, <1>2, <1>3, <1>4, <1>5

\* Relinking: the rows tagged with the proposal are given a live category, and
\* with it to the others; a rejection only takes the tag off.
LEMMA Relinked ==
  ASSUME CatInv, A!CategorisationOK, NEW name, NEW c, A!Relink(name, c),
         c = "reject" \/ c \in A!Live', A!Live \subseteq A!Live', A!Live' \subseteq Cats
  PROVE  RowsKept
<1>1. ASSUME NEW t \in Txns
      PROVE  /\ row'[t] \in Row /\ row'[t].cat \in OrNone(A!Live')
             /\ chosen'[t] \in Cats \cup {"none", "open"}
             /\ chosen'[t] # "open" =>
                  row'[t].in /\ row'[t].status = "manual" /\ row'[t].cat = chosen'[t]
  <2>0. /\ row[t] \in Row /\ row[t].cat \in OrNone(A!Live)
        /\ chosen[t] \in Cats \cup {"none", "open"}
        /\ chosen[t] # "open" =>
             row[t].in /\ row[t].status = "manual" /\ row[t].cat = chosen[t]
    BY DEF CatInv, CatTypes, A!TypeOK, A!ManualKept, OrNone
  <2>1. CASE ~row[t].in \/ row[t].tag # name
    BY <2>0, <2>1 DEF A!Relink, OrNone
  <2>2. CASE row[t].in /\ row[t].tag = name /\ c = "reject"
    <3>1. row'[t] = [row[t] EXCEPT !.tag = "none"] /\ chosen'[t] = chosen[t]
      BY <2>2 DEF A!Relink
    <3> QED BY <2>0, <3>1 DEF Row, OrNone
  <2>3. CASE row[t].in /\ row[t].tag = name /\ c # "reject"
    <3>1. /\ row'[t] = [row[t] EXCEPT !.cat = c, !.tag = "none", !.status = "normalized"]
          /\ chosen'[t] = "open"
      BY <2>3 DEF A!Relink
    <3> QED BY <2>0, <2>3, <3>1 DEF Row, OrNone
  <2> QED BY <2>1, <2>2, <2>3
<1>2. row' = [t \in Txns |-> row'[t]] /\ chosen' = [t \in Txns |-> chosen'[t]]
  BY DEF A!Relink
<1>3. row' \in [Txns -> Row] /\ chosen' \in [Txns -> Cats \cup {"none", "open"}]
  BY <1>1, <1>2
<1> QED BY <1>1, <1>3 DEF RowsKept, A!ManualKept

\* A proposal that is answered no longer waits.
LEMMA AnswerKept ==
  ASSUME CatInv, NEW i \in 1..Len(suggestions),
         NEW status \in {"approved", "rejected", "merged"},
         suggestions' = [suggestions EXCEPT ![i].status = status]
  PROVE  ProposalsKept /\ Len(suggestions') = Len(suggestions)
<1>1. suggestions \in Seq(Suggestion) /\ suggestions[i] \in Suggestion
  BY DEF CatInv, CatTypes
<1> DEFINE new == [suggestions[i] EXCEPT !.status = status]
<1>2. new \in Suggestion /\ new.status # "pending" /\ suggestions' = [suggestions EXCEPT ![i] = new]
  BY <1>1 DEF Suggestion
<1> HIDE DEF new
<1>3. /\ suggestions' \in Seq(Suggestion) /\ Len(suggestions') = Len(suggestions)
      /\ \A j \in 1..Len(suggestions) :
           suggestions'[j] = IF j = i THEN new ELSE suggestions[j]
  BY <1>1, <1>2
<1> QED BY <1>2, <1>3 DEF ProposalsKept, CatInv, A!TypeOK

LEMMA AnswerStep ==
  ASSUME CatInv, A!CategorisationOK, NEW r \in Requests
  PROVE  /\ \A i \in 1..Len(suggestions), to \in Cats \cup {"approve", "reject"} :
              A!ResolveRead(r, i, to) => CatInv'
         /\ A!Resolve(r) => CatInv'
<1>0. /\ Len(suggestions) \in Nat /\ IsJob(A!NoJob) /\ "resolve" \in Stages
  BY DEF CatInv, CatTypes, IsJob, A!NoJob, Stages
<1>1. ASSUME NEW i \in 1..Len(suggestions), NEW to \in Cats \cup {"approve", "reject"},
             A!ResolveRead(r, i, to)
      PROVE  CatInv'
  <2> DEFINE k == [A!NoJob EXCEPT !.suggestion = i, !.to = to]
  <2>1. IsJob(k) /\ k.suggestion = i
    BY <1>0, JobEdits DEF A!NoJob
  <2>2. A!Start(r, "resolve", k) /\ UNCHANGED <<row, cat, rule, suggestions, chosen>>
    BY <1>1 DEF A!ResolveRead
  <2> HIDE DEF k
  <2>3. RequestsKept
    BY <1>0, <2>1, <2>2, OthersInHand DEF RequestsKept
  <2> QED BY <2>2, <2>3, Together, RestKept
<1>2. ASSUME A!Resolve(r) PROVE CatInv'
  <2> DEFINE i == job[r].suggestion
             name == suggestions[i].name
             c == job[r].to
  <2>0. /\ i \in 1..Len(suggestions) /\ name \in Proposals /\ name \in Cats
        /\ A!Finish(r) /\ rule' = rule
    <3>1. i \in 1..Len(suggestions) /\ suggestions \in Seq(Suggestion)
      BY <1>2 DEF A!Resolve, CatInv, CatTypes, InHand
    <3>2. suggestions[i] \in Suggestion
      BY <3>1
    <3>3. name \in Proposals /\ name \in Cats
      BY <3>2 DEF Suggestion, A!CategorisationOK
    <3> QED BY <1>2, <3>1, <3>3 DEF A!Resolve
  <2>1. \/ UNCHANGED <<row, cat, suggestions, chosen>>
        \/ /\ suggestions' = [suggestions EXCEPT ![i].status = "approved"]
           /\ cat[name] = "unused" /\ cat' = [cat EXCEPT ![name] = "live"]
           /\ A!Relink(name, name)
        \/ /\ suggestions' = [suggestions EXCEPT ![i].status = "rejected"]
           /\ cat' = cat /\ A!Relink(name, "reject")
        \/ /\ suggestions' = [suggestions EXCEPT ![i].status = "merged"]
           /\ cat' = cat /\ c \in A!Live /\ A!Relink(name, c)
    BY <1>2 DEF A!Resolve
  <2>2. CASE UNCHANGED <<row, cat, suggestions, chosen>>
    BY <2>0, <2>2, FinishKept, Together, RestKept
  <2>3. ASSUME ProposalsKept, Len(suggestions') = Len(suggestions) PROVE RequestsKept
    <3>1. A!Become(r, "idle", A!NoJob)
      BY <2>0 DEF A!Finish
    <3> QED BY <1>0, <2>3, <3>1, OthersInHand DEF RequestsKept, Stages
  <2>4. CASE /\ suggestions' = [suggestions EXCEPT ![i].status = "approved"]
             /\ cat[name] = "unused" /\ cat' = [cat EXCEPT ![name] = "live"]
             /\ A!Relink(name, name)
    <3>1. /\ A!Live \subseteq A!Live' /\ A!Live' \subseteq Cats /\ name \in A!Live'
          /\ cat' \in [Cats -> {"unused", "live", "gone"}]
      BY <2>0, <2>4 DEF A!Live, CatInv, CatTypes
    <3>2. RulesKept
      BY <2>0, <3>1 DEF RulesKept, CatInv, CatTypes, A!TypeOK, OrNone
    <3>3. RowsKept
      BY <2>4, <3>1, Relinked
    <3>4. ProposalsKept /\ Len(suggestions') = Len(suggestions)
      BY <2>0, <2>4, AnswerKept
    <3> QED BY <2>3, <3>2, <3>3, <3>4, Together
  <2>5. ASSUME NEW status \in {"rejected", "merged"}, NEW d, d = "reject" \/ d \in A!Live,
               suggestions' = [suggestions EXCEPT ![i].status = status],
               cat' = cat, A!Relink(name, d)
        PROVE  CatInv'
    <3>1. A!Live' = A!Live /\ A!Live \subseteq Cats
      BY <2>5 DEF A!Live
    <3>2. RowsKept
      BY <2>5, <3>1, Relinked
    <3>3. ProposalsKept /\ Len(suggestions') = Len(suggestions)
      BY <2>0, <2>5, AnswerKept
    <3> QED BY <2>0, <2>3, <2>5, <3>2, <3>3, Together, RestKept
  <2> QED BY <2>1, <2>2, <2>4, <2>5
<1> QED BY <1>1, <1>2

LEMMA UserStep ==
  ASSUME CatInv, A!CategorisationOK
  PROVE  /\ \A S \in SUBSET Txns, c \in Cats \cup {"none"} : A!Edit(S, c) => CatInv'
         /\ \A r \in Requests, t \in Txns, c \in Cats \cup {"none"} : A!Rename(r, t, c) => CatInv'
         /\ \A r \in Requests, t \in Txns : A!Learn(r, t) => CatInv'
         /\ \A q \in A!RuleIds, on \in BOOLEAN, to \in Cats \cup {"none"}, named \in BOOLEAN :
              A!PutRule(q, on, to, named) => CatInv'
         /\ \A q \in A!RuleIds : A!DeleteRule(q) => CatInv'
         /\ \A c \in Cats : A!NewCategory(c) \/ A!DeleteCategories({c}) => CatInv'
         /\ A!DeleteCategories(A!Live) => CatInv'
         /\ \A t \in Txns : A!DeleteTxn(t) => CatInv'
<1>0. /\ row \in [Txns -> Row] /\ chosen \in [Txns -> Cats \cup {"none", "open"}]
      /\ \A t \in Txns : row[t].cat \in OrNone(A!Live)
      /\ \A t \in Txns : chosen[t] # "open" =>
           row[t].in /\ row[t].status = "manual" /\ row[t].cat = chosen[t]
      /\ rule \in [A!RuleIds -> Rule] /\ cat \in [Cats -> {"unused", "live", "gone"}]
      /\ \A q \in A!RuleIds : /\ rule[q].to \in OrNone(A!Live)
                              /\ rule[q].there => rule[q].named \/ rule[q].to # "none"
      /\ A!Live \subseteq Cats
  BY DEF CatInv, CatTypes, A!TypeOK, A!ManualKept, A!Live, OrNone
<1>1. ASSUME NEW S \in SUBSET Txns, NEW c \in Cats \cup {"none"}, A!Edit(S, c) PROVE CatInv'
  <2>1. /\ c \in A!Live \cup {"none"} /\ A!Live' = A!Live /\ \A t \in S : row[t].in
        /\ row' = [t \in Txns |-> IF t \in S THEN [row[t] EXCEPT !.cat = c, !.status = "manual"]
                                  ELSE row[t]]
        /\ chosen' = [t \in Txns |-> IF t \in S THEN c ELSE chosen[t]]
    BY <1>1 DEF A!Edit, A!Live
  <2>2. ASSUME NEW t \in Txns
        PROVE  /\ row'[t] \in Row /\ row'[t].cat \in OrNone(A!Live')
               /\ chosen'[t] # "open" =>
                    row'[t].in /\ row'[t].status = "manual" /\ row'[t].cat = chosen'[t]
    <3>1. CASE t \in S
      <4>1. row'[t] = [row[t] EXCEPT !.cat = c, !.status = "manual"] /\ chosen'[t] = c
        BY <2>1, <3>1
      <4>2. row[t] \in Row /\ row[t].in
        BY <1>0, <2>1, <3>1
      <4> QED BY <2>1, <4>1, <4>2 DEF Row, OrNone
    <3>2. CASE t \notin S
      <4>1. row'[t] = row[t] /\ chosen'[t] = chosen[t]
        BY <2>1, <3>2
      <4> QED BY <1>0, <2>1, <4>1
    <3> QED BY <3>1, <3>2
  <2>3. RowsKept
    BY <1>0, <2>1, <2>2 DEF RowsKept, A!ManualKept
  <2> QED BY <1>1, <2>3, Together, RestKept DEF A!Edit
<1>2. ASSUME NEW r \in Requests, NEW t \in Txns, NEW c \in Cats \cup {"none"}, A!Rename(r, t, c)
      PROVE  CatInv'
  <2>1. /\ c \in A!Live \cup {"none"} /\ A!Live' = A!Live /\ row[t].in
        /\ row' = [row EXCEPT ![t].cat = c, ![t].status = "manual"]
        /\ chosen' = [chosen EXCEPT ![t] = c]
    BY <1>2 DEF A!Rename, A!Live
  <2> DEFINE new == [row[t] EXCEPT !.cat = c, !.status = "manual"]
  <2>2. new \in Row /\ new.in /\ new.cat = c /\ new.status = "manual"
    <3>1. row[t] \in Row /\ row[t].in /\ c \in OrNone(Cats)
      BY <1>0, <2>1 DEF OrNone
    <3> QED BY <3>1 DEF Row
  <2>3. row' = [row EXCEPT ![t] = new]
    BY <1>0, <2>1
  <2> HIDE DEF new
  <2>4. RowsKept
    <3>1. row' \in [Txns -> Row] /\ chosen' \in [Txns -> Cats \cup {"none", "open"}]
      <4>1. c \in Cats \cup {"none", "open"} /\ chosen' = [chosen EXCEPT ![t] = c]
        BY <1>0, <2>1
      <4>2. row \in [Txns -> Row] /\ chosen \in [Txns -> Cats \cup {"none", "open"}]
        BY <1>0
      <4> QED BY <2>2, <2>3, <4>1, <4>2
    <3>2. ASSUME NEW u \in Txns
          PROVE  /\ row'[u].cat \in OrNone(A!Live')
                 /\ chosen'[u] # "open" =>
                      row'[u].in /\ row'[u].status = "manual" /\ row'[u].cat = chosen'[u]
      <4>1. CASE u = t
        BY <1>0, <2>1, <2>2, <2>3, <4>1 DEF OrNone
      <4>2. CASE u # t
        BY <1>0, <2>1, <2>3, <4>2
      <4> QED BY <4>1, <4>2
    <3> QED BY <3>1, <3>2 DEF RowsKept, A!ManualKept
  <2>5. RequestsKept
    <3> DEFINE k == [A!NoJob EXCEPT !.ids = {t}]
    <3>1. IsJob(A!NoJob)
      BY DEF IsJob, A!NoJob
    <3>2. IsJob(k)
      BY <3>1, JobEdits
    <3>3. A!Start(r, "learn", k) /\ UNCHANGED suggestions
      BY <1>2 DEF A!Rename
    <3> HIDE DEF k
    <3> QED BY <3>2, <3>3, GoesOn
  <2> QED BY <1>2, <2>4, <2>5, Together, RestKept DEF A!Rename
<1>3. ASSUME NEW q \in A!RuleIds, NEW new \in Rule, new.to \in OrNone(A!Live),
             new.there => new.named \/ new.to # "none",
             rule' = [rule EXCEPT ![q] = new], cat' = cat
      PROVE  RulesKept
  BY <1>0, <1>3 DEF RulesKept, A!Live
<1>4. ASSUME NEW r \in Requests, NEW t \in Txns, A!Learn(r, t) PROVE CatInv'
  <2> DEFINE q == Verbatim[t]
             new == [there |-> TRUE, on |-> TRUE, to |-> rule[q].to, named |-> TRUE]
  <2>1. q \in A!RuleIds
    BY DEF A!CategorisationOK
  <2>2. /\ rule' = [rule EXCEPT ![q] = new] /\ A!Finish(r)
        /\ UNCHANGED <<row, cat, suggestions, chosen>>
    BY <1>4 DEF A!Learn
  <2>3. new \in Rule /\ new.to \in OrNone(A!Live) /\ (new.there => new.named \/ new.to # "none")
    BY <1>0, <2>1 DEF Rule, OrNone
  <2> HIDE DEF new
  <2> QED BY <1>3, <2>1, <2>2, <2>3, FinishKept, Together, RestKept
<1>5. ASSUME NEW q \in A!RuleIds, NEW on \in BOOLEAN, NEW to \in Cats \cup {"none"},
             NEW named \in BOOLEAN, A!PutRule(q, on, to, named)
      PROVE  CatInv'
  <2> DEFINE new == [there |-> TRUE, on |-> on, to |-> to, named |-> named]
  <2>1. /\ rule' = [rule EXCEPT ![q] = new] /\ UNCHANGED <<row, cat, suggestions, pc, job, chosen>>
    BY <1>5 DEF A!PutRule
  <2>2. new \in Rule /\ new.to \in OrNone(A!Live) /\ (new.there => new.named \/ new.to # "none")
    <3>1. to \in A!Live \cup {"none"} /\ (named \/ to # "none")
      BY <1>5 DEF A!PutRule
    <3> QED BY <3>1 DEF Rule, OrNone
  <2> HIDE DEF new
  <2> QED BY <1>3, <2>1, <2>2, Together, RestKept
<1>6. ASSUME NEW q \in A!RuleIds, A!DeleteRule(q) PROVE CatInv'
  <2>1. /\ rule' = [rule EXCEPT ![q] = A!NoRule]
        /\ UNCHANGED <<row, cat, suggestions, pc, job, chosen>>
    BY <1>6 DEF A!DeleteRule
  <2>2. /\ A!NoRule \in Rule /\ A!NoRule.to \in OrNone(A!Live)
        /\ A!NoRule.there => A!NoRule.named \/ A!NoRule.to # "none"
    BY DEF A!NoRule, Rule, OrNone
  <2> QED BY <1>3, <2>1, <2>2, Together, RestKept
<1>7. ASSUME NEW c \in Cats, A!NewCategory(c) PROVE CatInv'
  <2>1. /\ cat' = [cat EXCEPT ![c] = "live"] /\ UNCHANGED <<row, rule, suggestions, pc, job, chosen>>
        /\ cat' \in [Cats -> {"unused", "live", "gone"}] /\ A!Live \subseteq A!Live'
    BY <1>0, <1>7 DEF A!NewCategory, A!Live
  <2>2. RulesKept /\ RowsKept
    BY <1>0, <2>1 DEF RulesKept, RowsKept, A!ManualKept, OrNone
  <2> QED BY <2>1, <2>2, Together, RestKept
<1>8. ASSUME NEW S \in SUBSET A!Live, A!DeleteCategories(S) PROVE CatInv'
  <2>1. /\ cat' = [c \in Cats |-> IF c \in S THEN "gone" ELSE cat[c]]
        /\ row' = [t \in Txns |-> IF row[t].cat \in S THEN [row[t] EXCEPT !.cat = "none"]
                                  ELSE row[t]]
        /\ rule' = [q \in A!RuleIds |-> IF rule[q].to \in S THEN [rule[q] EXCEPT !.to = "none"]
                                        ELSE rule[q]]
        /\ chosen' = [t \in Txns |-> IF chosen[t] \in S THEN "none" ELSE chosen[t]]
        /\ \A q \in A!RuleIds : rule[q].to \in S => rule[q].named
        /\ UNCHANGED <<suggestions, pc, job>>
    BY <1>8 DEF A!DeleteCategories
  <2>2. /\ cat' \in [Cats -> {"unused", "live", "gone"}] /\ A!Live' = A!Live \ S
        /\ "none" \notin S /\ "open" \notin S
    BY <1>0, <2>1 DEF A!Live, A!CategorisationOK
  <2>3. ASSUME NEW t \in Txns
        PROVE  /\ row'[t] \in Row /\ row'[t].cat \in OrNone(A!Live')
               /\ chosen'[t] \in Cats \cup {"none", "open"}
               /\ chosen'[t] # "open" =>
                    /\ row'[t].in /\ row'[t].status = "manual"
                    /\ row'[t].cat = chosen'[t]
    <3>0. row[t] \in Row /\ row[t].cat \in OrNone(A!Live) /\ chosen[t] \in Cats \cup {"none", "open"}
      BY <1>0
    <3>1. CASE row[t].cat \in S
      <4>1. row'[t] = [row[t] EXCEPT !.cat = "none"]
        BY <2>1, <3>1
      <4>2. /\ row'[t] \in Row /\ row'[t].cat = "none"
            /\ row'[t].in = row[t].in /\ row'[t].status = row[t].status
        BY <3>0, <4>1 DEF Row, OrNone
      <4>3. chosen'[t] = IF chosen[t] \in S THEN "none" ELSE chosen[t]
        BY <2>1
      <4>4. chosen[t] \in {"open", "none"} \/ chosen[t] = row[t].cat
        BY <1>0, <3>1
      <4>5. chosen'[t] \in {"open", "none"} /\ (chosen'[t] # "open" => chosen[t] # "open")
        BY <2>2, <3>1, <4>3, <4>4
      <4> QED BY <1>0, <2>2, <4>2, <4>5 DEF OrNone
    <3>2. CASE row[t].cat \notin S
      <4>1. row'[t] = row[t] /\ chosen'[t] = IF chosen[t] \in S THEN "none" ELSE chosen[t]
        BY <2>1, <3>2
      <4>2. chosen[t] \notin S
        BY <1>0, <2>2, <3>2
      <4> QED BY <1>0, <2>2, <3>0, <3>2, <4>1, <4>2 DEF OrNone
    <3> QED BY <3>1, <3>2
  <2>4. RowsKept
    BY <2>1, <2>3 DEF RowsKept, A!ManualKept
  <2>5. ASSUME NEW q \in A!RuleIds
        PROVE  /\ rule'[q] \in Rule /\ rule'[q].to \in OrNone(A!Live')
               /\ rule'[q].there => rule'[q].named \/ rule'[q].to # "none"
    <3>0. rule[q] \in Rule /\ rule[q].to \in OrNone(A!Live)
      BY <1>0
    <3>1. CASE rule[q].to \in S
      <4>1. rule'[q] = [rule[q] EXCEPT !.to = "none"] /\ rule[q].named
        BY <2>1, <3>1
      <4> QED BY <3>0, <4>1 DEF Rule, OrNone
    <3>2. CASE rule[q].to \notin S
      BY <1>0, <2>1, <2>2, <3>2 DEF OrNone
    <3> QED BY <3>1, <3>2
  <2>6. RulesKept
    BY <2>1, <2>2, <2>5 DEF RulesKept
  <2> QED BY <2>1, <2>4, <2>6, Together, RestKept
<1>10. ASSUME NEW S, A!DeleteCategories(S) PROVE CatInv'
  BY <1>8, <1>10 DEF A!DeleteCategories
<1>9. ASSUME NEW t \in Txns, A!DeleteTxn(t) PROVE CatInv'
  <2>1. A!Deleted \in Row /\ A!Deleted.cat = "none"
    BY DEF A!Deleted, A!Unmade, Row, OrNone
  <2>2. /\ row' = [row EXCEPT ![t] = A!Deleted] /\ chosen' = [chosen EXCEPT ![t] = "open"]
        /\ A!Live' = A!Live
    BY <1>9 DEF A!DeleteTxn, A!Live
  <2>3. RowsKept
    BY <1>0, <2>1, <2>2 DEF RowsKept, A!ManualKept, OrNone
  <2> QED BY <1>9, <2>3, Together, RestKept DEF A!DeleteTxn
<1> QED BY <1>1, <1>2, <1>4, <1>5, <1>6, <1>7, <1>9, <1>10

\* What the bill matcher, the assistant and its undo write.
LEMMA TagStep ==
  ASSUME CatInv, A!CategorisationOK
  PROVE  /\ \A t \in Txns, c \in Cats : A!MatchFill(t, c) => CatInv'
         /\ \A S \in SUBSET Txns, c \in Cats \cup {"none"} : A!Recategorise(S, c) => CatInv'
         /\ \A r \in Requests, t \in Txns, c \in Cats \cup {"none"} : A!StageLook(r, t, c) => CatInv'
         /\ \A r \in Requests, t \in Txns : A!StageWrite(r, t) => CatInv'
         /\ \A r \in Requests, t \in Txns : A!StageUndo(r, t) => CatInv'
<1>0. /\ row \in [Txns -> Row] /\ chosen \in [Txns -> Cats \cup {"none", "open"}]
      /\ \A t \in Txns : row[t].cat \in OrNone(A!Live)
      /\ \A t \in Txns : chosen[t] # "open" =>
           /\ row[t].in /\ row[t].status = "manual"
           /\ row[t].cat = chosen[t]
      /\ A!Live \subseteq Cats
      /\ Len(suggestions) \in Nat /\ IsJob(A!NoJob)
      /\ {"staged", "applied", "idle"} \subseteq Stages
  BY DEF CatInv, CatTypes, A!TypeOK, A!ManualKept, A!Live, OrNone, IsJob, A!NoJob, Stages
<1>1. ASSUME UNCHANGED cat, row' \in [Txns -> Row],
             chosen' \in [Txns -> Cats \cup {"none", "open"}],
             \A t \in Txns :
               /\ row'[t].cat \in OrNone(A!Live)
               /\ chosen'[t] # "open" =>
                    /\ row'[t].in /\ row'[t].status = "manual"
                    /\ row'[t].cat = chosen'[t]
      PROVE  RowsKept
  <2>1. A!Live' = A!Live
    BY <1>1 DEF A!Live
  <2> QED BY <1>1, <2>1 DEF RowsKept, A!ManualKept
<1>2. ASSUME NEW S \in SUBSET Txns, NEW c, \A t \in S : row[t].in, A!Retag(S, c), UNCHANGED cat
      PROVE  RowsKept
  <2> DEFINE to == IF c \in A!Live THEN c ELSE "none"
  <2>1. /\ row' = [t \in Txns |-> IF t \in S THEN [row[t] EXCEPT !.cat = to] ELSE row[t]]
        /\ chosen' = [t \in Txns |-> IF t \in S /\ chosen[t] # "open" THEN to ELSE chosen[t]]
        /\ to \in OrNone(A!Live) /\ to \in OrNone(Cats)
    BY <1>0, <1>2 DEF A!Retag, OrNone
  <2> HIDE DEF to
  <2>2. ASSUME NEW t \in Txns
        PROVE  /\ row'[t] \in Row /\ row'[t].cat \in OrNone(A!Live)
               /\ chosen'[t] \in Cats \cup {"none", "open"}
               /\ chosen'[t] # "open" =>
                    /\ row'[t].in /\ row'[t].status = "manual"
                    /\ row'[t].cat = chosen'[t]
    <3>1. CASE t \in S
      <4>1. /\ row'[t] = [row[t] EXCEPT !.cat = to]
            /\ chosen'[t] = IF chosen[t] # "open" THEN to ELSE "open"
        BY <2>1, <3>1
      <4>2. /\ row'[t] \in Row /\ row'[t].cat = to
            /\ row'[t].in = row[t].in /\ row'[t].status = row[t].status
        BY <1>0, <2>1, <4>1 DEF Row
      <4> QED BY <1>0, <2>1, <4>1, <4>2 DEF OrNone
    <3>2. CASE t \notin S
      BY <1>0, <2>1, <3>2
    <3> QED BY <3>1, <3>2
  <2>3. row' \in [Txns -> Row] /\ chosen' \in [Txns -> Cats \cup {"none", "open"}]
    BY <2>1, <2>2
  <2> QED BY <1>1, <1>2, <2>2, <2>3
<1>3. ASSUME NEW t \in Txns, NEW c \in Cats, A!MatchFill(t, c) PROVE CatInv'
  <2> DEFINE new == [row[t] EXCEPT !.cat = c]
             own == IF chosen[t] = "open" THEN "open" ELSE c
  <2>1. /\ row' = [row EXCEPT ![t].cat = c] /\ c \in A!Live
        /\ chosen' = [chosen EXCEPT ![t] = own]
        /\ UNCHANGED <<cat, rule, suggestions, pc, job>>
    BY <1>0, <1>3 DEF A!MatchFill
  <2>2. /\ new \in Row /\ new.cat = c /\ new.in = row[t].in /\ new.status = row[t].status
        /\ row' = [row EXCEPT ![t] = new]
    <3>1. row[t] \in Row /\ c \in OrNone(Cats)
      BY <1>0 DEF OrNone
    <3> QED BY <1>0, <2>1, <3>1 DEF Row
  <2>3. /\ own \in Cats \cup {"none", "open"}
        /\ own # "open" => chosen[t] # "open" /\ own = c
    OBVIOUS
  <2> HIDE DEF new, own
  <2>4. RowsKept
    BY <1>0, <1>1, <2>1, <2>2, <2>3 DEF OrNone
  <2> QED BY <2>1, <2>4, Together, RestKept
<1>4. ASSUME NEW S \in SUBSET Txns, NEW c \in Cats \cup {"none"}, A!Recategorise(S, c) PROVE CatInv'
  <2>1. /\ A!Retag(S, c) /\ \A t \in S : row[t].in
        /\ UNCHANGED <<cat, rule, suggestions, pc, job>>
    BY <1>4 DEF A!Recategorise
  <2> QED BY <1>2, <2>1, Together, RestKept
<1>5. ASSUME NEW r \in Requests, NEW t \in Txns, NEW c \in Cats \cup {"none"}, A!StageLook(r, t, c)
      PROVE  CatInv'
  <2> DEFINE k == [A!NoJob EXCEPT !.ids = {t}, !.to = c, !.saved = row[t]]
  <2>1. IsJob(k) /\ k.saved = row[t] /\ row[t] \in Row
    BY <1>0, JobEdits DEF A!NoJob
  <2>2. A!Start(r, "staged", k) /\ UNCHANGED <<row, cat, rule, suggestions, chosen>>
    BY <1>5 DEF A!StageLook
  <2> HIDE DEF k
  <2>3. RequestsKept
    BY <1>0, <2>1, <2>2, OthersInHand DEF RequestsKept
  <2> QED BY <2>2, <2>3, Together, RestKept
<1>6. ASSUME NEW r \in Requests, pc[r] \in {"staged", "applied"}, A!Become(r, "applied", job[r]),
             UNCHANGED suggestions
      PROVE  RequestsKept
  <2>1. IsJob(job[r]) /\ job[r].saved \in Row
    BY <1>6 DEF CatInv, CatTypes, InHand
  <2> QED BY <1>0, <1>6, <2>1, OthersInHand DEF RequestsKept
<1>7. ASSUME NEW r \in Requests, NEW t \in Txns, A!StageWrite(r, t) PROVE CatInv'
  <2>1. /\ pc[r] = "staged" /\ A!Become(r, "applied", job[r]) /\ row[t].in
        /\ A!Retag({t}, job[r].to) /\ UNCHANGED <<cat, rule, suggestions>>
    BY <1>7 DEF A!StageWrite
  <2> QED BY <1>2, <1>6, <2>1, Together, RestKept
<1>8. ASSUME NEW r \in Requests, NEW t \in Txns, A!StageUndo(r, t) PROVE CatInv'
  <2> DEFINE was == job[r].saved
             new == [row[t] EXCEPT !.cat = was.cat, !.status = was.status]
             own == IF was.status = "manual" THEN was.cat ELSE "open"
  <2>1. /\ pc[r] = "applied" /\ UNCHANGED <<cat, rule, suggestions>>
        /\ A!Finish(r) \/ A!Become(r, "applied", job[r])
        /\ \/ /\ row[t].in /\ was.cat \in A!Live \cup {"none"}
              /\ row' = [row EXCEPT ![t] = new] /\ chosen' = [chosen EXCEPT ![t] = own]
           \/ UNCHANGED <<row, chosen>>
    BY <1>0, <1>8 DEF A!StageUndo
  <2>2. RequestsKept
    BY <1>6, <2>1, FinishKept
  <2>3. was \in Row
    BY <2>1 DEF CatInv, CatTypes, InHand
  <2>4. CASE /\ row[t].in /\ was.cat \in A!Live \cup {"none"}
             /\ row' = [row EXCEPT ![t] = new] /\ chosen' = [chosen EXCEPT ![t] = own]
    <3>1. row[t] \in Row
      BY <1>0
    <3>2. /\ new \in Row /\ new.cat = was.cat /\ new.in = row[t].in /\ new.status = was.status
      BY <2>3, <3>1 DEF Row
    <3>3. own \in Cats \cup {"none", "open"} /\ (own # "open" => was.status = "manual" /\ own = was.cat)
      BY <2>3 DEF Row, OrNone
    <3> HIDE DEF new, own, was
    <3>4. RowsKept
      BY <1>0, <1>1, <2>1, <2>4, <3>2, <3>3 DEF OrNone
    <3> QED BY <2>1, <2>2, <3>4, Together, RestKept
  <2>5. CASE UNCHANGED <<row, chosen>>
    BY <2>1, <2>2, <2>5, Together, RestKept
  <2> QED BY <2>1, <2>4, <2>5
<1> QED BY <1>3, <1>4, <1>5, <1>7, <1>8

LEMMA CatStep ==
  ASSUME CatInv, A!CategorisationOK, [A!Next]_(A!vars)
  PROVE  CatInv'
<1>1. CASE A!Next
  BY <1>1, RulesStep, ModelStep, AnswerStep, UserStep, TagStep DEF A!Next
<1>2. CASE UNCHANGED A!vars
  BY <1>2, Together, RestKept DEF A!vars
<1> QED BY <1>1, <1>2

LEMMA CatInvHolds == ASSUME A!CategorisationOK PROVE A!Spec => []CatInv
<1>1. A!Init => CatInv
  BY CatInit
<1>2. CatInv /\ [A!Next]_(A!vars) => CatInv'
  BY CatStep
<1> QED BY <1>1, <1>2, PTL DEF A!Spec

\* Rows, categories, rules, proposals and what each writer has in hand keep their
\* types, the foreign keys of a category included.
THEOREM CategoryTypes == ASSUME A!CategorisationOK PROVE A!Spec => []A!TypeOK
<1>1. CatInv => A!TypeOK
  BY DEF CatInv
<1> QED BY <1>1, CatInvHolds, PTL

\* A category the user has chosen stays chosen: no rule, import, bill, proposal
\* or late answer of a model writes over it, and a row without one stays the
\* user's to all but the bill matcher.
THEOREM ManualStays == ASSUME A!CategorisationOK PROVE A!Spec => []A!ManualKept
<1>1. CatInv => A!ManualKept
  BY DEF CatInv
<1> QED BY <1>1, CatInvHolds, PTL

-----------------------------------------------------------------------------
(* The parts of transactions and accounts.                                 *)

\* What can be stored for any whole, and what a request can hold.
Stored == UNION {UNION {C!Rows(w, d, n) : d \in Divisions[w], n \in 0..MaxStarts} : w \in C!Wholes}
Held == [whole : C!Wholes \cup {C!None},
         division : (UNION {Divisions[w] : w \in C!Wholes}) \cup {<<>>}, seen : SUBSET Stored]

ShareTypes ==
    /\ present \subseteq Participants /\ starts \in 0..MaxStarts
    /\ rows \in [C!Wholes -> SUBSET Stored] /\ shrunk \subseteq Accounts
    /\ pc \in [Requests -> {"idle", "delete", "insert"}] /\ job \in [Requests -> Held]
    /\ \A r \in Requests :
         /\ pc[r] = "idle" => job[r] = C!NoJob
         /\ pc[r] # "idle" => /\ job[r].whole \in C!Wholes /\ starts > 0
                              /\ job[r].division \in Divisions[job[r].whole]

\* A part is of the right kind, and of an account it is there, once.
PartsHold ==
    /\ \A w \in C!Wholes : \A line \in rows[w] : line.part \in C!Parts(w) /\ line.put \in 1..starts
    /\ \A a \in Accounts :
         /\ \A s, t \in rows[a] : s.part = t.part => s = t
         /\ \A s \in rows[a] : s.part \in present

CustodyHolds == \A p \in custody : p \in C!Period /\ p.who \in present /\ p.from <= p.to

\* A whole that no two requests divide at once: whoever is about to insert is
\* alone, and what is there is what it has deleted.
Alone ==
    \A r \in Requests : pc[r] = "insert" /\ job[r].whole \notin mixed =>
      /\ rows[job[r].whole] \subseteq job[r].seen
      /\ \A q \in Requests \ {r} : pc[q] = "insert" => job[q].whole # job[r].whole

\* What such a whole is divided into is one division, as a request put it.
Entire ==
    \A w \in C!Wholes \ (mixed \cup shrunk) :
      \/ rows[w] = {}
      \/ \E d \in Divisions[w], n \in 0..MaxStarts : DOMAIN d # {} /\ rows[w] = C!Rows(w, d, n)

ShareInv == ShareTypes /\ PartsHold /\ CustodyHolds /\ Alone /\ Entire

-----------------------------------------------------------------------------
(* Sums: what the fold of the library comes to, by induction over the size *)
(* of what has been summed.                                                *)

\* The library's theorem on well-founded orders, as an induction over Nat for
\* a set of numbers.
LEMMA Induct ==
  ASSUME NEW S, 0 \in S, \A n \in Nat : n \in S => n + 1 \in S
  PROVE  \A n \in Nat : n \in S
<1> DEFINE R == OpToRel(<, Nat)
           T == Nat \ S
<1>1. SUFFICES ASSUME T # {} PROVE FALSE
  OBVIOUS
<1>2. IsWellFoundedOn(R, Nat)
  BY NatLessThanWellFounded
<1>3. \E t \in T : \A u \in T : ~(<<u, t>> \in R)
  <2>1. T \subseteq Nat
    OBVIOUS
  <2> HIDE DEF R, T
  <2> QED BY <1>1, <1>2, <2>1, WFMin
<1>4. PICK t \in T : \A u \in T : ~(u < t)
  <2>1. PICK t \in T : \A u \in T : ~(<<u, t>> \in R)
    BY <1>3
  <2> QED BY <2>1 DEF OpToRel
<1>5. t # 0 /\ t - 1 \in Nat
  BY <1>4
<1>6. t - 1 \in S
  BY <1>4, <1>5
<1> QED BY <1>4, <1>5, <1>6

\* The row the fold takes from s, and what g, right about the rest, makes of s.
First(s) == CHOOSE x \in s : TRUE
SumAt(F, g, s) == IF s = {} THEN 0 ELSE F[First(s)] + g[s \ {First(s)}]
Sums(F, S, g) == g = [s \in SUBSET S |-> SumAt(F, g, s)]

LEMMA Smaller ==
  ASSUME NEW S, IsFiniteSet(S), NEW s \in SUBSET S, s # {}
  PROVE  /\ First(s) \in s /\ s \ {First(s)} \in SUBSET S
         /\ Cardinality(s) \in Nat /\ Cardinality(s \ {First(s)}) = Cardinality(s) - 1
         /\ Cardinality(s) <= Cardinality(S)
<1>1. First(s) \in s
  BY DEF First
<1>2. IsFiniteSet(s) /\ Cardinality(s) <= Cardinality(S) /\ Cardinality(s) \in Nat
  BY FS_Subset, FS_CardinalityType
<1>3. Cardinality(s \ {First(s)}) = Cardinality(s) - 1
  BY <1>1, <1>2, FS_RemoveElement
<1> QED BY <1>1, <1>2, <1>3

LEMMA SumsExist ==
  ASSUME NEW S, IsFiniteSet(S), NEW F
  PROVE  \E g : Sums(F, S, g)
<1> DEFINE UpTo(n, g) == \A s \in SUBSET S : Cardinality(s) <= n => g[s] = SumAt(F, g, s)
           N == {n \in Nat : \E g : UpTo(n, g)}
<1>1. \A s \in SUBSET S : Cardinality(s) \in Nat /\ Cardinality(s) <= Cardinality(S)
                          /\ (Cardinality(s) = 0 => s = {})
  <2> SUFFICES ASSUME NEW s \in SUBSET S
               PROVE  Cardinality(s) \in Nat /\ Cardinality(s) <= Cardinality(S)
                      /\ (Cardinality(s) = 0 => s = {})
    OBVIOUS
  <2>1. IsFiniteSet(s)
    BY FS_Subset
  <2> QED BY <2>1, FS_Subset, FS_CardinalityType, FS_EmptySet
<1>2. 0 \in N
  <2> DEFINE g == [s \in SUBSET S |-> 0]
  <2>1. UpTo(0, g)
    BY <1>1 DEF SumAt
  <2> QED BY <2>1
<1>3. ASSUME NEW n \in Nat, n \in N PROVE n + 1 \in N
  <2>1. PICK g : UpTo(n, g)
    BY <1>3
  <2> DEFINE h == [s \in SUBSET S |-> IF Cardinality(s) <= n THEN g[s] ELSE SumAt(F, g, s)]
  <2>2. ASSUME NEW s \in SUBSET S, Cardinality(s) <= n + 1 PROVE h[s] = SumAt(F, h, s)
    <3>1. h[s] = SumAt(F, g, s)
      BY <2>1
    <3>2. CASE s = {}
      BY <3>1, <3>2 DEF SumAt
    <3>3. CASE s # {}
      <4>1. s \ {First(s)} \in SUBSET S /\ Cardinality(s \ {First(s)}) <= n
        BY <2>2, <3>3, Smaller
      <4>2. h[s \ {First(s)}] = g[s \ {First(s)}]
        BY <4>1
      <4> HIDE DEF h
      <4> QED BY <3>1, <3>3, <4>2 DEF SumAt
    <3> QED BY <3>2, <3>3
  <2> HIDE DEF h
  <2>3. UpTo(n + 1, h)
    BY <2>2
  <2> QED BY <2>3
<1>4. Cardinality(S) \in N
  <2>1. \A n \in Nat : n \in N
    <3> HIDE DEF N
    <3> QED BY <1>2, <1>3, Induct
  <2> QED BY <2>1, FS_CardinalityType
<1>5. PICK g : UpTo(Cardinality(S), g)
  BY <1>4
<1> DEFINE h == [s \in SUBSET S |-> g[s]]
<1>6. ASSUME NEW s \in SUBSET S PROVE h[s] = SumAt(F, h, s)
  <2>1. g[s] = SumAt(F, g, s)
    BY <1>1, <1>5
  <2>2. s # {} => s \ {First(s)} \in SUBSET S
    OBVIOUS
  <2> QED BY <2>1, <2>2 DEF SumAt
<1>7. h = [s \in SUBSET S |-> SumAt(F, h, s)]
  <2> DEFINE k == [s \in SUBSET S |-> SumAt(F, h, s)]
  <2>1. \A s \in SUBSET S : h[s] = k[s]
    BY <1>6
  <2>2. h = k
    BY <2>1
  <2> QED BY <2>2
<1> HIDE DEF h
<1> QED BY <1>7 DEF Sums

\* Two sums, row by row at most e apart.
LEMMA SumsNear ==
  ASSUME NEW S, IsFiniteSet(S), NEW F \in [S -> Int], NEW G \in [S -> Int], NEW e \in {0, 5},
         \A x \in S : C!Near(F[x], G[x], e),
         NEW f, Sums(F, S, f), NEW g, Sums(G, S, g)
  PROVE  f[S] \in Int /\ g[S] \in Int /\ C!Near(f[S], g[S], e * Cardinality(S))
<1> DEFINE Close(s) == /\ f[s] \in Int /\ g[s] \in Int
                       /\ C!Near(f[s], g[s], e * Cardinality(s))
           N == {n \in Nat : \A s \in SUBSET S : Cardinality(s) = n => Close(s)}
<1>0. \A s \in SUBSET S : f[s] = SumAt(F, f, s) /\ g[s] = SumAt(G, g, s)
  <2>1. f = [s \in SUBSET S |-> SumAt(F, f, s)] /\ g = [s \in SUBSET S |-> SumAt(G, g, s)]
    BY DEF Sums
  <2> QED BY <2>1
<1>1. ASSUME NEW s \in SUBSET S, s = {} PROVE Close(s)
  <2>1. f[s] = 0 /\ g[s] = 0 /\ Cardinality(s) = 0
    BY <1>0, <1>1, FS_EmptySet DEF SumAt
  <2> QED BY <2>1 DEF C!Near
<1>2. 0 \in N
  <2> SUFFICES ASSUME NEW s \in SUBSET S, Cardinality(s) = 0 PROVE Close(s)
    OBVIOUS
  <2>1. s = {}
    BY FS_Subset, FS_EmptySet
  <2> QED BY <1>1, <2>1
<1>3. ASSUME NEW n \in Nat, n \in N PROVE n + 1 \in N
  <2> SUFFICES ASSUME NEW s \in SUBSET S, Cardinality(s) = n + 1 PROVE Close(s)
    OBVIOUS
  <2>0. Cardinality({}) = 0 /\ n + 1 # 0
    BY FS_EmptySet
  <2>1. s # {}
    BY <2>0
  <2> DEFINE x == First(s)
             rest == s \ {x}
  <2>2. x \in S /\ rest \in SUBSET S /\ Cardinality(rest) = n
    BY <2>1, Smaller
  <2>3. Close(rest)
    BY <1>3, <2>2
  <2>4. f[s] = F[x] + f[rest] /\ g[s] = G[x] + g[rest]
    BY <1>0, <2>1 DEF SumAt
  <2>5. F[x] \in Int /\ G[x] \in Int /\ C!Near(F[x], G[x], e)
    BY <2>2
  <2> DEFINE k == e * n
  <2>6. k \in Int /\ e * Cardinality(s) = k + e /\ e * Cardinality(rest) = k
    BY <2>2
  <2> HIDE DEF x, rest, k
  <2> QED BY <2>2, <2>3, <2>4, <2>5, <2>6 DEF C!Near
<1>4. \A n \in Nat : n \in N
  <2> HIDE DEF N
  <2> QED BY <1>2, <1>3, Induct
<1>5. Cardinality(S) \in Nat
  BY FS_CardinalityType
<1> QED BY <1>4, <1>5

\* The two sums of the model are such sums.
LEMMA TotalSums ==
  ASSUME NEW S, IsFiniteSet(S)
  PROVE  \E g : Sums([row1 \in S |-> row1.size], S, g) /\ C!Total(S) = g[S]
<1> DEFINE F == [row1 \in S |-> row1.size]
           Is(g) == g = [s \in SUBSET S |->
                           IF s = {} THEN 0
                           ELSE LET x == CHOOSE x \in s : TRUE IN x.size + g[s \ {x}]]
           it == CHOOSE g : Is(g)
<1>1. C!Total(S) = it[S]
  BY Zenon DEF C!Total, C!MapThenSumSet, C!MapThenFoldSet
<1>2. ASSUME NEW g PROVE Is(g) <=> Sums(F, S, g)
  <2>1. ASSUME NEW s \in SUBSET S
        PROVE  SumAt(F, g, s) = IF s = {} THEN 0
                                ELSE LET x == CHOOSE x \in s : TRUE IN x.size + g[s \ {x}]
    <3>1. CASE s = {}
      BY <3>1 DEF SumAt
    <3>2. CASE s # {}
      <4>1. First(s) \in S
        BY <3>2 DEF First
      <4>2. F[First(s)] = First(s).size
        BY <4>1
      <4> HIDE DEF F
      <4> QED BY <3>2, <4>2 DEF SumAt, First
    <3> QED BY <3>1, <3>2
  <2> HIDE DEF F
  <2> QED BY <2>1 DEF Sums
<1>3. \E g : Is(g)
  <2> HIDE DEF F, Is
  <2> QED BY <1>2, SumsExist
<1>4. Is(it)
  BY <1>3
<1> HIDE DEF it
<1>5. Sums(F, S, it)
  BY <1>2, <1>4
<1> QED BY <1>1, <1>5

LEMMA AskedSums ==
  ASSUME NEW w, NEW d, NEW n, IsFiniteSet(C!Rows(w, d, n))
  PROVE  \E g : /\ Sums([row1 \in C!Rows(w, d, n) |-> d[row1.part]], C!Rows(w, d, n), g)
               /\ C!Asked(w, d, n) = g[C!Rows(w, d, n)]
<1> DEFINE S == C!Rows(w, d, n)
           F == [row1 \in S |-> d[row1.part]]
           Is(g) == g = [s \in SUBSET S |->
                           IF s = {} THEN 0
                           ELSE LET x == CHOOSE x \in s : TRUE IN d[x.part] + g[s \ {x}]]
           it == CHOOSE g : Is(g)
<1>1. C!Asked(w, d, n) = it[S]
  BY Zenon DEF C!Asked, C!MapThenSumSet, C!MapThenFoldSet
<1> HIDE DEF S
<1>2. ASSUME NEW g PROVE Is(g) <=> Sums(F, S, g)
  <2>1. ASSUME NEW s \in SUBSET S
        PROVE  SumAt(F, g, s) = IF s = {} THEN 0
                                ELSE LET x == CHOOSE x \in s : TRUE IN d[x.part] + g[s \ {x}]
    <3>1. CASE s = {}
      BY <3>1 DEF SumAt
    <3>2. CASE s # {}
      <4>1. First(s) \in S
        BY <3>2 DEF First
      <4>2. F[First(s)] = d[First(s).part]
        BY <4>1
      <4> HIDE DEF F
      <4> QED BY <3>2, <4>2 DEF SumAt, First
    <3> QED BY <3>1, <3>2
  <2> HIDE DEF F
  <2> QED BY <2>1 DEF Sums
<1>3. \E g : Is(g)
  <2>1. IsFiniteSet(S)
    BY DEF S
  <2> HIDE DEF F, Is
  <2> QED BY <1>2, <2>1, SumsExist
<1>4. Is(it)
  BY <1>3
<1> HIDE DEF it
<1>5. Sums(F, S, it)
  BY <1>2, <1>4
<1> QED BY <1>1, <1>5 DEF S

\* What is stored is what was asked for, but for the rounding of the shares.
LEMMA StoredNear ==
  ASSUME C!CostSharingOK, NEW w \in C!Wholes, NEW d \in Divisions[w], NEW n \in 0..MaxStarts,
         DOMAIN d # {}
  PROVE  LET S == C!Rows(w, d, n) IN
         /\ C!Total(S) \in Int /\ C!Asked(w, d, n) \in Int /\ Cardinality(S) \in Nat
         /\ w \in Txns => C!Total(S) = C!Asked(w, d, n)
         /\ C!Near(C!Total(S), C!Asked(w, d, n), 5 * Cardinality(S))
<1> DEFINE S == C!Rows(w, d, n)
           F == [row1 \in S |-> row1.size]
           G == [row1 \in S |-> d[row1.part]]
<1>1. IsFiniteSet(DOMAIN d) /\ \A x \in DOMAIN d : d[x] \in Int
  BY DEF C!CostSharingOK, IsFiniteSet, C!IsFiniteSet
<1>2. IsFiniteSet(S) /\ Cardinality(S) \in Nat
  <2> DEFINE f(x) == [part |-> x, size |-> C!Column(w, d[x]), put |-> n]
  <2>1. S = {f(x) : x \in DOMAIN d}
    BY DEF C!Rows
  <2> DEFINE rowOf == [x \in DOMAIN d |-> f(x)]
  <2>2. rowOf \in Surjection(DOMAIN d, S)
    BY <2>1 DEF Surjection
  <2>3. IsFiniteSet(S)
    BY <1>1, <2>2, FS_Surjection
  <2> QED BY <2>3, FS_CardinalityType
<1>3. ASSUME NEW x \in S
      PROVE  /\ x.size \in Int /\ d[x.part] \in Int /\ C!Near(x.size, d[x.part], 5)
             /\ w \in Txns => x.size = d[x.part]
  <2>1. PICK y \in DOMAIN d : x = [part |-> y, size |-> C!Column(w, d[y]), put |-> n]
    BY DEF C!Rows
  <2>2. d[y] \in Int /\ x.part = y /\ x.size = C!Column(w, d[y])
    BY <1>1, <2>1
  <2>3. CASE w \in Txns
    BY <2>2, <2>3 DEF C!Column, C!Near
  <2>4. CASE w \notin Txns
    <3> DEFINE v == d[y]
    <3>1. x.size = 10 * ((v + 5) \div 10)
      BY <2>2, <2>4 DEF C!Column
    <3> HIDE DEF v
    <3>2. v \in Int => 10 * ((v + 5) \div 10) \in Int /\ 10 * ((v + 5) \div 10) <= v + 5
                      /\ 10 * ((v + 5) \div 10) >= v - 5
      OBVIOUS
    <3> QED BY <2>2, <2>4, <3>1, <3>2 DEF C!Near, v
  <2> QED BY <2>3, <2>4
<1>4. F \in [S -> Int] /\ G \in [S -> Int] /\ \A x \in S : C!Near(F[x], G[x], 5)
  BY <1>3
<1>5. w \in Txns => \A x \in S : C!Near(F[x], G[x], 0)
  BY <1>3, <1>4 DEF C!Near
<1>6. PICK f : Sums(F, S, f) /\ C!Total(S) = f[S]
  BY <1>2, TotalSums
<1>7. PICK g : Sums(G, S, g) /\ C!Asked(w, d, n) = g[S]
  BY <1>2, AskedSums
<1> HIDE DEF S, F, G
<1>8. f[S] \in Int /\ g[S] \in Int /\ C!Near(f[S], g[S], 5 * Cardinality(S))
  BY <1>2, <1>4, <1>6, <1>7, SumsNear
<1>9. ASSUME w \in Txns PROVE f[S] = g[S]
  <2>1. C!Near(f[S], g[S], 0 * Cardinality(S))
    BY <1>2, <1>4, <1>5, <1>6, <1>7, <1>9, SumsNear
  <2> QED BY <1>2, <1>8, <2>1 DEF C!Near
<1> QED BY <1>2, <1>6, <1>7, <1>8, <1>9 DEF S

LEMMA SumOfNone == C!Total({}) = 0
<1> DEFINE Is(g) == g = [s \in SUBSET {} |->
                           IF s = {} THEN 0
                           ELSE LET x == CHOOSE x \in s : TRUE IN x.size + g[s \ {x}]]
           it == CHOOSE g : Is(g)
<1>1. C!Total({}) = it[{}]
  BY Zenon DEF C!Total, C!MapThenSumSet, C!MapThenFoldSet
<1>2. Is([s \in SUBSET {} |-> 0])
  OBVIOUS
<1>3. Is(it)
  BY <1>2
<1>4. it[{}] = 0
  BY <1>3
<1> QED BY <1>1, <1>4

LEMMA SumOfOne ==
  ASSUME NEW r, r.size \in Int
  PROVE  C!Total({r}) = r.size
<1> DEFINE Is(g) == g = [s \in SUBSET {r} |->
                           IF s = {} THEN 0
                           ELSE LET x == CHOOSE x \in s : TRUE IN x.size + g[s \ {x}]]
           it == CHOOSE g : Is(g)
<1>1. C!Total({r}) = it[{r}]
  BY Zenon DEF C!Total, C!MapThenSumSet, C!MapThenFoldSet
<1>2. Is([s \in SUBSET {r} |-> IF s = {} THEN 0 ELSE r.size])
  <2> DEFINE g == [s \in SUBSET {r} |-> IF s = {} THEN 0 ELSE r.size]
  <2> SUFFICES ASSUME NEW s \in SUBSET {r}
               PROVE  g[s] = IF s = {} THEN 0
                             ELSE LET x == CHOOSE x \in s : TRUE IN x.size + g[s \ {x}]
    OBVIOUS
  <2>1. CASE s = {}
    BY <2>1
  <2>2. CASE s = {r}
    <3>1. (CHOOSE x \in s : TRUE) = r
      BY <2>2
    <3>2. g[s \ {r}] = 0 /\ g[s] = r.size
      BY <2>2
    <3> QED BY <3>1, <3>2, <2>2
  <2> QED BY <2>1, <2>2
<1>3. Is(it)
  BY <1>2
<1>4. it[{}] = 0
  BY <1>3
<1>5. (CHOOSE x \in {r} : TRUE) = r /\ {r} \ {r} = {}
  OBVIOUS
<1> HIDE DEF it
<1>6. it[{r}] = r.size + it[{}]
  BY <1>3, <1>5
<1> QED BY <1>1, <1>4, <1>6

-----------------------------------------------------------------------------

LEMMA ShareInit == ASSUME C!CostSharingOK, C!Init PROVE ShareInv
<1>1. C!NoJob \in Held
  BY DEF C!NoJob, Held
<1>2. ShareTypes
  <2>1. \A r \in Requests : pc[r] = "idle" /\ job[r] = C!NoJob
    BY DEF C!Init
  <2> QED BY <1>1, <2>1 DEF C!Init, ShareTypes, C!CostSharingOK
<1>3. PartsHold /\ CustodyHolds /\ Alone /\ Entire
  BY DEF C!Init, PartsHold, CustodyHolds, Alone, Entire, C!Wholes
<1> QED BY <1>2, <1>3 DEF ShareInv

LEMMA ShareLook ==
  ASSUME C!CostSharingOK, ShareInv, NEW r \in Requests, NEW w \in C!Wholes,
         NEW d \in Divisions[w], C!PutLook(r, w, d)
  PROVE  ShareInv'
<1> USE DEF ShareInv, C!PutLook, C!Start
<1> DEFINE j == [whole |-> w, division |-> d, seen |-> {}]
<1>1. j \in Held
  BY DEF Held
<1>2. starts' \in 1..MaxStarts
  BY DEF ShareTypes, C!CostSharingOK
<1>3. ShareTypes'
  <2>1. job' \in [Requests -> Held] /\ pc' \in [Requests -> {"idle", "delete", "insert"}]
    BY <1>1 DEF ShareTypes
  <2>2. ASSUME NEW q \in Requests
        PROVE  /\ pc'[q] = "idle" => job'[q] = C!NoJob
               /\ pc'[q] # "idle" => /\ job'[q].whole \in C!Wholes /\ starts' > 0
                                     /\ job'[q].division \in Divisions[job'[q].whole]
    <3>1. CASE q = r
      BY <3>1, <1>2 DEF ShareTypes
    <3>2. CASE q # r
      BY <3>2, <1>2 DEF ShareTypes
    <3> QED BY <3>1, <3>2
  <2> QED BY <2>1, <2>2, <1>2 DEF ShareTypes
<1>4. PartsHold'
  BY <1>2 DEF PartsHold, ShareTypes
<1>5. CustodyHolds' /\ Entire'
  BY DEF CustodyHolds, Entire
<1>6. Alone'
  <2> SUFFICES ASSUME NEW q \in Requests, pc'[q] = "insert", job'[q].whole \notin mixed'
               PROVE  /\ rows'[job'[q].whole] \subseteq job'[q].seen
                      /\ \A p \in Requests \ {q} : pc'[p] = "insert" => job'[p].whole # job'[q].whole
    BY DEF Alone
  <2>1. q # r /\ \A p \in Requests : pc'[p] = "insert" => pc[p] = "insert" /\ job'[p] = job[p]
    BY DEF ShareTypes
  <2> QED BY <2>1 DEF Alone
<1> QED BY <1>3, <1>4, <1>5, <1>6

LEMMA ShareDelete ==
  ASSUME C!CostSharingOK, ShareInv, NEW r \in Requests, C!PutDelete(r)
  PROVE  ShareInv'
<1> USE DEF ShareInv, C!PutDelete
<1>1. /\ job[r].whole \in C!Wholes /\ rows[job[r].whole] \in SUBSET Stored
      /\ job[r] \in Held
  BY DEF ShareTypes
<1> DEFINE j == [job[r] EXCEPT !.seen = rows[job[r].whole]]
<1>2. /\ j \in Held /\ j.whole = job[r].whole /\ j.division = job[r].division
      /\ j.seen = rows[job[r].whole]
  BY <1>1 DEF Held
<1>3. job' = [job EXCEPT ![r] = j]
  BY DEF ShareTypes
<1> HIDE DEF j
<1>4. ShareTypes'
  <2>1. job' \in [Requests -> Held] /\ pc' \in [Requests -> {"idle", "delete", "insert"}]
    BY <1>2, <1>3 DEF ShareTypes
  <2>2. ASSUME NEW q \in Requests
        PROVE  /\ pc'[q] = "idle" => job'[q] = C!NoJob
               /\ pc'[q] # "idle" => /\ job'[q].whole \in C!Wholes /\ starts' > 0
                                     /\ job'[q].division \in Divisions[job'[q].whole]
    <3>1. CASE q = r
      BY <3>1, <1>2, <1>3 DEF ShareTypes
    <3>2. CASE q # r
      BY <3>2, <1>3 DEF ShareTypes
    <3> QED BY <3>1, <3>2
  <2> QED BY <2>1, <2>2 DEF ShareTypes
<1>5. PartsHold' /\ CustodyHolds'
  BY DEF PartsHold, CustodyHolds
<1>6. mixed \subseteq mixed'
  OBVIOUS
<1>7. Entire'
  BY <1>6 DEF Entire
<1>8. Alone'
  <2> SUFFICES ASSUME NEW q \in Requests, pc'[q] = "insert", job'[q].whole \notin mixed'
               PROVE  /\ rows'[job'[q].whole] \subseteq job'[q].seen
                      /\ \A p \in Requests \ {q} : pc'[p] = "insert" => job'[p].whole # job'[q].whole
    BY DEF Alone
  <2>1. job[r].whole \notin mixed' =>
          \A p \in Requests : pc[p] = "insert" => job[p].whole # job[r].whole
    OBVIOUS
  <2>2. \A p \in Requests : /\ job'[p].whole = job[p].whole
                            /\ p # r => pc'[p] = pc[p] /\ job'[p] = job[p]
    BY <1>2, <1>3 DEF ShareTypes
  <2>3. CASE q = r
    <3>1. rows'[job'[q].whole] \subseteq job'[q].seen
      BY <2>3, <1>2, <1>3 DEF ShareTypes
    <3>2. \A p \in Requests \ {q} : pc'[p] = "insert" => job'[p].whole # job'[q].whole
      BY <2>1, <2>2, <2>3
    <3> QED BY <3>1, <3>2
  <2>4. CASE q # r
    <3>1. job[q].whole \notin mixed /\ pc[q] = "insert" /\ job'[q] = job[q]
      BY <2>2, <2>4, <1>6
    <3>2. rows'[job'[q].whole] \subseteq job'[q].seen
      BY <3>1 DEF Alone
    <3>3. job[q].whole # job[r].whole
      BY <2>1, <3>1, <2>2
    <3>4. \A p \in Requests \ {q} : pc'[p] = "insert" => job'[p].whole # job'[q].whole
      BY <3>1, <3>3, <2>2 DEF Alone
    <3> QED BY <3>2, <3>4
  <2> QED BY <2>3, <2>4
<1> QED BY <1>4, <1>5, <1>7, <1>8

\* What a request that ends changes, but for rows.
LEMMA ShareEnd ==
  ASSUME C!CostSharingOK, ShareInv, NEW r \in Requests, C!End(r), starts' = starts
  PROVE  /\ pc' \in [Requests -> {"idle", "delete", "insert"}] /\ job' \in [Requests -> Held]
         /\ \A q \in Requests :
              /\ pc'[q] = "idle" => job'[q] = C!NoJob
              /\ pc'[q] # "idle" => /\ job'[q].whole \in C!Wholes /\ starts' > 0
                                    /\ job'[q].division \in Divisions[job'[q].whole]
         /\ \A q \in Requests : pc'[q] = "insert" =>
              q # r /\ pc[q] = "insert" /\ job'[q] = job[q]
<1>1. C!NoJob \in Held
  BY DEF C!NoJob, Held
<1>2. pc' \in [Requests -> {"idle", "delete", "insert"}] /\ job' \in [Requests -> Held]
  BY <1>1 DEF ShareInv, ShareTypes, C!End
<1>3. ASSUME NEW q \in Requests
      PROVE  IF q = r THEN pc'[q] = "idle" /\ job'[q] = C!NoJob
                      ELSE pc'[q] = pc[q] /\ job'[q] = job[q]
  BY DEF ShareInv, ShareTypes, C!End
<1>4. \A q \in Requests :
        /\ pc[q] = "idle" => job[q] = C!NoJob
        /\ pc[q] # "idle" => /\ job[q].whole \in C!Wholes /\ starts > 0
                             /\ job[q].division \in Divisions[job[q].whole]
  BY DEF ShareInv, ShareTypes
<1>5. \A q \in Requests :
        /\ pc'[q] = "idle" => job'[q] = C!NoJob
        /\ pc'[q] # "idle" => /\ job'[q].whole \in C!Wholes /\ starts' > 0
                              /\ job'[q].division \in Divisions[job'[q].whole]
  BY <1>3, <1>4
<1>6. \A q \in Requests : pc'[q] = "insert" =>
        q # r /\ pc[q] = "insert" /\ job'[q] = job[q]
  BY <1>3
<1> QED BY <1>2, <1>5, <1>6

LEMMA ShareRollback ==
  ASSUME C!CostSharingOK, ShareInv, NEW r \in Requests, C!Rollback(r)
  PROVE  ShareInv'
<1> USE DEF ShareInv, C!Rollback
<1>1. ShareTypes'
  BY ShareEnd DEF ShareTypes
<1>2. PartsHold' /\ CustodyHolds' /\ Entire'
  BY DEF PartsHold, CustodyHolds, Entire
<1>3. Alone'
  BY ShareEnd DEF Alone
<1> QED BY <1>1, <1>2, <1>3

LEMMA ShareCommit ==
  ASSUME C!CostSharingOK, ShareInv, NEW r \in Requests, C!PutCommit(r)
  PROVE  ShareInv'
<1> USE DEF ShareInv
<1> DEFINE w == job[r].whole
           d == job[r].division
           old == rows[w] \ job[r].seen
           new == C!Rows(w, d, starts)
<1>1. /\ pc[r] = "insert" /\ C!End(r) /\ UNCHANGED <<present, custody, starts, mixed, shrunk>>
      /\ \/ UNCHANGED rows
         \/ /\ rows' = [rows EXCEPT ![w] = old \cup new]
            /\ w \in Accounts => \A x \in DOMAIN d : x \in present /\ x \notin {s.part : s \in old}
  BY DEF C!PutCommit, C!Refused
<1>2. w \in C!Wholes /\ d \in Divisions[w] /\ starts \in 1..MaxStarts
  BY <1>1 DEF ShareTypes, C!CostSharingOK
<1>3. DOMAIN d \subseteq C!Parts(w)
  BY <1>2 DEF C!CostSharingOK
<1>4. new \subseteq Stored
  BY <1>2 DEF Stored
<1>5. \A line \in new : line.part \in DOMAIN d /\ line.put = starts
  BY DEF C!Rows
<1>6. \A s, t \in new : s.part = t.part => s = t
  BY DEF C!Rows
<1> HIDE DEF w, d, new
<1>7. rows' \in [C!Wholes -> SUBSET Stored]
  BY <1>1, <1>4 DEF ShareTypes
<1>8. ShareTypes'
  BY <1>1, <1>7, ShareEnd DEF ShareTypes
<1>9. \/ UNCHANGED rows
      \/ /\ rows'[w] = old \cup new /\ \A v \in C!Wholes : v # w => rows'[v] = rows[v]
         /\ w \in Accounts => \A x \in DOMAIN d : x \in present /\ x \notin {s.part : s \in old}
  BY <1>1, <1>2 DEF ShareTypes
<1>10. PartsHold'
  <2>1. CASE UNCHANGED rows
    BY <2>1, <1>1 DEF PartsHold
  <2>2. CASE /\ rows'[w] = old \cup new /\ \A v \in C!Wholes : v # w => rows'[v] = rows[v]
             /\ w \in Accounts => \A x \in DOMAIN d : x \in present /\ x \notin {s.part : s \in old}
    <3>1. \A line \in rows'[w] : line.part \in C!Parts(w) /\ line.put \in 1..starts
      BY <2>2, <1>2, <1>3, <1>5 DEF PartsHold
    <3>2. ASSUME w \in Accounts
          PROVE  /\ \A s, t \in rows'[w] : s.part = t.part => s = t
                 /\ \A s \in rows'[w] : s.part \in present
      BY <2>2, <3>2, <1>2, <1>5, <1>6 DEF PartsHold
    <3>3. Accounts \subseteq C!Wholes
      BY DEF C!Wholes
    <3>4. \A v \in C!Wholes : \A line \in rows'[v] : line.part \in C!Parts(v) /\ line.put \in 1..starts
      BY <3>1, <2>2 DEF PartsHold
    <3>5. \A a \in Accounts : /\ \A s, t \in rows'[a] : s.part = t.part => s = t
                              /\ \A s \in rows'[a] : s.part \in present
      BY <3>2, <3>3, <2>2 DEF PartsHold
    <3> QED BY <3>4, <3>5, <1>1 DEF PartsHold
  <2> QED BY <2>1, <2>2, <1>9
<1>11. CustodyHolds'
  BY <1>1 DEF CustodyHolds
<1>12. w \notin mixed => old = {}
  BY <1>1 DEF Alone, w
<1>13. Entire'
  <2>1. CASE UNCHANGED rows
    BY <2>1, <1>1 DEF Entire
  <2>2. CASE rows'[w] = old \cup new /\ \A v \in C!Wholes : v # w => rows'[v] = rows[v]
    <3>1. w \in mixed \/ rows'[w] = new
      BY <1>12, <2>2
    <3>2. DOMAIN d = {} => new = {}
      BY DEF new, C!Rows
    <3> SUFFICES ASSUME NEW v \in C!Wholes \ (mixed \cup shrunk), rows'[v] # {}
                 PROVE  \E e \in Divisions[v], n \in 0..MaxStarts :
                          DOMAIN e # {} /\ rows'[v] = C!Rows(v, e, n)
      BY <1>1 DEF Entire
    <3>3. CASE v = w
      <4>1. rows'[w] = new /\ DOMAIN d # {}
        BY <3>1, <3>2, <3>3
      <4>2. starts \in 0..MaxStarts /\ d \in Divisions[w] /\ rows'[w] = C!Rows(w, d, starts)
        BY <4>1, <1>2 DEF new
      <4> QED BY <3>3, <4>1, <4>2
    <3>4. CASE v # w
      BY <3>4, <2>2 DEF Entire
    <3> QED BY <3>3, <3>4
  <2> QED BY <2>1, <2>2, <1>9
<1>14. Alone'
  <2> SUFFICES ASSUME NEW q \in Requests, pc'[q] = "insert", job'[q].whole \notin mixed'
               PROVE  /\ rows'[job'[q].whole] \subseteq job'[q].seen
                      /\ \A p \in Requests \ {q} : pc'[p] = "insert" => job'[p].whole # job'[q].whole
    BY DEF Alone
  <2>1. \A p \in Requests : pc'[p] = "insert" => p # r /\ pc[p] = "insert" /\ job'[p] = job[p]
    BY <1>1, ShareEnd
  <2>2. job[q].whole # w /\ job[q].whole \in C!Wholes
    BY <2>1, <1>1 DEF Alone, ShareTypes, w
  <2>3. rows'[job[q].whole] = rows[job[q].whole]
    BY <2>2, <1>9
  <2> QED BY <2>1, <2>3, <1>1 DEF Alone
<1> QED BY <1>8, <1>10, <1>11, <1>13, <1>14

LEMMA ShareClear ==
  ASSUME C!CostSharingOK, ShareInv, NEW t \in Txns, C!Clear(t)
  PROVE  ShareInv'
<1> USE DEF ShareInv, C!Clear, C!Start
<1>1. t \in C!Wholes /\ t \notin Accounts
  BY DEF C!Wholes, C!CostSharingOK
<1>2. /\ rows' \in [C!Wholes -> SUBSET Stored] /\ rows'[t] = {}
      /\ \A v \in C!Wholes : v # t => rows'[v] = rows[v]
  BY <1>1 DEF ShareTypes
<1>3. starts \in 0..MaxStarts /\ starts' \in 0..MaxStarts /\ starts' > starts /\ starts' > 0
  BY DEF ShareTypes, C!CostSharingOK
<1>4. ShareTypes'
  BY <1>2, <1>3 DEF ShareTypes
<1>5. PartsHold'
  <2>1. \A v \in C!Wholes : \A line \in rows'[v] : line.part \in C!Parts(v) /\ line.put \in 1..starts'
    BY <1>2, <1>3 DEF PartsHold
  <2>2. \A a \in Accounts : rows'[a] = rows[a]
    BY <1>1, <1>2 DEF C!Wholes
  <2> QED BY <2>1, <2>2 DEF PartsHold
<1>6. CustodyHolds' /\ Entire'
  BY <1>2 DEF CustodyHolds, Entire
<1>7. Alone'
  <2>1. \A r \in Requests : pc[r] = "insert" => job[r].whole \in C!Wholes
    BY DEF ShareTypes
  <2>2. \A v \in C!Wholes : rows'[v] \subseteq rows[v]
    BY <1>2
  <2> QED BY <2>1, <2>2 DEF Alone
<1> QED BY <1>4, <1>5, <1>6, <1>7

LEMMA SharePeriod ==
  ASSUME C!CostSharingOK, ShareInv, NEW a \in Accounts, NEW x \in Participants,
         NEW from \in C!Days, NEW to \in C!Days,
         LET p == [account |-> a, who |-> x, from |-> from, to |-> to]
         IN C!AddPeriod(p) \/ C!DeletePeriod(p)
  PROVE  ShareInv'
<1> USE DEF ShareInv
<1> DEFINE p == [account |-> a, who |-> x, from |-> from, to |-> to]
<1>1. p \in C!Period
  BY DEF C!Period, C!Days, C!CostSharingOK
<1> HIDE DEF p
<1>2. CASE C!AddPeriod(p)
  <2>1. starts \in 0..MaxStarts /\ starts' \in 0..MaxStarts /\ starts' > starts /\ starts' > 0
    BY <1>2 DEF C!AddPeriod, C!Start, ShareTypes, C!CostSharingOK
  <2>2. ShareTypes'
    BY <1>2, <2>1 DEF C!AddPeriod, ShareTypes
  <2>3. PartsHold'
    BY <1>2, <2>1 DEF C!AddPeriod, PartsHold
  <2>4. CustodyHolds'
    BY <1>1, <1>2 DEF C!AddPeriod, CustodyHolds
  <2>5. Alone' /\ Entire'
    BY <1>2 DEF C!AddPeriod, Alone, Entire
  <2> QED BY <2>2, <2>3, <2>4, <2>5
<1>3. CASE C!DeletePeriod(p)
  BY <1>3 DEF C!DeletePeriod, ShareTypes, PartsHold, CustodyHolds, Alone, Entire
<1> QED BY <1>2, <1>3 DEF p

LEMMA ShareParticipant ==
  ASSUME C!CostSharingOK, ShareInv, NEW x \in Participants, C!DeleteParticipant(x)
  PROVE  ShareInv'
<1> USE DEF ShareInv, C!DeleteParticipant, C!Start
<1>1. /\ rows' \in [C!Wholes -> SUBSET Stored] /\ \A v \in C!Wholes : rows'[v] \subseteq rows[v]
      /\ \A a \in Accounts : \A s \in rows'[a] : s.part # x
      /\ \A v \in C!Wholes : v \in shrunk' \/ rows'[v] = rows[v]
  BY DEF ShareTypes, C!Wholes
<1>2. starts \in 0..MaxStarts /\ starts' \in 0..MaxStarts /\ starts' > starts /\ starts' > 0
  BY DEF ShareTypes, C!CostSharingOK
<1>3. ShareTypes'
  BY <1>1, <1>2 DEF ShareTypes
<1>4. PartsHold'
  <2>1. \A v \in C!Wholes : \A line \in rows'[v] : line.part \in C!Parts(v) /\ line.put \in 1..starts'
    BY <1>1, <1>2 DEF PartsHold
  <2>2. \A a \in Accounts : rows'[a] \subseteq rows[a] /\ \A s \in rows'[a] : s.part # x
    BY <1>1 DEF C!Wholes
  <2>3. present' = present \ {x}
    OBVIOUS
  <2> QED BY <2>1, <2>2, <2>3 DEF PartsHold
<1>5. CustodyHolds'
  BY DEF CustodyHolds
<1>6. Entire'
  <2>1. shrunk \subseteq shrunk' /\ mixed' = mixed
    OBVIOUS
  <2> QED BY <2>1, <1>1 DEF Entire
<1>7. Alone'
  <2>1. \A r \in Requests : pc[r] = "insert" => job[r].whole \in C!Wholes
    BY DEF ShareTypes
  <2> QED BY <2>1, <1>1 DEF Alone
<1> QED BY <1>3, <1>4, <1>5, <1>6, <1>7

LEMMA ShareNext == ASSUME C!CostSharingOK, ShareInv, [C!Next]_(C!vars) PROVE ShareInv'
<1>1. CASE UNCHANGED C!vars
  BY <1>1 DEF C!vars, ShareInv, ShareTypes, PartsHold, CustodyHolds, Alone, Entire
<1>2. ASSUME NEW r \in Requests,
             \/ \E w \in C!Wholes : \E d \in Divisions[w] : C!PutLook(r, w, d)
             \/ C!PutDelete(r) \/ C!PutCommit(r) \/ C!Rollback(r)
      PROVE  ShareInv'
  BY <1>2, ShareLook, ShareDelete, ShareCommit, ShareRollback
<1>3. ASSUME NEW a \in Accounts, NEW x \in Participants, NEW from \in C!Days, NEW to \in C!Days,
             LET p == [account |-> a, who |-> x, from |-> from, to |-> to]
             IN C!AddPeriod(p) \/ C!DeletePeriod(p)
      PROVE  ShareInv'
  BY <1>3, SharePeriod
<1> QED BY <1>1, <1>2, <1>3, ShareClear, ShareParticipant DEF C!Next

LEMMA ShareInvariant == ASSUME C!CostSharingOK PROVE C!Spec => []ShareInv
<1>1. C!Init => ShareInv
  BY ShareInit
<1>2. ShareInv /\ [C!Next]_(C!vars) => ShareInv'
  BY ShareNext
<1> QED BY <1>1, <1>2, PTL DEF C!Spec

\* Parts, custody periods and what requests hold keep their types, and the
\* foreign keys and the unique key of account_splits hold.
THEOREM ShareTypesHold == ASSUME C!CostSharingOK PROVE C!Spec => []C!TypeOK
<1>1. ShareInv => C!TypeOK
  <2> SUFFICES ASSUME ShareInv PROVE C!TypeOK
    OBVIOUS
  <2>1. \A a \in Accounts : {s.part : s \in rows[a]} \subseteq present
    BY DEF ShareInv, PartsHold
  <2>2. ASSUME NEW r \in Requests PROVE pc[r] = "idle" <=> job[r] = C!NoJob
    BY DEF ShareInv, ShareTypes, C!NoJob, C!CostSharingOK
  <2> QED BY <2>1, <2>2 DEF ShareInv, ShareTypes, PartsHold, CustodyHolds, C!TypeOK
<1> QED BY <1>1, ShareInvariant, PTL

\* Whatever is divided, cleared and deleted by whom, a transaction's lines add
\* up to it, and the shares of an account to the whole but for the tolerance of
\* the handler and the rounding of each, except for a whole two requests have
\* divided at once or one a participant has left.
THEOREM DivisionsHold == ASSUME C!CostSharingOK PROVE C!Spec => [](C!LinesAddUp /\ C!SharesAddUp)
<1>1. ASSUME ShareInv, NEW t \in Txns, t \notin mixed PROVE C!Total(C!Lines(t)) = Amount[t]
  <2>1. t \in C!Wholes /\ t \notin shrunk /\ Amount[t] \in Int
    BY <1>1 DEF ShareInv, ShareTypes, C!Wholes, C!CostSharingOK
  <2>2. CASE rows[t] = {}
    <3> DEFINE line == [part |-> C!None, size |-> Amount[t], put |-> 0]
    <3>1. line.size = Amount[t] /\ C!Lines(t) = {line}
      BY <2>2 DEF C!Lines, C!Undivided
    <3> HIDE DEF line
    <3> QED BY <2>1, <3>1, SumOfOne
  <2>3. CASE rows[t] # {}
    <3>1. PICK d \in Divisions[t], n \in 0..MaxStarts : DOMAIN d # {} /\ rows[t] = C!Rows(t, d, n)
      BY <1>1, <2>1, <2>3 DEF ShareInv, Entire
    <3>2. C!Asked(t, d, n) = Amount[t]
      BY <2>1, <3>1 DEF C!CostSharingOK
    <3>3. C!Total(C!Rows(t, d, n)) = C!Asked(t, d, n)
      BY <2>1, <3>1, StoredNear
    <3> QED BY <2>3, <3>1, <3>2, <3>3 DEF C!Lines
  <2> QED BY <2>2, <2>3
<1>2. ASSUME ShareInv, NEW t \in Txns, AccountOf[t] \notin mixed \cup shrunk
      PROVE  LET parts == rows[AccountOf[t]] IN
             IF parts = {} THEN C!Counted(t, C!None) = 0
             ELSE C!Near(C!Counted(t, C!None), C!Hundred, C!Slack + 5 * Cardinality(parts))
  <2> DEFINE a == AccountOf[t]
  <2>1. a \in C!Wholes /\ a \notin mixed \cup shrunk /\ a \notin Txns
    BY <1>2 DEF C!Wholes, C!CostSharingOK
  <2>2. C!Counted(t, C!None) = C!Total(rows[a])
    BY DEF C!Counted, C!Attributed
  <2>3. CASE rows[a] = {}
    BY <2>2, <2>3, SumOfNone
  <2>4. CASE rows[a] # {}
    <3>1. PICK d \in Divisions[a], n \in 0..MaxStarts : DOMAIN d # {} /\ rows[a] = C!Rows(a, d, n)
      BY <1>2, <2>1, <2>4 DEF ShareInv, Entire
    <3>2. C!Near(C!Asked(a, d, n), C!Hundred, C!Slack)
      BY <2>1, <3>1 DEF C!CostSharingOK
    <3>3. /\ C!Total(rows[a]) \in Int /\ C!Asked(a, d, n) \in Int /\ Cardinality(rows[a]) \in Nat
          /\ C!Near(C!Total(rows[a]), C!Asked(a, d, n), 5 * Cardinality(rows[a]))
      BY <2>1, <3>1, StoredNear
    <3>4. C!Near(C!Total(rows[a]), C!Hundred, C!Slack + 5 * Cardinality(rows[a]))
      BY <3>2, <3>3 DEF C!Near, C!Hundred, C!Slack
    <3> QED BY <2>2, <2>4, <3>4
  <2> QED BY <2>3, <2>4
<1>3. ShareInv => C!LinesAddUp /\ C!SharesAddUp
  BY <1>1, <1>2 DEF C!LinesAddUp, C!SharesAddUp, Cardinality, C!Cardinality
<1> QED BY <1>3, ShareInvariant, PTL

=============================================================================
