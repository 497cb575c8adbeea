---------------------------- MODULE HouseholdsProofs ----------------------------
(***************************************************************************)
(* Proofs about Households: OneHousehold, JoiningConsumes, SessionsInside, *)
(* AdminRemains and OldPasswordOut, for any number of users, households,   *)
(* sessions, invitations and requests.                                     *)
(***************************************************************************)
EXTENDS Households, TLAPS

Account == {"none", "unverified", "verified", "gone"}
Link == {"none", "live", "used"}
Session == [user : Users, house : Houses \cup {None}, password : Nat]
Invitation == [state : {"none", "live", "used", "revoked", "gone"},
               house : Houses \cup {None}, role : Roles]
Job == [user : Users \cup {None}, token : Tokens \cup Invites \cup {None},
        house : Houses \cup {None}, houses : SUBSET Houses,
        session : Sessions \cup {None}, password : Nat]
Stages == {"idle", "verify", "found", "session", "join", "loggedIn", "open", "switch",
           "gate", "act", "remove", "unseat", "erase", "setPassword", "endSessions"}
Placed == {"session", "join", "open", "switch", "gate", "act", "remove", "unseat"}

\* What a request at stage st holds.
Shape(st, j) ==
    /\ st = "idle" => j = NoJob
    /\ st # "idle" => j.user \in Users
    /\ st \in {"verify", "found"} => j.token \in Tokens
    /\ st = "join" => j.token \in Invites
    /\ st \in Placed => j.house \in Houses
    /\ st = "switch" => j.session \in Sessions

DataTypes ==
    /\ account \in [Users -> Account] /\ password \in [Users -> Nat]
    /\ verification \in [Users -> [Tokens -> Link]] /\ reset \in [Users -> Link]
    /\ house \in [Houses -> {"free", "live", "gone"}]
    /\ member \in [Houses -> [Users -> Roles \cup {None}]]
    /\ invitation \in [Invites -> Invitation]
    /\ \A i \in Invites : invitation[i].state # "none" => invitation[i].house \in Houses
    /\ session \in [Sessions -> Session \cup {NoSession}]
    /\ userLock \in [Users -> Requests \cup {None}]
    /\ inviteLock \in [Invites -> Requests \cup {None}]
    /\ founded \in [Users -> Nat] /\ departed \subseteq Users
    /\ contested \subseteq Houses /\ early \subseteq Sessions

JobTypes ==
    /\ pc \in [Requests -> Stages] /\ job \in [Requests -> Job]
    /\ \A r \in Requests : Shape(pc[r], job[r])

TypeInv == DataTypes /\ JobTypes

\* The foreign keys.
KeysHold ==
    /\ \A h \in Houses, u \in Users :
         member[h][u] # None => house[h] = "live" /\ account[u] = "verified"
    /\ \A s \in Sessions : session[s] # NoSession =>
         /\ account[session[s].user] = "verified"
         /\ session[s].house = None \/ house[session[s].house] = "live"
    /\ \A r \in Requests : pc[r] \in {"session", "loggedIn", "open"} =>
         account[job[r].user] \in {"verified", "gone"}

\* Who holds a row, and what stays true while it is held.
LocksHold ==
    /\ \A u \in Users : userLock[u] # None =>
         pc[userLock[u]] = "found" /\ job[userLock[u]].user = u
    /\ \A i \in Invites : inviteLock[i] # None =>
         pc[inviteLock[i]] = "join" /\ job[inviteLock[i]].token = i
    /\ \A r \in Requests : pc[r] = "join" =>
         LET i == job[r].token IN
           inviteLock[i] = r /\ invitation[i].state = "live" /\ invitation[i].house = job[r].house

\* A verification that founds a household is the first to do so.
FoundingAlone ==
    /\ \A u \in Users, k \in Tokens : verification[u][k] = "live" => account[u] # "none"
    /\ \A u \in Users : founded[u] > 0 => account[u] \in {"verified", "gone"}
    /\ \A u \in Users \ departed : account[u] = "verified" => HousesOf(u) # {}
    /\ \A r \in Requests :
         LET u == job[r].user IN
           /\ pc[r] = "verify" => account[u] # "none"
           /\ pc[r] = "found" /\ job[r].houses # {} => account[u] \in {"verified", "gone"}
           /\ pc[r] = "found" /\ job[r].houses = {} =>
                \/ u \in departed \/ account[u] = "gone"
                \/ userLock[u] = r /\ account[u] = "unverified"

\* Who is about to take members out of h is alone in it, and leaves an
\* administrator behind.
LeavesAlone(h) ==
    /\ \A r, q \in Leaving(h) : r = q
    /\ \A r \in Requests :
         LET u == job[r].user IN
           /\ pc[r] = "remove" /\ job[r].house = h /\ house[h] = "live" =>
                \E a \in Users \ {u} : member[h][a] = Admin
           /\ pc[r] = "erase" /\ h \notin job[r].houses /\ member[h][u] = Admin =>
                \E a \in Users \ {u} : member[h][a] = Admin

LeavingAlone ==
    /\ \A r \in Requests : pc[r] = "remove" => house[job[r].house] # "free"
    /\ \A h \in Houses \ contested : LeavesAlone(h)

-----------------------------------------------------------------------------
(* How a step moves a request.                                             *)

\* Request r goes to stage st with j, the others stay where they are.
Moved(r, st, j) ==
    /\ pc' \in [Requests -> Stages] /\ job' \in [Requests -> Job]
    /\ \A q \in Requests : Shape(pc'[q], job'[q])
    /\ pc'[r] = st /\ job'[r] = j
    /\ \A q \in Requests \ {r} : pc'[q] = pc[q] /\ job'[q] = job[q]

LEMMA Names ==
  ASSUME HouseholdsOK
  PROVE  /\ None \notin Users /\ None \notin Houses /\ None \notin Sessions
         /\ None \notin Requests /\ None \notin Invites
         /\ NoJob \in Job /\ NoSession \notin Session
         /\ \A s \in Session : s # NoSession /\ s.user \in Users
         /\ NoSession.user = None /\ NoSession.house = None
         /\ Admin \in Roles /\ None \notin Roles
  BY DEF HouseholdsOK, NoJob, Job, NoSession, Session, Roles, Admin, None

LEMMA Move ==
  ASSUME TypeInv, NEW r \in Requests, NEW st \in Stages, NEW j \in Job, Shape(st, j),
         pc' = [pc EXCEPT ![r] = st], job' = [job EXCEPT ![r] = j]
  PROVE  Moved(r, st, j)
<1>1. /\ pc \in [Requests -> Stages] /\ job \in [Requests -> Job]
      /\ \A q \in Requests : Shape(pc[q], job[q])
  BY DEF TypeInv, JobTypes
<1> HIDE DEF Job, Stages
<1>2. QED BY <1>1 DEF Moved

LEMMA EndMoves ==
  ASSUME HouseholdsOK, TypeInv, NEW r \in Requests, End(r)
  PROVE  Moved(r, "idle", NoJob)
<1>1. Shape("idle", NoJob) /\ "idle" \in Stages
  BY DEF Shape, Placed, Stages
<1>2. QED BY <1>1, Names, Move DEF End, Goto

\* What a request at a stage holds, read off Shape.
LEMMA Holds ==
  ASSUME HouseholdsOK, TypeInv, NEW r \in Requests
  PROVE  /\ job[r] \in Job /\ pc[r] \in Stages
         /\ pc[r] = "idle" => job[r] = NoJob
         /\ pc[r] # "idle" => job[r].user \in Users
         /\ pc[r] \in {"verify", "found"} => job[r].token \in Tokens
         /\ pc[r] = "join" => job[r].token \in Invites
         /\ pc[r] \in Placed => job[r].house \in Houses
         /\ pc[r] = "switch" => job[r].session \in Sessions
         /\ job[r].houses \subseteq Houses /\ job[r].password \in Nat
<1>1. job[r] \in Job /\ pc[r] \in Stages /\ Shape(pc[r], job[r])
  BY DEF TypeInv, JobTypes
<1>2. QED BY <1>1 DEF Shape, Job

\* Requests that arrive.
Arrives(r) ==
    \/ \E u \in Users, k \in Tokens : VerifyLoad(r, u, k)
    \/ \E i \in Invites, u \in Users : AcceptLock(r, i, u)
    \/ \E u \in Users : Login(r, u) \/ ResetLoad(r, u)
    \/ \E s \in Sessions, h \in Houses : SwitchLook(r, s, h)
    \/ \E s \in Sessions : Arrive(r, s) \/ DeleteLook(r, s)
    \/ \E s \in Sessions, h \in Houses, u \in Users : RemoveLook(r, s, h, u)

LEMMA BeginMoves ==
  ASSUME HouseholdsOK, TypeInv, NEW r \in Requests, NEW st, NEW j, Begin(r, st, j),
         st \in Stages, j \in Job, Shape(st, j)
  PROVE  Moved(r, st, j) /\ pc[r] = "idle"
  BY Move DEF Begin, Goto

LEMMA SessionHolds ==
  ASSUME HouseholdsOK, TypeInv, NEW s \in Sessions, session[s] # NoSession
  PROVE  session[s].user \in Users /\ session[s].house \in Houses \cup {None}
  BY Names DEF TypeInv, DataTypes, Session

\* What each arriving request holds.
LEMMA ArrivalsMove ==
  ASSUME HouseholdsOK, TypeInv, NEW r \in Requests
  PROVE  /\ \A u \in Users, k \in Tokens : VerifyLoad(r, u, k) =>
              \E j \in Job : /\ Moved(r, "verify", j) /\ pc[r] = "idle"
                             /\ j.user = u /\ j.token = k
         /\ \A i \in Invites, u \in Users : AcceptLock(r, i, u) =>
              \E j \in Job : /\ Moved(r, "join", j) /\ pc[r] = "idle"
                             /\ j.user = u /\ j.token = i /\ j.house = invitation[i].house
         /\ \A u \in Users : Login(r, u) =>
              \E j \in Job : Moved(r, "loggedIn", j) /\ pc[r] = "idle" /\ j.user = u
         /\ \A u \in Users : ResetLoad(r, u) =>
              \E j \in Job : Moved(r, "setPassword", j) /\ pc[r] = "idle" /\ j.user = u
         /\ \A s \in Sessions, h \in Houses : SwitchLook(r, s, h) =>
              \E j \in Job : Moved(r, "switch", j) /\ pc[r] = "idle"
         /\ \A s \in Sessions : Arrive(r, s) =>
              \E j \in Job : Moved(r, "gate", j) /\ pc[r] = "idle"
         /\ \A s \in Sessions : DeleteLook(r, s) =>
              \E j \in Job : /\ Moved(r, "erase", j) /\ pc[r] = "idle"
                             /\ j.user = session[s].user /\ session[s].user \in Users
                             /\ j.houses = {h \in Houses : Admins(h) = {j.user}}
         /\ \A s \in Sessions, h \in Houses, u \in Users : RemoveLook(r, s, h, u) =>
              \E j \in Job : /\ Moved(r, "remove", j) /\ pc[r] = "idle"
                             /\ j.user = u /\ j.house = h
<1> USE DEF Shape, Placed, Stages
<1>0. NoJob \in Job
  BY Names
<1>1. ASSUME NEW u \in Users, NEW k \in Tokens, VerifyLoad(r, u, k)
      PROVE  \E j \in Job : /\ Moved(r, "verify", j) /\ pc[r] = "idle"
                            /\ j.user = u /\ j.token = k
  <2> DEFINE j == [NoJob EXCEPT !.user = u, !.token = k]
  <2>1. j \in Job /\ j.user = u /\ j.token = k
    BY <1>0 DEF Job
  <2>2. Begin(r, "verify", j)
    BY <1>1 DEF VerifyLoad
  <2> HIDE DEF j
  <2>3. QED BY <2>1, <2>2, BeginMoves
<1>2. ASSUME NEW i \in Invites, NEW u \in Users, AcceptLock(r, i, u)
      PROVE  \E j \in Job : /\ Moved(r, "join", j) /\ pc[r] = "idle"
                            /\ j.user = u /\ j.token = i /\ j.house = invitation[i].house
  <2> DEFINE h == invitation[i].house
             j == [NoJob EXCEPT !.user = u, !.token = i, !.house = h]
  <2>1. h \in Houses
    BY <1>2 DEF AcceptLock, TypeInv, DataTypes
  <2>2. j \in Job /\ j.user = u /\ j.token = i /\ j.house = h
    BY <1>0, <2>1 DEF Job
  <2>3. Begin(r, "join", j)
    BY <1>2 DEF AcceptLock
  <2> HIDE DEF j
  <2>4. QED BY <2>1, <2>2, <2>3, BeginMoves
<1>3. ASSUME NEW u \in Users, Login(r, u)
      PROVE  \E j \in Job : Moved(r, "loggedIn", j) /\ pc[r] = "idle" /\ j.user = u
  <2> DEFINE j == [NoJob EXCEPT !.user = u, !.password = password[u]]
  <2>1. j \in Job /\ j.user = u
    BY <1>0 DEF Job, TypeInv, DataTypes
  <2>2. Begin(r, "loggedIn", j)
    BY <1>3 DEF Login
  <2> HIDE DEF j
  <2>3. QED BY <2>1, <2>2, BeginMoves
<1>4. ASSUME NEW u \in Users, ResetLoad(r, u)
      PROVE  \E j \in Job : Moved(r, "setPassword", j) /\ pc[r] = "idle" /\ j.user = u
  <2> DEFINE j == [NoJob EXCEPT !.user = u]
  <2>1. j \in Job /\ j.user = u
    BY <1>0 DEF Job
  <2>2. Begin(r, "setPassword", j)
    BY <1>4 DEF ResetLoad
  <2> HIDE DEF j
  <2>3. QED BY <2>1, <2>2, BeginMoves
<1>5. ASSUME NEW s \in Sessions, NEW h \in Houses, SwitchLook(r, s, h)
      PROVE  \E j \in Job : Moved(r, "switch", j) /\ pc[r] = "idle"
  <2> DEFINE j == [NoJob EXCEPT !.session = s, !.house = h, !.user = session[s].user]
  <2>1. session[s].user \in Users
    BY <1>5, SessionHolds DEF SwitchLook
  <2>2. j \in Job /\ j.user \in Users /\ j.house \in Houses /\ j.session \in Sessions
    BY <1>0, <2>1 DEF Job
  <2>3. Begin(r, "switch", j)
    BY <1>5 DEF SwitchLook
  <2> HIDE DEF j
  <2>4. QED BY <2>2, <2>3, BeginMoves
<1>6. ASSUME NEW s \in Sessions, Arrive(r, s)
      PROVE  \E j \in Job : Moved(r, "gate", j) /\ pc[r] = "idle"
  <2> DEFINE u == session[s].user
             h == session[s].house
             j == [NoJob EXCEPT !.user = u, !.house = h]
  <2>1. u \in Users /\ h \in Houses
    BY <1>6, SessionHolds DEF Arrive
  <2>2. j \in Job /\ j.user \in Users /\ j.house \in Houses
    BY <1>0, <2>1 DEF Job
  <2>3. Begin(r, "gate", j)
    BY <1>6 DEF Arrive
  <2> HIDE DEF j
  <2>4. QED BY <2>2, <2>3, BeginMoves
<1>7. ASSUME NEW s \in Sessions, DeleteLook(r, s)
      PROVE  \E j \in Job : /\ Moved(r, "erase", j) /\ pc[r] = "idle"
                            /\ j.user = session[s].user /\ session[s].user \in Users
                            /\ j.houses = {h \in Houses : Admins(h) = {j.user}}
  <2> DEFINE u == session[s].user
             j == [NoJob EXCEPT !.user = u, !.houses = {h \in Houses : Admins(h) = {u}}]
  <2>1. u \in Users
    BY <1>7, SessionHolds DEF DeleteLook
  <2>2. j \in Job /\ j.user = u /\ j.houses = {h \in Houses : Admins(h) = {u}}
    BY <1>0, <2>1 DEF Job
  <2>3. Begin(r, "erase", j)
    BY <1>7 DEF DeleteLook
  <2> HIDE DEF j
  <2>4. QED BY <2>1, <2>2, <2>3, BeginMoves
<1>8. ASSUME NEW s \in Sessions, NEW h \in Houses, NEW u \in Users, RemoveLook(r, s, h, u)
      PROVE  \E j \in Job : /\ Moved(r, "remove", j) /\ pc[r] = "idle"
                            /\ j.user = u /\ j.house = h
  <2> DEFINE j == [NoJob EXCEPT !.user = u, !.house = h]
  <2>1. j \in Job /\ j.user = u /\ j.house = h
    BY <1>0 DEF Job
  <2>2. Begin(r, "remove", j)
    BY <1>8 DEF RemoveLook
  <2> HIDE DEF j
  <2>3. QED BY <2>1, <2>2, BeginMoves
<1>9. QED BY <1>1, <1>2, <1>3, <1>4, <1>5, <1>6, <1>7, <1>8

\* What the steps of a request that goes on leave it with.
LEMMA StepsMove ==
  ASSUME HouseholdsOK, TypeInv, NEW r \in Requests
  PROVE  /\ VerifyLock(r) =>
              \E j \in Job : /\ Moved(r, "found", j) /\ j.user = job[r].user
                             /\ j.houses = HousesOf(job[r].user)
         /\ VerifyCommit(r) =>
              \E j \in Job : Moved(r, "session", j) /\ j.user = job[r].user /\ j.house \in Houses
         /\ AcceptCommit(r) => Moved(r, "session", job[r])
         /\ \A s \in Sessions \cup {None} : LoginTenant(r, s) =>
              \/ Moved(r, "idle", NoJob)
              \/ \E j \in Job : Moved(r, "open", j) /\ j.user = job[r].user
         /\ Gate(r) =>
              \/ Moved(r, "idle", NoJob)
              \/ Moved(r, "act", job[r])
         /\ RemoveMember(r) => Moved(r, "unseat", job[r])
         /\ ResetCommit(r) => Moved(r, "endSessions", job[r])
<1> USE DEF Shape, Placed, Stages, Goto
<1>0. PICK k \in Job : k = job[r]
  BY Holds
<1>1. ASSUME VerifyLock(r)
      PROVE  \E j \in Job : /\ Moved(r, "found", j) /\ j.user = job[r].user
                            /\ j.houses = HousesOf(job[r].user)
  <2> DEFINE j == [k EXCEPT !.houses = HousesOf(k.user)]
  <2>1. j \in Job /\ j.user = k.user /\ j.token = k.token /\ j.houses = HousesOf(k.user)
    BY DEF Job, HousesOf
  <2>2. pc' = [pc EXCEPT ![r] = "found"] /\ job' = [job EXCEPT ![r] = j]
    BY <1>0, <1>1 DEF VerifyLock
  <2>3. k.user \in Users /\ k.token \in Tokens
    BY <1>0, <1>1, Holds DEF VerifyLock
  <2> HIDE DEF j
  <2>4. QED BY <1>0, <2>1, <2>2, <2>3, Move
<1>2. ASSUME VerifyCommit(r)
      PROVE  \E j \in Job : /\ Moved(r, "session", j) /\ j.user = job[r].user
                            /\ j.house \in Houses
  <2>1. PICK h \in Houses : job' = [job EXCEPT ![r].house = h]
    BY <1>2, Holds DEF VerifyCommit
  <2> DEFINE j == [k EXCEPT !.house = h]
  <2>2. j \in Job /\ j.user = k.user /\ j.house \in Houses
    BY DEF Job
  <2>3. pc' = [pc EXCEPT ![r] = "session"] /\ job' = [job EXCEPT ![r] = j]
    BY <1>0, <1>2, <2>1 DEF VerifyCommit
  <2>4. k.user \in Users
    BY <1>0, <1>2, Holds DEF VerifyCommit
  <2> HIDE DEF j
  <2>5. QED BY <1>0, <2>2, <2>3, <2>4, Move
<1>3. ASSUME NEW st \in {"session", "unseat", "endSessions"},
             pc[r] \in {"join", "remove", "setPassword"},
             st \in Placed => pc[r] \in Placed,
             pc' = [pc EXCEPT ![r] = st], job' = job
      PROVE  Moved(r, st, job[r])
  <2>1. Shape(st, k) /\ st \in Stages
    BY <1>0, <1>3, Holds
  <2>2. job' = [job EXCEPT ![r] = k]
    BY <1>0, <1>3 DEF TypeInv, JobTypes
  <2>3. QED BY <1>0, <1>3, <2>1, <2>2, Move
<1>4. ASSUME NEW s \in Sessions \cup {None}, LoginTenant(r, s)
      PROVE  \/ Moved(r, "idle", NoJob)
             \/ \E j \in Job : Moved(r, "open", j) /\ j.user = job[r].user
  <2>1. CASE End(r)
    BY <2>1, EndMoves
  <2>2. CASE ~End(r)
    <3>1. PICK h \in Houses : job' = [job EXCEPT ![r].house = h]
      BY <1>4, <2>2 DEF LoginTenant, HousesOf
    <3> DEFINE j == [k EXCEPT !.house = h]
    <3>2. j \in Job /\ j.user = k.user /\ j.house \in Houses
      BY DEF Job
    <3>3. pc' = [pc EXCEPT ![r] = "open"] /\ job' = [job EXCEPT ![r] = j]
      BY <1>0, <1>4, <2>2, <3>1 DEF LoginTenant
    <3>4. k.user \in Users
      BY <1>0, <1>4, Holds DEF LoginTenant
    <3> HIDE DEF j
    <3>5. QED BY <1>0, <3>2, <3>3, <3>4, Move
  <2>3. QED BY <2>1, <2>2
<1>5. ASSUME Gate(r)
      PROVE  \/ Moved(r, "idle", NoJob)
             \/ Moved(r, "act", job[r])
  <2>1. CASE End(r)
    BY <2>1, EndMoves
  <2>2. CASE ~End(r)
    <3>1. pc' = [pc EXCEPT ![r] = "act"] /\ job' = [job EXCEPT ![r] = k]
      BY <1>0, <1>5, <2>2 DEF Gate, TypeInv, JobTypes
    <3>2. k.user \in Users /\ k.house \in Houses
      BY <1>0, <1>5, Holds DEF Gate
    <3>3. QED BY <1>0, <3>1, <3>2, Move
  <2>3. QED BY <2>1, <2>2
<1>6. AcceptCommit(r) => Moved(r, "session", job[r])
  BY <1>3 DEF AcceptCommit
<1>7. RemoveMember(r) => Moved(r, "unseat", job[r])
  BY <1>3 DEF RemoveMember
<1>8. ResetCommit(r) => Moved(r, "endSessions", job[r])
  BY <1>3 DEF ResetCommit
<1>9. QED BY <1>1, <1>2, <1>4, <1>5, <1>6, <1>7, <1>8

\* Steps after which the request is over.
LEMMA LastSteps ==
  ASSUME HouseholdsOK, TypeInv, NEW r \in Requests,
         \/ OpenSession(r) \/ LoginSession(r) \/ SetSessionTenant(r) \/ Act(r) \/ Unseat(r)
         \/ DeleteCommit(r) \/ EndSessions(r) \/ Abort(r) \/ Refused(r)
  PROVE  Moved(r, "idle", NoJob)
<1>1. End(r)
  BY DEF OpenSession, LoginSession, SetSessionTenant, Act, Unseat, DeleteCommit,
         EndSessions, Abort, Refused
<1>2. QED BY <1>1, EndMoves

-----------------------------------------------------------------------------
(* Types.                                                                  *)

\* A step that begins a request writes nothing but the request and, for two
\* of them, the lock on the invitation or the households it contests.
Unwritten ==
    /\ UNCHANGED <<account, password, verification, reset, house, member, invitation>>
    /\ UNCHANGED <<session, userLock, founded, departed, early, strayed>>

LEMMA ArrivalsWrite ==
  ASSUME NEW r \in Requests, Arrives(r)
  PROVE  /\ Unwritten
         /\ \/ UNCHANGED <<inviteLock, contested>>
            \/ /\ \E i \in Invites, u \in Users : AcceptLock(r, i, u)
               /\ UNCHANGED contested
            \/ /\ \/ \E s \in Sessions, h \in Houses, u \in Users : RemoveLook(r, s, h, u)
                  \/ \E s \in Sessions : DeleteLook(r, s)
               /\ UNCHANGED inviteLock
<1> USE DEF Unwritten, accounts, houses, locks, history
<1>1. ASSUME \/ \E u \in Users, k \in Tokens : VerifyLoad(r, u, k)
             \/ \E u \in Users : Login(r, u) \/ ResetLoad(r, u)
             \/ \E s \in Sessions, h \in Houses : SwitchLook(r, s, h)
             \/ \E s \in Sessions : Arrive(r, s)
      PROVE  Unwritten /\ UNCHANGED <<inviteLock, contested>>
  BY <1>1 DEF VerifyLoad, Login, ResetLoad, SwitchLook, Arrive
<1>2. ASSUME NEW i \in Invites, NEW u \in Users, AcceptLock(r, i, u)
      PROVE  Unwritten /\ UNCHANGED contested
  BY <1>2 DEF AcceptLock
<1>3. ASSUME NEW s \in Sessions, NEW h \in Houses, NEW u \in Users, RemoveLook(r, s, h, u)
      PROVE  Unwritten /\ UNCHANGED inviteLock
  BY <1>3 DEF RemoveLook
<1>4. ASSUME NEW s \in Sessions, DeleteLook(r, s)
      PROVE  Unwritten /\ UNCHANGED inviteLock
  BY <1>4 DEF DeleteLook
<1>5. QED BY <1>1, <1>2, <1>3, <1>4 DEF Arrives

LEMMA Contests ==
  ASSUME DataTypes, NEW r \in Requests
  PROVE  /\ \A hs \in SUBSET Houses : Contest(hs) => contested' \subseteq Houses
         /\ \A s \in Sessions, h \in Houses, u \in Users :
              RemoveLook(r, s, h, u) => contested' \subseteq Houses
         /\ \A s \in Sessions : DeleteLook(r, s) => contested' \subseteq Houses
<1>1. \A hs \in SUBSET Houses : Contest(hs) => contested' \subseteq Houses
  BY DEF Contest, DataTypes
<1>2. ASSUME NEW s \in Sessions, NEW h \in Houses, NEW u \in Users, RemoveLook(r, s, h, u)
      PROVE  contested' \subseteq Houses
  BY <1>1, <1>2 DEF RemoveLook
<1>3. ASSUME NEW s \in Sessions, DeleteLook(r, s)
      PROVE  contested' \subseteq Houses
  BY <1>1, <1>3 DEF DeleteLook, HousesOf
<1>4. QED BY <1>1, <1>2, <1>3

LEMMA Releasing ==
  ASSUME DataTypes, NEW r \in Requests, Release(r)
  PROVE  /\ userLock' \in [Users -> Requests \cup {None}]
         /\ inviteLock' \in [Invites -> Requests \cup {None}]
  BY DEF DataTypes, Release

LEMMA SessionsOpen ==
  ASSUME DataTypes, NEW u \in Users, NEW h \in Houses, NEW pw \in Nat, NewSession(u, h, pw)
  PROVE  session' \in [Sessions -> Session \cup {NoSession}] /\ early' \subseteq Sessions
<1> DEFINE new == [user |-> u, house |-> h, password |-> pw]
<1>1. new \in Session
  BY DEF Session
<1>2. PICK s \in Sessions :
         /\ session' = [session EXCEPT ![s] = new]
         /\ early' = IF pw < password[u] THEN early \cup {s} ELSE early \ {s}
  BY DEF NewSession
<1> HIDE DEF new
<1>3. session' \in [Sessions -> Session \cup {NoSession}]
  BY <1>1, <1>2 DEF DataTypes
<1>4. early' \subseteq Sessions
  BY <1>2 DEF DataTypes
<1>5. QED BY <1>3, <1>4

LEMMA ArrivalsTyped ==
  ASSUME HouseholdsOK, TypeInv, NEW r \in Requests, Arrives(r)
  PROVE  DataTypes'
<1>1. inviteLock' \in [Invites -> Requests \cup {None}]
  <2>1. ASSUME NEW i \in Invites, NEW u \in Users, AcceptLock(r, i, u)
        PROVE  inviteLock' \in [Invites -> Requests \cup {None}]
    BY <2>1 DEF AcceptLock, TypeInv, DataTypes
  <2>2. QED BY <2>1, ArrivalsWrite DEF TypeInv, DataTypes
<1>2. contested' \subseteq Houses
  BY ArrivalsWrite, Contests DEF TypeInv, DataTypes
<1>3. QED BY <1>1, <1>2, ArrivalsWrite DEF Unwritten, TypeInv, DataTypes

\* Session w is what v is without the households hs.
Without(v, w, hs) ==
    /\ w # NoSession => v # NoSession
    /\ w.user = v.user /\ w.password = v.password
    /\ v.house \in hs => w.house = None
    /\ v.house \notin hs => w.house = v.house

\* What a deletion leaves of a session.
LEMMA DroppedSession ==
  ASSUME HouseholdsOK, TypeInv, NEW hs \in SUBSET Houses,
         NEW m, NEW se \in [Sessions -> Session \cup {NoSession}], DropHouses(hs, m, se),
         NEW s \in Sessions
  PROVE  /\ session'[s] \in Session \cup {NoSession}
         /\ Without(se[s], session'[s], hs)
<1> USE DEF Without
<1>1. PICK v \in Session \cup {NoSession} : v = se[s]
  OBVIOUS
<1>2. CASE v.house \in hs
  <2>1. session'[s] = [v EXCEPT !.house = None]
    BY <1>1, <1>2 DEF DropHouses
  <2>2. v # NoSession
    BY <1>2, Names
  <2>3. [v EXCEPT !.house = None] \in Session /\ [v EXCEPT !.house = None].user = v.user
        /\ [v EXCEPT !.house = None].password = v.password
        /\ [v EXCEPT !.house = None].house = None
    BY <2>2 DEF Session
  <2>4. QED BY <1>1, <1>2, <2>1, <2>2, <2>3
<1>3. CASE v.house \notin hs
  BY <1>1, <1>3 DEF DropHouses
<1>4. QED BY <1>2, <1>3

\* What a deletion leaves of the households and of the sessions.
LEMMA Dropping ==
  ASSUME HouseholdsOK, TypeInv, NEW hs \in SUBSET Houses,
         NEW m \in [Houses -> [Users -> Roles \cup {None}]],
         NEW se \in [Sessions -> Session \cup {NoSession}], DropHouses(hs, m, se)
  PROVE  /\ house' \in [Houses -> {"free", "live", "gone"}]
         /\ member' \in [Houses -> [Users -> Roles \cup {None}]]
         /\ invitation' \in [Invites -> Invitation]
         /\ \A i \in Invites : invitation'[i].state # "none" => invitation'[i].house \in Houses
         /\ session' \in [Sessions -> Session \cup {NoSession}]
         /\ departed' \subseteq Users
<1> USE DEF TypeInv, DataTypes
<1>1. house' \in [Houses -> {"free", "live", "gone"}]
  BY DEF DropHouses
<1>2. member' \in [Houses -> [Users -> Roles \cup {None}]]
  <2>1. \A h \in Houses :
          (IF h \in hs THEN [u \in Users |-> None] ELSE m[h]) \in [Users -> Roles \cup {None}]
    OBVIOUS
  <2>2. QED BY <2>1 DEF DropHouses
<1>3. ASSUME NEW i \in Invites
      PROVE  /\ invitation'[i] \in Invitation
             /\ invitation'[i].state # "none" => invitation'[i].house \in Houses
  <2>1. PICK v \in Invitation : v = invitation[i]
    OBVIOUS
  <2>2. CASE v.house \in hs
    <3>1. invitation'[i] = [v EXCEPT !.state = "gone"]
      BY <2>1, <2>2 DEF DropHouses
    <3>2. [v EXCEPT !.state = "gone"] \in Invitation /\ [v EXCEPT !.state = "gone"].house = v.house
      BY DEF Invitation
    <3>3. QED BY <2>2, <3>1, <3>2
  <2>3. CASE v.house \notin hs
    BY <2>1, <2>3 DEF DropHouses
  <2>4. QED BY <2>2, <2>3
<1>4. invitation' \in [Invites -> Invitation]
  BY <1>3 DEF DropHouses
<1>5. \A s \in Sessions : session'[s] \in Session \cup {NoSession}
  BY DroppedSession
<1>6. session' \in [Sessions -> Session \cup {NoSession}]
  BY <1>5 DEF DropHouses
<1>7. departed' \subseteq Users
  BY DEF DropHouses
<1>8. QED BY <1>1, <1>2, <1>3, <1>4, <1>5, <1>6, <1>7

\* The sessions and memberships of an account that goes.
LEMMA Erasing ==
  ASSUME HouseholdsOK, TypeInv, NEW r \in Requests, DeleteCommit(r)
  PROVE  LET u == job[r].user
             m == [h \in Houses |-> [member[h] EXCEPT ![u] = None]]
             se == [s \in Sessions |-> IF session[s].user = u THEN NoSession ELSE session[s]]
         IN  /\ u \in Users /\ job[r].houses \in SUBSET Houses
             /\ m \in [Houses -> [Users -> Roles \cup {None}]]
             /\ se \in [Sessions -> Session \cup {NoSession}]
             /\ DropHouses(job[r].houses, m, se)
<1>1. job[r].user \in Users /\ job[r].houses \in SUBSET Houses
  BY Holds DEF DeleteCommit
<1>2. QED BY <1>1 DEF DeleteCommit, TypeInv, DataTypes

LEMMA ChangesTyped ==
  ASSUME HouseholdsOK, TypeInv, LocksHold, NEW r \in Requests,
         \/ VerifyLock(r) \/ VerifyCommit(r) \/ AcceptCommit(r)
         \/ RemoveMember(r) \/ DeleteCommit(r) \/ ResetCommit(r) \/ Abort(r) \/ Refused(r)
  PROVE  DataTypes'
<1> USE DEF accounts, houses, locks, history
<1>0. DataTypes
  BY DEF TypeInv
<1>1. CASE VerifyLock(r)
  <2>1. job[r].user \in Users
    BY <1>1, Holds DEF VerifyLock
  <2>2. userLock' \in [Users -> Requests \cup {None}]
    BY <1>0, <1>1, <2>1 DEF VerifyLock, DataTypes
  <2>3. QED BY <1>0, <1>1, <2>2 DEF VerifyLock, DataTypes
<1>2. CASE VerifyCommit(r)
  <2>1. PICK u \in Users : u = job[r].user
    BY <1>2, Holds DEF VerifyCommit
  <2>2. /\ account' = [account EXCEPT ![u] = "verified"]
        /\ verification' = [verification EXCEPT ![u][job[r].token] = "used"]
        /\ \/ UNCHANGED <<house, member, founded>>
           \/ \E h \in Houses : /\ house' = [house EXCEPT ![h] = "live"]
                                /\ member' = [member EXCEPT ![h][u] = Admin]
                                /\ founded' = [founded EXCEPT ![u] = @ + 1]
    BY <1>2, <2>1 DEF VerifyCommit
  <2>3. /\ account' \in [Users -> Account]
        /\ verification' \in [Users -> [Tokens -> Link]]
    BY <1>0, <2>2 DEF DataTypes, Account, Link
  <2>4. /\ house' \in [Houses -> {"free", "live", "gone"}]
        /\ member' \in [Houses -> [Users -> Roles \cup {None}]]
    <3>1. CASE UNCHANGED <<house, member>>
      BY <1>0, <3>1 DEF DataTypes
    <3>2. ASSUME NEW h \in Houses, house' = [house EXCEPT ![h] = "live"],
                 member' = [member EXCEPT ![h][u] = Admin]
          PROVE  /\ house' \in [Houses -> {"free", "live", "gone"}]
                 /\ member' \in [Houses -> [Users -> Roles \cup {None}]]
      BY <1>0, <3>2, Names DEF DataTypes
    <3>3. QED BY <2>2, <3>1, <3>2
  <2>8. founded' \in [Users -> Nat]
    <3>1. founded[u] + 1 \in Nat /\ founded \in [Users -> Nat]
      BY <1>0 DEF DataTypes
    <3>2. founded' = founded \/ founded' = [founded EXCEPT ![u] = founded[u] + 1]
      BY <2>2
    <3>3. QED BY <3>1, <3>2
  <2>5. contested' \subseteq Houses
    <3>1. job'[r].house \in Houses
      BY <1>2, StepsMove DEF Moved
    <3>2. QED BY <1>0, <1>2, <3>1 DEF VerifyCommit, ContestJoin, DataTypes
  <2>6. UNCHANGED <<password, reset, invitation, session, departed, early>> /\ Release(r)
    BY <1>2 DEF VerifyCommit
  <2>7. QED BY <1>0, <2>3, <2>4, <2>5, <2>6, <2>8, Releasing DEF DataTypes
<1>3. CASE AcceptCommit(r)
  <2>1. PICK u \in Users, h \in Houses, i \in Invites :
          u = job[r].user /\ h = job[r].house /\ i = job[r].token
    BY <1>3, Holds DEF AcceptCommit, Placed
  <2>2. PICK v \in Invitation : v = invitation[i]
    BY <1>0 DEF DataTypes
  <2>3. /\ account' = [account EXCEPT ![u] = "verified"]
        /\ member' = [member EXCEPT ![h][u] = IF @ = None THEN v.role ELSE @]
        /\ invitation' = [invitation EXCEPT ![i].state = "used"]
    BY <1>3, <2>1, <2>2 DEF AcceptCommit
  <2>4. account' \in [Users -> Account]
    BY <1>0, <2>3 DEF DataTypes, Account
  <2>5. member' \in [Houses -> [Users -> Roles \cup {None}]]
    BY <1>0, <2>3 DEF DataTypes, Invitation
  <2>6. /\ invitation' \in [Invites -> Invitation]
        /\ \A x \in Invites : invitation'[x].state # "none" => invitation'[x].house \in Houses
    <3>1. invitation' = [invitation EXCEPT ![i] = [v EXCEPT !.state = "used"]]
      BY <2>2, <2>3
    <3>2. [v EXCEPT !.state = "used"] \in Invitation /\ [v EXCEPT !.state = "used"].house = v.house
      BY DEF Invitation
    <3>3. v.house \in Houses
      <4>1. v.state = "live"
        BY <1>3, <2>1, <2>2 DEF AcceptCommit, LocksHold
      <4>2. QED BY <1>0, <2>2, <4>1 DEF DataTypes
    <3>4. QED BY <1>0, <3>1, <3>2, <3>3 DEF DataTypes
  <2>7. contested' \subseteq Houses
    BY <1>0, <1>3, <2>1 DEF AcceptCommit, ContestJoin, DataTypes
  <2>8. UNCHANGED <<password, verification, reset, house, session, founded, departed, early>>
        /\ Release(r)
    BY <1>3 DEF AcceptCommit
  <2>9. QED BY <1>0, <2>4, <2>5, <2>6, <2>7, <2>8, Releasing DEF DataTypes
<1>4. CASE RemoveMember(r)
  <2>1. PICK u \in Users, h \in Houses : u = job[r].user /\ h = job[r].house
    BY <1>4, Holds DEF RemoveMember, Placed
  <2>2. member' = [member EXCEPT ![h][u] = None] /\ departed' = departed \cup {u}
    BY <1>4, <2>1 DEF RemoveMember
  <2>3. member' \in [Houses -> [Users -> Roles \cup {None}]] /\ departed' \subseteq Users
    BY <1>0, <2>2 DEF DataTypes
  <2>4. QED BY <1>0, <1>4, <2>3 DEF RemoveMember, DataTypes
<1>5. CASE DeleteCommit(r)
  <2> DEFINE u == job[r].user
             m == [h \in Houses |-> [member[h] EXCEPT ![u] = None]]
             se == [s \in Sessions |-> IF session[s].user = u THEN NoSession ELSE session[s]]
  <2>1. u \in Users /\ job[r].houses \in SUBSET Houses
    BY <1>5, Erasing
  <2>2. /\ house' \in [Houses -> {"free", "live", "gone"}]
        /\ member' \in [Houses -> [Users -> Roles \cup {None}]]
        /\ invitation' \in [Invites -> Invitation]
        /\ \A i \in Invites : invitation'[i].state # "none" => invitation'[i].house \in Houses
        /\ session' \in [Sessions -> Session \cup {NoSession}]
        /\ departed' \subseteq Users
    <3>1. /\ m \in [Houses -> [Users -> Roles \cup {None}]]
          /\ se \in [Sessions -> Session \cup {NoSession}]
          /\ DropHouses(job[r].houses, m, se)
      BY <1>5, Erasing
    <3> HIDE DEF m, se
    <3>2. QED BY <2>1, <3>1, Dropping
  <2>3. /\ account' = [account EXCEPT ![u] = "gone"]
        /\ verification' = [verification EXCEPT ![u] = [k \in Tokens |-> "none"]]
        /\ reset' = [reset EXCEPT ![u] = "none"]
        /\ early' \subseteq early
        /\ UNCHANGED <<password, userLock, inviteLock, founded, contested>>
    BY <1>5 DEF DeleteCommit
  <2> HIDE DEF u, m, se
  <2>4. account' \in [Users -> Account] /\ reset' \in [Users -> Link]
    BY <1>0, <2>1, <2>3 DEF DataTypes, Account, Link
  <2>5. verification' \in [Users -> [Tokens -> Link]]
    BY <1>0, <2>1, <2>3 DEF DataTypes, Link
  <2>6. QED BY <1>0, <2>2, <2>3, <2>4, <2>5 DEF DataTypes
<1>6. CASE ResetCommit(r)
  <2>1. job[r].user \in Users
    BY <1>6, Holds DEF ResetCommit
  <2>2. password' \in [Users -> Nat] /\ reset' \in [Users -> Link]
    <3>1. PICK u \in Users : u = job[r].user
      BY <2>1
    <3>2. /\ password' = password \/ password' = [password EXCEPT ![u] = password[u] + 1]
          /\ reset' = reset \/ reset' = [reset EXCEPT ![u] = "used"]
      BY <1>6, <3>1 DEF ResetCommit
    <3>3. password[u] + 1 \in Nat
      BY <1>0 DEF DataTypes
    <3>4. password' \in [Users -> Nat]
      BY <1>0, <3>2, <3>3 DEF DataTypes
    <3>5. reset' \in [Users -> Link]
      BY <1>0, <3>2 DEF DataTypes, Link
    <3>6. QED BY <3>4, <3>5
  <2>3. QED BY <1>0, <1>6, <2>2 DEF ResetCommit, DataTypes
<1>7. CASE Abort(r)
  <2>1. early' \subseteq Sessions
    BY <1>0, <1>7 DEF Abort, SessionsOf, DataTypes
  <2>2. QED BY <1>0, <1>7, <2>1, Releasing DEF Abort, DataTypes
<1>8. CASE Refused(r)
  BY <1>0, <1>8, Releasing DEF Refused, DataTypes
<1>9. QED BY <1>1, <1>2, <1>3, <1>4, <1>5, <1>6, <1>7, <1>8

\* Steps that write sessions only.
LEMMA SessionsTyped ==
  ASSUME HouseholdsOK, TypeInv, NEW r \in Requests,
         \/ OpenSession(r) \/ LoginSession(r) \/ SetSessionTenant(r) \/ Unseat(r)
         \/ EndSessions(r) \/ Gate(r) \/ Act(r)
         \/ \E s \in Sessions \cup {None} : LoginTenant(r, s)
  PROVE  DataTypes'
<1> USE DEF accounts, houses, locks, history
<1>0. DataTypes
  BY DEF TypeInv
<1>1. /\ UNCHANGED <<account, password, verification, reset, house, member, invitation>>
      /\ UNCHANGED <<userLock, inviteLock, founded, departed, contested>>
  BY DEF OpenSession, LoginSession, SetSessionTenant, Unseat, EndSessions, Gate, Act, LoginTenant
<1>2. session' \in [Sessions -> Session \cup {NoSession}] /\ early' \subseteq Sessions
  <2>1. ASSUME NEW u \in Users, NEW h \in Houses, NEW pw \in Nat,
               NewSession(u, h, pw) \/ UNCHANGED <<session, early>>
        PROVE  session' \in [Sessions -> Session \cup {NoSession}] /\ early' \subseteq Sessions
    BY <1>0, <2>1, SessionsOpen DEF DataTypes
  <2>2. CASE OpenSession(r)
    <3>1. PICK u \in Users, h \in Houses : u = job[r].user /\ h = job[r].house
      BY <2>2, Holds DEF OpenSession, Placed
    <3>2. password[u] \in Nat
      BY <1>0 DEF DataTypes
    <3>3. NewSession(u, h, password[u]) \/ UNCHANGED <<session, early>>
      BY <2>2, <3>1 DEF OpenSession
    <3>4. QED BY <2>1, <3>2, <3>3
  <2>3. CASE LoginSession(r)
    <3>1. PICK u \in Users, h \in Houses, pw \in Nat :
            u = job[r].user /\ h = job[r].house /\ pw = job[r].password
      BY <2>3, Holds DEF LoginSession, Placed
    <3>2. NewSession(u, h, pw) \/ UNCHANGED <<session, early>>
      BY <2>3, <3>1 DEF LoginSession
    <3>3. QED BY <2>1, <3>2
  <2>4. CASE SetSessionTenant(r)
    <3>1. PICK s \in Sessions, h \in Houses : s = job[r].session /\ h = job[r].house
      BY <2>4, Holds DEF SetSessionTenant, Placed
    <3>2. session' = [session EXCEPT ![s].house = h] \/ session' = session
      BY <2>4, <3>1 DEF SetSessionTenant
    <3>3. session' = [session EXCEPT ![s].house = h] => session[s] # NoSession
      <4>1. job[r].user \in Users
        BY <2>4, Holds DEF SetSessionTenant
      <4>2. session[s].user = job[r].user \/ session' = session
        BY <2>4, <3>1 DEF SetSessionTenant
      <4>3. CASE session' = session /\ session' = [session EXCEPT ![s].house = h]
        <5>1. session[s] = [session[s] EXCEPT !.house = h]
          BY <1>0, <4>3 DEF DataTypes
        <5>2. NoSession # [NoSession EXCEPT !.house = h]
          BY Names DEF NoSession
        <5>3. QED BY <5>1, <5>2
      <4>4. QED BY <4>1, <4>2, <4>3, Names
    <3>4. CASE session' = [session EXCEPT ![s].house = h]
      <4>1. PICK v \in Session : v = session[s]
        BY <1>0, <3>3, <3>4 DEF DataTypes
      <4>2. [v EXCEPT !.house = h] \in Session
        BY DEF Session
      <4>3. session' = [session EXCEPT ![s] = [v EXCEPT !.house = h]]
        BY <3>4, <4>1
      <4>4. session' \in [Sessions -> Session \cup {NoSession}]
        BY <1>0, <4>2, <4>3 DEF DataTypes
      <4>5. QED BY <1>0, <2>4, <4>4 DEF SetSessionTenant, DataTypes
    <3>5. QED BY <1>0, <2>4, <3>2, <3>4 DEF SetSessionTenant, DataTypes
  <2>5. CASE Unseat(r)
    <3>1. ASSUME NEW v \in Session
          PROVE  [v EXCEPT !.house = None] \in Session
      BY DEF Session
    <3>2. job[r].user \in Users
      BY <2>5, Holds DEF Unseat
    <3>3. ASSUME NEW s \in Sessions, session[s].user = job[r].user
          PROVE  session[s] \in Session
      BY <1>0, <3>2, <3>3, Names DEF DataTypes
    <3>4. session' \in [Sessions -> Session \cup {NoSession}]
      BY <1>0, <2>5, <3>1, <3>3 DEF Unseat, Affected, DataTypes
    <3>5. QED BY <1>0, <2>5, <3>4 DEF Unseat, DataTypes
  <2>6. CASE EndSessions(r)
    BY <1>0, <2>6 DEF EndSessions, DataTypes
  <2>7. CASE Gate(r) \/ Act(r)
    BY <1>0, <2>7 DEF Gate, Act, DataTypes
  <2>8. CASE \E s \in Sessions \cup {None} : LoginTenant(r, s)
    <3>1. session' = session \/ \E s \in Sessions : session' = [session EXCEPT ![s] = NoSession]
      BY <2>8 DEF LoginTenant
    <3>2. QED BY <1>0, <2>8, <3>1 DEF LoginTenant, DataTypes
  <2>9. QED BY <2>2, <2>3, <2>4, <2>5, <2>6, <2>7, <2>8
<1>3. QED BY <1>0, <1>1, <1>2 DEF DataTypes

\* Steps of no request.
Alone ==
    \/ \E u \in Users, k \in Tokens : Signup(u, k)
    \/ \E s \in Sessions, i \in Invites, role \in Roles : Invite(s, i, role)
    \/ \E h \in Houses, i \in Invites : AdminInvite(h, i)
    \/ \E s \in Sessions, i \in Invites : Revoke(s, i)
    \/ \E s \in Sessions : Logout(s)
    \/ \E h \in Houses : SystemTenant(h) \/ SystemDelete(h)
    \/ \E u \in Users : ResetRequest(u)

LEMMA Invited ==
  ASSUME DataTypes, NEW i \in Invites, NEW v \in Invitation,
         v.state # "none" => v.house \in Houses,
         invitation' = [invitation EXCEPT ![i] = v]
  PROVE  /\ invitation' \in [Invites -> Invitation]
         /\ \A x \in Invites : invitation'[x].state # "none" => invitation'[x].house \in Houses
  BY DEF DataTypes

LEMMA AloneTyped ==
  ASSUME HouseholdsOK, TypeInv, Alone
  PROVE  DataTypes' /\ UNCHANGED <<pc, job>>
<1> USE DEF accounts, houses, locks, history
<1>0. DataTypes
  BY DEF TypeInv
<1>1. UNCHANGED <<pc, job>>
  BY DEF Alone, Signup, Invite, AdminInvite, Revoke, Logout, SystemTenant, SystemDelete,
         ResetRequest
<1>2. ASSUME NEW u \in Users, NEW k \in Tokens, Signup(u, k)
      PROVE  DataTypes'
  <2>1. account' \in [Users -> Account] /\ verification' \in [Users -> [Tokens -> Link]]
    BY <1>0, <1>2 DEF Signup, DataTypes, Account, Link
  <2>2. QED BY <1>0, <1>2, <2>1 DEF Signup, DataTypes
<1>3. ASSUME NEW s \in Sessions, NEW i \in Invites, NEW role \in Roles, Invite(s, i, role)
      PROVE  DataTypes'
  <2>1. PICK h \in Houses : invitation' = [invitation EXCEPT
                               ![i] = [state |-> "live", house |-> h, role |-> role]]
    BY <1>3 DEF Invite, HousesOf
  <2>2. [state |-> "live", house |-> h, role |-> role] \in Invitation
    BY DEF Invitation
  <2>3. QED BY <1>0, <1>3, <2>1, <2>2, Invited DEF Invite, DataTypes
<1>4. ASSUME NEW h \in Houses, NEW i \in Invites, AdminInvite(h, i)
      PROVE  DataTypes'
  <2>1. [state |-> "live", house |-> h, role |-> Admin] \in Invitation
    BY Names DEF Invitation
  <2>2. QED BY <1>0, <1>4, <2>1, Invited DEF AdminInvite, DataTypes
<1>5. ASSUME NEW s \in Sessions, NEW i \in Invites, Revoke(s, i)
      PROVE  DataTypes'
  <2>1. PICK v \in Invitation : v = invitation[i]
    BY <1>0 DEF DataTypes
  <2>2. v.house \in Houses
    BY <1>0, <1>5, <2>1 DEF Revoke, DataTypes
  <2>3. /\ [v EXCEPT !.state = "revoked"] \in Invitation
        /\ [v EXCEPT !.state = "revoked"].house = v.house
    BY DEF Invitation
  <2>4. invitation' = [invitation EXCEPT ![i] = [v EXCEPT !.state = "revoked"]]
    BY <1>5, <2>1 DEF Revoke
  <2>5. QED BY <1>0, <1>5, <2>2, <2>3, <2>4, Invited DEF Revoke, DataTypes
<1>6. ASSUME NEW s \in Sessions, Logout(s)
      PROVE  DataTypes'
  BY <1>0, <1>6 DEF Logout, DataTypes
<1>7. ASSUME NEW h \in Houses, SystemTenant(h)
      PROVE  DataTypes'
  BY <1>0, <1>7 DEF SystemTenant, DataTypes
<1>8. ASSUME NEW h \in Houses, SystemDelete(h)
      PROVE  DataTypes'
  <2>1. DropHouses({h}, member, session)
    BY <1>8 DEF SystemDelete
  <2>2. /\ house' \in [Houses -> {"free", "live", "gone"}]
        /\ member' \in [Houses -> [Users -> Roles \cup {None}]]
        /\ invitation' \in [Invites -> Invitation]
        /\ \A i \in Invites : invitation'[i].state # "none" => invitation'[i].house \in Houses
        /\ session' \in [Sessions -> Session \cup {NoSession}]
        /\ departed' \subseteq Users
    BY <1>0, <2>1, Dropping DEF DataTypes
  <2>3. QED BY <1>0, <1>8, <2>2 DEF SystemDelete, DataTypes
<1>9. ASSUME NEW u \in Users, ResetRequest(u)
      PROVE  DataTypes'
  BY <1>0, <1>9 DEF ResetRequest, DataTypes, Link
<1>10. QED BY <1>1, <1>2, <1>3, <1>4, <1>5, <1>6, <1>7, <1>8, <1>9 DEF Alone

\* Steps of a request under way.
Continues(r) ==
    \/ VerifyLock(r) \/ VerifyCommit(r) \/ AcceptCommit(r) \/ OpenSession(r)
    \/ LoginSession(r) \/ SetSessionTenant(r) \/ Gate(r) \/ Act(r)
    \/ RemoveMember(r) \/ Unseat(r) \/ DeleteCommit(r)
    \/ ResetCommit(r) \/ EndSessions(r) \/ Abort(r) \/ Refused(r)
    \/ \E s \in Sessions \cup {None} : LoginTenant(r, s)

LEMMA Steps ==
  ASSUME Next
  PROVE  Alone \/ \E r \in Requests : Arrives(r) \/ Continues(r)
  BY DEF Next, Alone, Arrives, Continues

\* The types are an invariant, given what a lock on an invitation keeps.
LEMMA TypesNext ==
  ASSUME HouseholdsOK, TypeInv, LocksHold, Next
  PROVE  TypeInv'
<1>1. CASE Alone
  BY <1>1, AloneTyped DEF TypeInv, JobTypes
<1>2. ASSUME NEW r \in Requests, Arrives(r)
      PROVE  TypeInv'
  <2>1. \E st \in Stages, j \in Job : Moved(r, st, j)
    BY <1>2, ArrivalsMove DEF Arrives, Stages
  <2>2. QED BY <1>2, <2>1, ArrivalsTyped DEF Moved, TypeInv, JobTypes
<1>3. ASSUME NEW r \in Requests, Continues(r)
      PROVE  TypeInv'
  <2>1. \E st, j : Moved(r, st, j)
    BY <1>3, StepsMove, LastSteps DEF Continues
  <2>2. QED BY <1>3, <2>1, ChangesTyped, SessionsTyped DEF Continues, Moved, TypeInv, JobTypes
<1>4. QED BY <1>1, <1>2, <1>3, Steps

-----------------------------------------------------------------------------
(* The foreign keys.                                                       *)

Opening == {"session", "loggedIn", "open"}

\* A step that takes no key away from what refers to it.
KeysQuiet ==
    /\ \A h \in Houses, u \in Users : member'[h][u] # None => member[h][u] # None
    /\ \A h \in Houses : house[h] = "live" => house'[h] = "live"
    /\ \A u \in Users : account[u] \in {"verified", "gone"} => account'[u] = account[u]
    /\ \A s \in Sessions : session'[s] # NoSession =>
         /\ session[s] # NoSession /\ session'[s].user = session[s].user
         /\ session'[s].house \in {session[s].house, None}
    /\ \A q \in Requests : pc'[q] \in Opening =>
         pc[q] \in Opening /\ job'[q].user = job[q].user

LEMMA KeysQuietly ==
  ASSUME HouseholdsOK, TypeInv, KeysHold, KeysQuiet
  PROVE  KeysHold'
<1>1. ASSUME NEW h \in Houses, NEW u \in Users, member'[h][u] # None
      PROVE  house'[h] = "live" /\ account'[u] = "verified"
  BY <1>1 DEF KeysQuiet, KeysHold
<1>2. ASSUME NEW s \in Sessions, session'[s] # NoSession
      PROVE  /\ account'[session'[s].user] = "verified"
             /\ session'[s].house = None \/ house'[session'[s].house] = "live"
  <2>1. /\ session[s] # NoSession /\ session'[s].user = session[s].user
        /\ session'[s].house \in {session[s].house, None}
    BY <1>2 DEF KeysQuiet
  <2>2. session[s].user \in Users /\ session[s].house \in Houses \cup {None}
    BY <2>1, SessionHolds
  <2>3. QED BY <2>1, <2>2 DEF KeysQuiet, KeysHold
<1>3. ASSUME NEW q \in Requests, pc'[q] \in Opening
      PROVE  account'[job'[q].user] \in {"verified", "gone"}
  <2>1. pc[q] \in Opening /\ job'[q].user = job[q].user
    BY <1>3 DEF KeysQuiet
  <2>2. job[q].user \in Users
    BY <2>1, Holds DEF Opening
  <2>3. account[job[q].user] \in {"verified", "gone"}
    BY <2>1 DEF KeysHold, Opening
  <2>4. QED BY <2>1, <2>2, <2>3 DEF KeysQuiet
<1>4. QED BY <1>1, <1>2, <1>3 DEF KeysHold, Opening

LEMMA KeysArrive ==
  ASSUME HouseholdsOK, TypeInv, KeysHold, NEW r \in Requests, Arrives(r)
  PROVE  KeysHold'
<1>0. Unwritten
  BY ArrivalsWrite
<1>1. ASSUME NEW u \in Users, Login(r, u)
      PROVE  KeysHold'
  <2>1. PICK j \in Job : Moved(r, "loggedIn", j) /\ j.user = u
    BY <1>1, ArrivalsMove
  <2>2. account[u] = "verified"
    BY <1>1 DEF Login
  <2>3. QED BY <1>0, <2>1, <2>2 DEF Moved, Unwritten, KeysHold
<1>2. ASSUME NEW st \in Stages \ Opening, NEW j, Moved(r, st, j)
      PROVE  KeysHold'
  BY <1>0, <1>2, KeysQuietly DEF Moved, Unwritten, KeysQuiet
<1>3. (\E u \in Users : Login(r, u)) \/ \E st \in Stages \ Opening, j \in Job : Moved(r, st, j)
  BY ArrivalsMove DEF Arrives, Stages, Opening
<1>4. QED BY <1>1, <1>2, <1>3

LEMMA KeysAlone ==
  ASSUME HouseholdsOK, TypeInv, KeysHold, Alone
  PROVE  KeysHold'
<1> USE DEF accounts, houses, locks, history
<1>0. UNCHANGED <<pc, job>>
  BY AloneTyped
<1>1. ASSUME NEW u \in Users, NEW k \in Tokens, Signup(u, k)
      PROVE  KeysQuiet
  BY <1>0, <1>1 DEF Signup, KeysQuiet, TypeInv, DataTypes
<1>2. ASSUME \/ \E s \in Sessions, i \in Invites, role \in Roles : Invite(s, i, role)
             \/ \E h \in Houses, i \in Invites : AdminInvite(h, i)
             \/ \E s \in Sessions, i \in Invites : Revoke(s, i)
             \/ \E u \in Users : ResetRequest(u)
      PROVE  KeysQuiet
  BY <1>0, <1>2 DEF Invite, AdminInvite, Revoke, ResetRequest, KeysQuiet
<1>3. ASSUME NEW s \in Sessions, Logout(s)
      PROVE  KeysQuiet
  BY <1>0, <1>3 DEF Logout, KeysQuiet, TypeInv, DataTypes
<1>4. ASSUME NEW h \in Houses, SystemTenant(h)
      PROVE  KeysQuiet
  BY <1>0, <1>4 DEF SystemTenant, KeysQuiet, TypeInv, DataTypes
<1>5. ASSUME NEW h \in Houses, SystemDelete(h)
      PROVE  KeysHold'
  <2>1. DropHouses({h}, member, session) /\ UNCHANGED account
    BY <1>5 DEF SystemDelete
  <2>2. \A s \in Sessions : session'[s] # NoSession =>
          /\ session[s] # NoSession /\ session'[s].user = session[s].user
          /\ session[s].house = h => session'[s].house = None
          /\ session[s].house # h => session'[s].house = session[s].house
    <3>1. /\ {h} \in SUBSET Houses /\ member \in [Houses -> [Users -> Roles \cup {None}]]
          /\ session \in [Sessions -> Session \cup {NoSession}]
      BY DEF TypeInv, DataTypes
    <3>2. \A s \in Sessions : Without(session[s], session'[s], {h})
      BY <2>1, <3>1, DroppedSession
    <3>3. QED BY <3>2 DEF Without
  <2>3. \A g \in Houses \ {h} : house'[g] = house[g] /\ member'[g] = member[g]
    BY <2>1 DEF DropHouses
  <2>4. \A u \in Users : member'[h][u] = None
    BY <2>1 DEF DropHouses
  <2>5. \A g \in Houses, u \in Users :
          member'[g][u] # None => house'[g] = "live" /\ account'[u] = "verified"
    BY <2>1, <2>3, <2>4 DEF KeysHold
  <2>6. ASSUME NEW s \in Sessions, session'[s] # NoSession
        PROVE  /\ account'[session'[s].user] = "verified"
               /\ session'[s].house = None \/ house'[session'[s].house] = "live"
    BY <2>1, <2>2, <2>3, <2>6, SessionHolds DEF KeysHold
  <2>7. QED BY <1>0, <2>1, <2>5, <2>6 DEF KeysHold
<1>6. QED BY <1>1, <1>2, <1>3, <1>4, <1>5, KeysQuietly DEF Alone

\* A new session refers to an account and a household that are there.
LEMMA KeysOpen ==
  ASSUME HouseholdsOK, TypeInv, KeysHold, NEW r \in Requests, Moved(r, "idle", NoJob),
         NEW u \in Users, NEW h \in Houses, NEW pw,
         NewSession(u, h, pw), account[u] = "verified", house[h] = "live",
         UNCHANGED <<account, house, member>>
  PROVE  KeysHold'
<1>1. PICK s \in Sessions :
        session' = [session EXCEPT ![s] = [user |-> u, house |-> h, password |-> pw]]
  BY DEF NewSession
<1>2. session \in [Sessions -> Session \cup {NoSession}]
  BY DEF TypeInv, DataTypes
<1>3. \A t \in Sessions \ {s} : session'[t] = session[t]
  BY <1>1, <1>2
<1>4. session'[s].user = u /\ session'[s].house = h
  BY <1>1, <1>2
<1>5. \A q \in Requests : pc'[q] \in Opening => pc[q] \in Opening /\ job'[q] = job[q]
  BY DEF Moved, Opening
<1>6. QED BY <1>3, <1>4, <1>5 DEF KeysHold, Opening

LEMMA KeysContinue ==
  ASSUME HouseholdsOK, TypeInv, KeysHold, NEW r \in Requests, Continues(r)
  PROVE  KeysHold'
<1> USE DEF accounts, houses, locks, history
<1>0. DataTypes
  BY DEF TypeInv
<1>1. CASE VerifyLock(r)
  <2>1. PICK j : Moved(r, "found", j)
    BY <1>1, StepsMove
  <2>2. KeysQuiet
    BY <1>1, <2>1 DEF VerifyLock, Moved, KeysQuiet, Opening
  <2>3. QED BY <2>2, KeysQuietly
<1>2. CASE VerifyCommit(r)
  <2>1. PICK u \in Users : u = job[r].user
    BY <1>2, Holds DEF VerifyCommit
  <2>2. PICK j \in Job : Moved(r, "session", j) /\ j.user = u
    BY <1>2, <2>1, StepsMove
  <2>3. /\ account' = [account EXCEPT ![u] = "verified"] /\ session' = session
        /\ \/ UNCHANGED <<house, member>>
           \/ \E h \in Houses : /\ house' = [house EXCEPT ![h] = "live"]
                                /\ member' = [member EXCEPT ![h][u] = Admin]
    BY <1>2, <2>1 DEF VerifyCommit
  <2>4. account'[u] = "verified" /\ \A v \in Users \ {u} : account'[v] = account[v]
    BY <1>0, <2>3 DEF DataTypes
  <2>5. \A g \in Houses : house[g] = "live" => house'[g] = "live"
    BY <1>0, <2>3 DEF DataTypes
  <2>6. ASSUME NEW g \in Houses, NEW v \in Users, member'[g][v] # None
        PROVE  house'[g] = "live" /\ account'[v] = "verified"
    <3>1. \/ member[g][v] # None
          \/ v = u /\ house'[g] = "live"
      <4>1. CASE UNCHANGED <<house, member>>
        BY <2>6, <4>1
      <4>2. CASE \E h \in Houses : /\ house' = [house EXCEPT ![h] = "live"]
                                  /\ member' = [member EXCEPT ![h][u] = Admin]
        <5>1. PICK h \in Houses : /\ house' = [house EXCEPT ![h] = "live"]
                                  /\ member' = [member EXCEPT ![h][u] = Admin]
          BY <4>2
        <5>2. g = h => house'[g] = "live"
          BY <1>0, <5>1 DEF DataTypes
        <5>3. g # h \/ v # u => member'[g][v] = member[g][v]
          BY <1>0, <5>1 DEF DataTypes
        <5>4. QED BY <2>6, <5>2, <5>3
      <4>3. QED BY <2>3, <4>1, <4>2
    <3>2. QED BY <2>4, <2>5, <3>1 DEF KeysHold
  <2>7. ASSUME NEW s \in Sessions, session'[s] # NoSession
        PROVE  /\ account'[session'[s].user] = "verified"
               /\ session'[s].house = None \/ house'[session'[s].house] = "live"
    BY <2>3, <2>4, <2>5, <2>7, SessionHolds DEF KeysHold
  <2>8. ASSUME NEW q \in Requests, pc'[q] \in Opening
        PROVE  account'[job'[q].user] \in {"verified", "gone"}
    <3>1. CASE q = r
      BY <2>2, <2>4, <3>1 DEF Moved
    <3>2. CASE q # r
      <4>1. pc[q] \in Opening /\ job'[q] = job[q]
        BY <2>2, <2>8, <3>2 DEF Moved
      <4>2. job[q].user \in Users
        BY <4>1, Holds DEF Opening
      <4>3. QED BY <2>4, <4>1, <4>2 DEF KeysHold, Opening
    <3>3. QED BY <3>1, <3>2
  <2>9. QED BY <2>6, <2>7, <2>8 DEF KeysHold, Opening
<1>3. CASE AcceptCommit(r)
  <2>1. PICK u \in Users, h \in Houses : u = job[r].user /\ h = job[r].house
    BY <1>3, Holds DEF AcceptCommit, Placed
  <2>2. Moved(r, "session", job[r])
    BY <1>3, StepsMove
  <2>3. /\ account' = [account EXCEPT ![u] = "verified"] /\ session' = session
        /\ house' = house /\ house[h] = "live"
        /\ \E x : member' = [member EXCEPT ![h][u] = x]
    BY <1>3, <2>1 DEF AcceptCommit
  <2>4. account'[u] = "verified" /\ \A v \in Users \ {u} : account'[v] = account[v]
    BY <1>0, <2>3 DEF DataTypes
  <2>5. ASSUME NEW g \in Houses, NEW v \in Users, member'[g][v] # None
        PROVE  house'[g] = "live" /\ account'[v] = "verified"
    <3>1. member[g][v] # None \/ (g = h /\ v = u)
      BY <1>0, <2>3, <2>5 DEF DataTypes
    <3>2. QED BY <2>3, <2>4, <3>1 DEF KeysHold
  <2>6. ASSUME NEW s \in Sessions, session'[s] # NoSession
        PROVE  /\ account'[session'[s].user] = "verified"
               /\ session'[s].house = None \/ house'[session'[s].house] = "live"
    BY <2>3, <2>4, <2>6, SessionHolds DEF KeysHold
  <2>7. ASSUME NEW q \in Requests, pc'[q] \in Opening
        PROVE  account'[job'[q].user] \in {"verified", "gone"}
    <3>1. CASE q = r
      BY <2>1, <2>2, <2>4, <3>1 DEF Moved
    <3>2. CASE q # r
      <4>1. pc[q] \in Opening /\ job'[q] = job[q]
        BY <2>2, <2>7, <3>2 DEF Moved
      <4>2. job[q].user \in Users
        BY <4>1, Holds DEF Opening
      <4>3. QED BY <2>4, <4>1, <4>2 DEF KeysHold, Opening
    <3>3. QED BY <3>1, <3>2
  <2>8. QED BY <2>5, <2>6, <2>7 DEF KeysHold, Opening
<1>4. CASE OpenSession(r) \/ LoginSession(r)
  <2>1. PICK u \in Users, h \in Houses : u = job[r].user /\ h = job[r].house
    BY <1>4, Holds DEF OpenSession, LoginSession, Placed
  <2>2. Moved(r, "idle", NoJob)
    BY <1>4, LastSteps
  <2>3. UNCHANGED <<account, house, member>>
    BY <1>4 DEF OpenSession, LoginSession
  <2>4. \/ UNCHANGED session
        \/ /\ Exists(u) /\ house[h] = "live"
           /\ NewSession(u, h, password[u]) \/ NewSession(u, h, job[r].password)
    BY <1>4, <2>1 DEF OpenSession, LoginSession
  <2>5. account[u] \in {"verified", "gone"}
    BY <1>4, <2>1 DEF OpenSession, LoginSession, KeysHold
  <2>6. CASE UNCHANGED session
    BY <2>2, <2>3, <2>6, KeysQuietly DEF KeysQuiet, Moved, Opening
  <2>7. QED BY <2>1, <2>2, <2>3, <2>4, <2>5, <2>6, KeysOpen DEF Exists
<1>5. CASE SetSessionTenant(r)
  <2>1. PICK s \in Sessions, h \in Houses, u \in Users :
          s = job[r].session /\ h = job[r].house /\ u = job[r].user
    BY <1>5, Holds DEF SetSessionTenant, Placed
  <2>2. Moved(r, "idle", NoJob) /\ UNCHANGED <<account, house, member>>
    BY <1>5, LastSteps DEF SetSessionTenant
  <2>3. \/ UNCHANGED session
        \/ /\ session' = [session EXCEPT ![s].house = h] /\ house[h] = "live"
           /\ session[s].user = u
    BY <1>5, <2>1 DEF SetSessionTenant
  <2>4. CASE UNCHANGED session
    BY <2>2, <2>4, KeysQuietly DEF KeysQuiet, Moved, Opening
  <2>5. CASE /\ session' = [session EXCEPT ![s].house = h] /\ house[h] = "live"
             /\ session[s].user = u
    <3>1. session[s] \in Session
      BY <1>0, <2>5, Names DEF DataTypes
    <3>2. session[s] # NoSession /\ session'[s].house = h /\ session'[s].user = u
      BY <1>0, <2>5, <3>1, Names DEF DataTypes, Session
    <3>3. \A t \in Sessions \ {s} : session'[t] = session[t]
      BY <1>0, <2>5 DEF DataTypes
    <3>4. \A q \in Requests : pc'[q] \in Opening => pc[q] \in Opening /\ job'[q] = job[q]
      BY <2>2 DEF Moved, Opening
    <3>5. QED BY <2>2, <2>5, <3>2, <3>3, <3>4 DEF KeysHold, Opening
  <2>6. QED BY <2>3, <2>4, <2>5
<1>6. CASE Gate(r)
  <2>1. \E j : Moved(r, "idle", j) \/ Moved(r, "act", j)
    BY <1>6, StepsMove
  <2>2. QED BY <1>6, <2>1, KeysQuietly DEF Gate, Moved, KeysQuiet, Opening
<1>7. CASE Act(r) \/ Abort(r) \/ Refused(r)
  BY <1>7, LastSteps, KeysQuietly DEF Act, Abort, Refused, Moved, KeysQuiet, Opening
<1>8. CASE RemoveMember(r)
  <2>1. Moved(r, "unseat", job[r])
    BY <1>8, StepsMove
  <2>2. \A h \in Houses, u \in Users : member'[h][u] # None => member[h][u] # None
    BY <1>0, <1>8 DEF RemoveMember, DataTypes
  <2>3. QED BY <1>8, <2>1, <2>2, KeysQuietly DEF RemoveMember, Moved, KeysQuiet, Opening
<1>9. CASE Unseat(r)
  <2>1. Moved(r, "idle", NoJob)
    BY <1>9, LastSteps
  <2>2. job[r].user \in Users
    BY <1>9, Holds DEF Unseat
  <2>3. ASSUME NEW s \in Sessions, session'[s] # NoSession
        PROVE  /\ session[s] # NoSession /\ session'[s].user = session[s].user
               /\ session'[s].house \in {session[s].house, None}
    <3>1. CASE session[s].user = job[r].user /\ session[s].house = job[r].house
      <4>1. session'[s] = [session[s] EXCEPT !.house = None]
        BY <1>9, <3>1 DEF Unseat, Affected
      <4>2. session[s] \in Session
        BY <1>0, <2>2, <3>1, Names DEF DataTypes
      <4>3. QED BY <4>1, <4>2, Names DEF Session
    <3>2. CASE ~(session[s].user = job[r].user /\ session[s].house = job[r].house)
      BY <1>9, <2>3, <3>2 DEF Unseat, Affected
    <3>3. QED BY <3>1, <3>2
  <2>4. QED BY <1>9, <2>1, <2>3, KeysQuietly DEF Unseat, Moved, KeysQuiet, Opening
<1>10. CASE DeleteCommit(r)
  <2> DEFINE m(u) == [h \in Houses |-> [member[h] EXCEPT ![u] = None]]
             se(u) == [s \in Sessions |-> IF session[s].user = u THEN NoSession
                                                                 ELSE session[s]]
  <2>1. PICK u \in Users, hs \in SUBSET Houses : u = job[r].user /\ hs = job[r].houses
    BY <1>10, Erasing
  <2>2. /\ m(u) \in [Houses -> [Users -> Roles \cup {None}]]
        /\ se(u) \in [Sessions -> Session \cup {NoSession}]
        /\ DropHouses(hs, m(u), se(u))
    BY <1>10, <2>1, Erasing
  <2>3. account' = [account EXCEPT ![u] = "gone"] /\ Moved(r, "idle", NoJob)
    BY <1>10, <2>1, LastSteps DEF DeleteCommit
  <2>4. \A s \in Sessions : session'[s] # NoSession =>
          /\ se(u)[s] # NoSession /\ session'[s].user = se(u)[s].user
          /\ se(u)[s].house \in hs => session'[s].house = None
          /\ se(u)[s].house \notin hs => session'[s].house = se(u)[s].house
    <3>1. PICK m1 \in [Houses -> [Users -> Roles \cup {None}]],
                se1 \in [Sessions -> Session \cup {NoSession}] : m1 = m(u) /\ se1 = se(u)
      BY <2>2
    <3>2. DropHouses(hs, m1, se1)
      BY <2>2, <3>1
    <3>3. \A s \in Sessions : Without(se1[s], session'[s], hs)
      BY <3>2, DroppedSession
    <3> HIDE DEF m, se
    <3>4. QED BY <3>1, <3>3 DEF Without
  <2>5. \A s \in Sessions : session'[s] # NoSession =>
          /\ session[s] # NoSession /\ session[s].user # u
          /\ session'[s].user = session[s].user
          /\ session[s].house \in hs => session'[s].house = None
          /\ session[s].house \notin hs => session'[s].house = session[s].house
    BY <2>4
  <2>6. \A h \in Houses, v \in Users : member'[h][v] # None =>
          h \notin hs /\ v # u /\ member[h][v] # None
    BY <1>0, <2>2 DEF DropHouses, DataTypes
  <2>7. \A h \in Houses \ hs : house'[h] = house[h]
    BY <2>2 DEF DropHouses
  <2>8. account'[u] = "gone" /\ \A v \in Users \ {u} : account'[v] = account[v]
    BY <1>0, <2>3 DEF DataTypes
  <2>9. \A h \in Houses, v \in Users :
          member'[h][v] # None => house'[h] = "live" /\ account'[v] = "verified"
    BY <2>6, <2>7, <2>8 DEF KeysHold
  <2>10. ASSUME NEW s \in Sessions, session'[s] # NoSession
         PROVE  /\ account'[session'[s].user] = "verified"
                /\ session'[s].house = None \/ house'[session'[s].house] = "live"
    BY <2>5, <2>7, <2>8, <2>10, SessionHolds DEF KeysHold
  <2>11. ASSUME NEW q \in Requests, pc'[q] \in Opening
         PROVE  account'[job'[q].user] \in {"verified", "gone"}
    <3>1. pc[q] \in Opening /\ job'[q] = job[q]
      BY <2>3, <2>11 DEF Moved, Opening
    <3>2. job[q].user \in Users
      BY <3>1, Holds DEF Opening
    <3>3. QED BY <2>8, <3>1, <3>2 DEF KeysHold, Opening
  <2>12. QED BY <2>9, <2>10, <2>11 DEF KeysHold, Opening
<1>11. CASE ResetCommit(r)
  BY <1>11, StepsMove, KeysQuietly DEF ResetCommit, Moved, KeysQuiet, Opening
<1>12. CASE EndSessions(r)
  <2>1. \A s \in Sessions : session'[s] # NoSession => session'[s] = session[s]
    BY <1>12 DEF EndSessions
  <2>2. QED BY <1>12, <2>1, LastSteps, KeysQuietly DEF EndSessions, Moved, KeysQuiet, Opening
<1>13. ASSUME NEW s \in Sessions \cup {None}, LoginTenant(r, s)
       PROVE  KeysHold'
  <2>1. \/ Moved(r, "idle", NoJob)
        \/ \E j \in Job : Moved(r, "open", j) /\ j.user = job[r].user
    BY <1>13, StepsMove
  <2>2. \A t \in Sessions : session'[t] # NoSession => session'[t] = session[t]
    BY <1>0, <1>13 DEF LoginTenant, DataTypes
  <2>3. pc[r] = "loggedIn" /\ UNCHANGED <<account, house, member>>
    BY <1>13 DEF LoginTenant
  <2>4. QED BY <2>1, <2>2, <2>3, KeysQuietly DEF Moved, KeysQuiet, Opening
<1>14. QED BY <1>1, <1>2, <1>3, <1>4, <1>5, <1>6, <1>7, <1>8, <1>9, <1>10, <1>11, <1>12,
             <1>13 DEF Continues

-----------------------------------------------------------------------------
(* The locks.                                                              *)

\* A step that leaves alone the locks, who holds them, and the invitations
\* that are being accepted.
LocksQuiet ==
    /\ UNCHANGED <<userLock, inviteLock>>
    /\ \A q \in Requests : pc[q] \in {"found", "join"} => pc'[q] = pc[q] /\ job'[q] = job[q]
    /\ \A q \in Requests : pc'[q] = "join" => pc[q] = "join"
    /\ \A q \in Requests : pc[q] = "join" =>
         invitation'[job[q].token] = invitation[job[q].token]

LEMMA LocksQuietly ==
  ASSUME HouseholdsOK, TypeInv, LocksHold, LocksQuiet
  PROVE  LocksHold'
<1>1. \A u \in Users : userLock[u] # None => userLock[u] \in Requests
  BY DEF TypeInv, DataTypes
<1>2. \A i \in Invites : inviteLock[i] # None => inviteLock[i] \in Requests
  BY DEF TypeInv, DataTypes
<1>3. ASSUME NEW u \in Users, userLock'[u] # None
      PROVE  pc'[userLock'[u]] = "found" /\ job'[userLock'[u]].user = u
  BY <1>1, <1>3 DEF LocksQuiet, LocksHold
<1>4. ASSUME NEW i \in Invites, inviteLock'[i] # None
      PROVE  pc'[inviteLock'[i]] = "join" /\ job'[inviteLock'[i]].token = i
  BY <1>2, <1>4 DEF LocksQuiet, LocksHold
<1>5. ASSUME NEW q \in Requests, pc'[q] = "join"
      PROVE  LET i == job'[q].token IN
               /\ inviteLock'[i] = q /\ invitation'[i].state = "live"
               /\ invitation'[i].house = job'[q].house
  BY <1>5 DEF LocksQuiet, LocksHold
<1>6. QED BY <1>3, <1>4, <1>5 DEF LocksHold

\* A request that ends its transaction: what it held is free, what the
\* others hold they keep.
LEMMA LocksReleased ==
  ASSUME HouseholdsOK, TypeInv, LocksHold, NEW r \in Requests, Release(r),
         NEW st, NEW j, st # "join", Moved(r, st, j),
         \A q \in Requests \ {r} : pc[q] = "join" =>
           invitation'[job[q].token] = invitation[job[q].token]
  PROVE  LocksHold'
<1>1. ASSUME NEW u \in Users, userLock'[u] # None
      PROVE  pc'[userLock'[u]] = "found" /\ job'[userLock'[u]].user = u
  <2>1. userLock'[u] = userLock[u] /\ userLock[u] # r /\ userLock[u] \in Requests
    BY <1>1 DEF Release, TypeInv, DataTypes
  <2>2. QED BY <1>1, <2>1 DEF Moved, LocksHold
<1>2. ASSUME NEW i \in Invites, inviteLock'[i] # None
      PROVE  pc'[inviteLock'[i]] = "join" /\ job'[inviteLock'[i]].token = i
  <2>1. inviteLock'[i] = inviteLock[i] /\ inviteLock[i] # r /\ inviteLock[i] \in Requests
    BY <1>2 DEF Release, TypeInv, DataTypes
  <2>2. QED BY <1>2, <2>1 DEF Moved, LocksHold
<1>3. ASSUME NEW q \in Requests, pc'[q] = "join"
      PROVE  LET i == job'[q].token IN
               /\ inviteLock'[i] = q /\ invitation'[i].state = "live"
               /\ invitation'[i].house = job'[q].house
  <2>1. q # r /\ pc[q] = "join" /\ job'[q] = job[q]
    BY <1>3 DEF Moved
  <2>2. PICK i \in Invites : i = job[q].token
    BY <2>1, Holds
  <2>3. inviteLock[i] = q /\ invitation[i].state = "live" /\ invitation[i].house = job[q].house
    BY <2>1, <2>2 DEF LocksHold
  <2>4. inviteLock'[i] = q
    BY <2>1, <2>3 DEF Release
  <2>5. QED BY <2>1, <2>2, <2>3, <2>4
<1>4. QED BY <1>1, <1>2, <1>3 DEF LocksHold

LEMMA LocksArrive ==
  ASSUME HouseholdsOK, TypeInv, LocksHold, NEW r \in Requests, Arrives(r)
  PROVE  LocksHold'
<1>0. Unwritten
  BY ArrivalsWrite
<1>1. ASSUME NEW i \in Invites, NEW u \in Users, AcceptLock(r, i, u)
      PROVE  LocksHold'
  <2>1. PICK j \in Job : /\ Moved(r, "join", j) /\ pc[r] = "idle"
                         /\ j.token = i /\ j.house = invitation[i].house
    BY <1>1, ArrivalsMove
  <2>2. /\ inviteLock[i] = None /\ invitation[i].state = "live"
        /\ inviteLock' = [inviteLock EXCEPT ![i] = r]
    BY <1>1 DEF AcceptLock
  <2>3. inviteLock'[i] = r /\ \A x \in Invites \ {i} : inviteLock'[x] = inviteLock[x]
    BY <2>2 DEF TypeInv, DataTypes
  <2>4. ASSUME NEW w \in Users, userLock'[w] # None
        PROVE  pc'[userLock'[w]] = "found" /\ job'[userLock'[w]].user = w
    <3>1. userLock'[w] = userLock[w] /\ userLock[w] \in Requests
      BY <1>0, <2>4 DEF Unwritten, TypeInv, DataTypes
    <3>2. QED BY <2>1, <2>4, <3>1 DEF Moved, LocksHold
  <2>5. ASSUME NEW x \in Invites, inviteLock'[x] # None
        PROVE  pc'[inviteLock'[x]] = "join" /\ job'[inviteLock'[x]].token = x
    <3>1. CASE x = i
      BY <2>1, <2>3, <3>1 DEF Moved
    <3>2. CASE x # i
      <4>1. inviteLock'[x] = inviteLock[x] /\ inviteLock[x] \in Requests
        BY <2>3, <2>5, <3>2 DEF TypeInv, DataTypes
      <4>2. QED BY <2>1, <2>5, <4>1 DEF Moved, LocksHold
    <3>3. QED BY <3>1, <3>2
  <2>6. ASSUME NEW q \in Requests, pc'[q] = "join"
        PROVE  LET x == job'[q].token IN
                 /\ inviteLock'[x] = q /\ invitation'[x].state = "live"
                 /\ invitation'[x].house = job'[q].house
    <3>1. CASE q = r
      BY <1>0, <2>1, <2>2, <2>3, <3>1 DEF Moved, Unwritten
    <3>2. CASE q # r
      <4>1. pc[q] = "join" /\ job'[q] = job[q]
        BY <2>1, <2>6, <3>2 DEF Moved
      <4>2. PICK x \in Invites : x = job[q].token
        BY <4>1, Holds
      <4>3. inviteLock[x] = q
        BY <4>1, <4>2 DEF LocksHold
      <4>4. x # i
        BY <2>2, <4>3, Names
      <4>5. QED BY <1>0, <2>3, <4>1, <4>2, <4>4 DEF Unwritten, LocksHold
    <3>3. QED BY <3>1, <3>2
  <2>7. QED BY <2>4, <2>5, <2>6 DEF LocksHold
<1>2. CASE ~ \E i \in Invites, u \in Users : AcceptLock(r, i, u)
  <2>1. UNCHANGED inviteLock
    BY <1>2, ArrivalsWrite
  <2>2. \E st, j : st # "join" /\ Moved(r, st, j) /\ pc[r] = "idle"
    BY <1>2, ArrivalsMove DEF Arrives
  <2>3. LocksQuiet
    BY <1>0, <2>1, <2>2 DEF Moved, Unwritten, LocksQuiet
  <2>4. QED BY <2>3, LocksQuietly
<1>3. QED BY <1>1, <1>2

\* An invitation somebody is accepting is not deleted with its household.
LEMMA LockedStay ==
  ASSUME HouseholdsOK, TypeInv, LocksHold, NEW hs \in SUBSET Houses, NEW m, NEW se,
         DropHouses(hs, m, se),
         \A i \in Invites : invitation[i].house \in hs => inviteLock[i] = None
  PROVE  \A q \in Requests : pc[q] = "join" =>
           invitation'[job[q].token] = invitation[job[q].token]
<1> SUFFICES ASSUME NEW q \in Requests, pc[q] = "join"
             PROVE  invitation'[job[q].token] = invitation[job[q].token]
  OBVIOUS
<1>1. PICK i \in Invites : i = job[q].token
  BY Holds
<1>2. inviteLock[i] # None
  BY <1>1, Names DEF LocksHold
<1>3. QED BY <1>1, <1>2 DEF DropHouses

LEMMA LocksAlone ==
  ASSUME HouseholdsOK, TypeInv, LocksHold, Alone
  PROVE  LocksHold'
<1> USE DEF accounts, houses, locks, history
<1>0. UNCHANGED <<pc, job>>
  BY AloneTyped
<1>1. UNCHANGED <<userLock, inviteLock>>
  BY DEF Alone, Signup, Invite, AdminInvite, Revoke, Logout, SystemTenant, SystemDelete,
         ResetRequest
<1>2. ASSUME NEW q \in Requests, pc[q] = "join"
      PROVE  invitation'[job[q].token] = invitation[job[q].token]
  <2>1. PICK x \in Invites : x = job[q].token
    BY <1>2, Holds
  <2>2. inviteLock[x] # None /\ invitation[x].state = "live"
    BY <1>2, <2>1, Names DEF LocksHold
  <2>3. NoInvite.state = "none"
    BY DEF NoInvite
  <2>4. CASE \/ \E s \in Sessions, i \in Invites, role \in Roles : Invite(s, i, role)
             \/ \E h \in Houses, i \in Invites : AdminInvite(h, i)
             \/ \E s \in Sessions, i \in Invites : Revoke(s, i)
    <3>1. PICK i, v : /\ i \in Invites /\ invitation' = [invitation EXCEPT ![i] = v]
                      /\ invitation[i] = NoInvite \/ inviteLock[i] = None
      BY <2>4 DEF Invite, AdminInvite, Revoke
    <3>2. i # x
      BY <2>2, <2>3, <3>1
    <3>3. QED BY <2>1, <3>1, <3>2 DEF TypeInv, DataTypes
  <2>5. ASSUME NEW h \in Houses, SystemDelete(h)
        PROVE  invitation'[job[q].token] = invitation[job[q].token]
    <3>1. /\ DropHouses({h}, member, session)
          /\ \A i \in Invites : invitation[i].house \in {h} => inviteLock[i] = None
      BY <2>5 DEF SystemDelete
    <3>2. QED BY <2>1, <2>2, <3>1 DEF DropHouses
  <2>6. CASE \/ \E u \in Users, k \in Tokens : Signup(u, k)
             \/ \E s \in Sessions : Logout(s)
             \/ \E h \in Houses : SystemTenant(h)
             \/ \E u \in Users : ResetRequest(u)
    BY <2>6 DEF Signup, Logout, SystemTenant, ResetRequest
  <2>7. QED BY <2>4, <2>5, <2>6 DEF Alone
<1>3. LocksQuiet
  BY <1>0, <1>1, <1>2 DEF LocksQuiet
<1>4. QED BY <1>3, LocksQuietly

LEMMA LocksContinue ==
  ASSUME HouseholdsOK, TypeInv, LocksHold, NEW r \in Requests, Continues(r)
  PROVE  LocksHold'
<1> USE DEF accounts, houses, locks, history
<1>0. DataTypes
  BY DEF TypeInv
<1>1. CASE VerifyLock(r)
  <2>1. PICK u \in Users : u = job[r].user
    BY <1>1, Holds DEF VerifyLock
  <2>2. PICK j \in Job : Moved(r, "found", j) /\ j.user = u
    BY <1>1, <2>1, StepsMove
  <2>3. /\ pc[r] = "verify" /\ UNCHANGED <<inviteLock, invitation>>
        /\ userLock' = [userLock EXCEPT ![u] = r] \/ userLock' = userLock
    BY <1>1, <2>1 DEF VerifyLock
  <2>4. ASSUME NEW w \in Users, userLock'[w] # None
        PROVE  pc'[userLock'[w]] = "found" /\ job'[userLock'[w]].user = w
    <3>1. CASE userLock'[w] = r /\ w = u
      BY <2>2, <3>1 DEF Moved
    <3>2. CASE userLock'[w] = userLock[w]
      <4>1. userLock[w] \in Requests
        BY <1>0, <2>4, <3>2 DEF DataTypes
      <4>2. pc[userLock[w]] = "found" /\ job[userLock[w]].user = w
        BY <2>4, <3>2 DEF LocksHold
      <4>3. userLock[w] # r
        BY <2>3, <4>2
      <4>4. QED BY <2>2, <3>2, <4>1, <4>2, <4>3 DEF Moved
    <3>3. QED BY <1>0, <2>3, <3>1, <3>2 DEF DataTypes
  <2>5. ASSUME NEW i \in Invites, inviteLock'[i] # None
        PROVE  pc'[inviteLock'[i]] = "join" /\ job'[inviteLock'[i]].token = i
    <3>1. inviteLock'[i] = inviteLock[i] /\ inviteLock[i] \in Requests
      BY <1>0, <2>3, <2>5 DEF DataTypes
    <3>2. pc[inviteLock[i]] = "join" /\ job[inviteLock[i]].token = i
      BY <2>5, <3>1 DEF LocksHold
    <3>3. QED BY <2>2, <2>3, <3>1, <3>2 DEF Moved
  <2>6. ASSUME NEW q \in Requests, pc'[q] = "join"
        PROVE  LET i == job'[q].token IN
                 /\ inviteLock'[i] = q /\ invitation'[i].state = "live"
                 /\ invitation'[i].house = job'[q].house
    <3>1. pc[q] = "join" /\ job'[q] = job[q]
      BY <2>2, <2>6 DEF Moved
    <3>2. QED BY <2>3, <3>1 DEF LocksHold
  <2>7. QED BY <2>4, <2>5, <2>6 DEF LocksHold
<1>2. CASE VerifyCommit(r)
  <2>1. PICK j : Moved(r, "session", j)
    BY <1>2, StepsMove
  <2>2. Release(r) /\ UNCHANGED invitation
    BY <1>2 DEF VerifyCommit
  <2>3. QED BY <2>1, <2>2, LocksReleased
<1>3. CASE AcceptCommit(r)
  <2>1. Moved(r, "session", job[r]) /\ Release(r) /\ pc[r] = "join"
    BY <1>3, StepsMove DEF AcceptCommit
  <2>2. PICK i \in Invites : i = job[r].token
    BY <2>1, Holds
  <2>3. invitation' = [invitation EXCEPT ![i].state = "used"]
    BY <1>3, <2>2 DEF AcceptCommit
  <2>4. ASSUME NEW q \in Requests \ {r}, pc[q] = "join"
        PROVE  invitation'[job[q].token] = invitation[job[q].token]
    <3>1. PICK x \in Invites : x = job[q].token
      BY <2>4, Holds
    <3>2. inviteLock[x] = q /\ inviteLock[i] = r
      BY <2>1, <2>2, <2>4, <3>1 DEF LocksHold
    <3>3. QED BY <1>0, <2>3, <3>1, <3>2 DEF DataTypes
  <2>5. QED BY <2>1, <2>4, LocksReleased
<1>4. CASE Abort(r) \/ Refused(r)
  <2>1. Moved(r, "idle", NoJob) /\ Release(r) /\ UNCHANGED invitation
    BY <1>4, LastSteps DEF Abort, Refused
  <2>2. QED BY <2>1, LocksReleased
<1>5. CASE DeleteCommit(r)
  <2>1. /\ pc[r] = "erase" /\ UNCHANGED <<userLock, inviteLock>>
        /\ \A i \in Invites : invitation[i].house \in job[r].houses => inviteLock[i] = None
    BY <1>5 DEF DeleteCommit
  <2>2. PICK hs, m, se : /\ hs \in SUBSET Houses /\ hs = job[r].houses
                         /\ DropHouses(hs, m, se)
    BY <1>5, Erasing
  <2>3. \A q \in Requests : pc[q] = "join" =>
          invitation'[job[q].token] = invitation[job[q].token]
    BY <2>1, <2>2, LockedStay
  <2>4. LocksQuiet
    BY <1>5, <2>1, <2>3, LastSteps DEF Moved, LocksQuiet
  <2>5. QED BY <2>4, LocksQuietly
<1>6. ASSUME \/ OpenSession(r) \/ LoginSession(r) \/ SetSessionTenant(r) \/ Gate(r) \/ Act(r)
             \/ RemoveMember(r) \/ Unseat(r) \/ ResetCommit(r) \/ EndSessions(r)
             \/ \E s \in Sessions \cup {None} : LoginTenant(r, s)
      PROVE  LocksHold'
  <2>1. \E st, j : st # "join" /\ Moved(r, st, j)
    BY <1>6, LastSteps, StepsMove
  <2>2. pc[r] \notin {"found", "join"} /\ UNCHANGED <<userLock, inviteLock, invitation>>
    BY <1>6 DEF OpenSession, LoginSession, SetSessionTenant, Gate, Act, RemoveMember, Unseat,
                ResetCommit, EndSessions, LoginTenant
  <2>3. QED BY <2>1, <2>2, LocksQuietly DEF Moved, LocksQuiet
<1>7. QED BY <1>1, <1>2, <1>3, <1>4, <1>5, <1>6 DEF Continues

-----------------------------------------------------------------------------
(* Founding.                                                               *)

\* A step that verifies nobody and founds nothing.
FoundingQuiet ==
    /\ UNCHANGED <<account, founded>> /\ departed \subseteq departed'
    /\ \A u \in Users, k \in Tokens : verification'[u][k] = "live" => verification[u][k] = "live"
    /\ \A h \in Houses, u \in Users \ departed' : member[h][u] # None => member'[h][u] # None
    /\ \A q \in Requests : pc'[q] \in {"verify", "found"} => pc'[q] = pc[q] /\ job'[q] = job[q]
    /\ \A q \in Requests, u \in Users :
         userLock[u] = q /\ pc'[q] = "found" => userLock'[u] = q

Founding == FoundingAlone /\ OneHousehold

LEMMA FoundingQuietly ==
  ASSUME HouseholdsOK, TypeInv, Founding, FoundingQuiet
  PROVE  Founding'
<1>1. \A u \in Users, k \in Tokens : verification'[u][k] = "live" => account'[u] # "none"
  BY DEF Founding, FoundingAlone, FoundingQuiet
<1>2. \A u \in Users : founded'[u] > 0 => account'[u] \in {"verified", "gone"}
  BY DEF Founding, FoundingAlone, FoundingQuiet
<1>3. ASSUME NEW u \in Users \ departed', account'[u] = "verified"
      PROVE  \E h \in Houses : member'[h][u] # None
  BY <1>3 DEF Founding, FoundingAlone, FoundingQuiet, HousesOf
<1>4. ASSUME NEW q \in Requests, pc'[q] = "verify"
      PROVE  account'[job'[q].user] # "none"
  BY <1>4 DEF Founding, FoundingAlone, FoundingQuiet
<1>5. ASSUME NEW q \in Requests, pc'[q] = "found"
      PROVE  /\ job'[q].houses # {} => account'[job'[q].user] \in {"verified", "gone"}
             /\ job'[q].houses = {} =>
                  \/ job'[q].user \in departed' \/ account'[job'[q].user] = "gone"
                  \/ userLock'[job'[q].user] = q /\ account'[job'[q].user] = "unverified"
  <2>1. pc[q] = "found" /\ job'[q] = job[q]
    BY <1>5 DEF FoundingQuiet
  <2>2. job[q].user \in Users
    BY <2>1, Holds
  <2>3. userLock[job[q].user] = q => userLock'[job[q].user] = q
    BY <1>5, <2>2 DEF FoundingQuiet
  <2>4. QED BY <2>1, <2>3 DEF Founding, FoundingAlone, FoundingQuiet
<1>6. OneHousehold'
  BY DEF Founding, OneHousehold, FoundingQuiet
<1>7. QED BY <1>1, <1>2, <1>3, <1>4, <1>5, <1>6 DEF Founding, FoundingAlone, HousesOf

LEMMA FoundingArrive ==
  ASSUME HouseholdsOK, TypeInv, Founding, NEW r \in Requests, Arrives(r)
  PROVE  Founding'
<1>0. Unwritten
  BY ArrivalsWrite
<1>1. ASSUME NEW u \in Users, NEW k \in Tokens, VerifyLoad(r, u, k)
      PROVE  Founding'
  <2>1. PICK j \in Job : Moved(r, "verify", j) /\ pc[r] = "idle" /\ j.user = u
    BY <1>1, ArrivalsMove
  <2>2. account[u] # "none"
    BY <1>1 DEF VerifyLoad, Founding, FoundingAlone
  <2>3. \A q \in Requests : pc'[q] = "verify" => account[job'[q].user] # "none"
    BY <2>1, <2>2 DEF Moved, Founding, FoundingAlone
  <2>4. \A q \in Requests : pc'[q] = "found" => pc[q] = "found" /\ job'[q] = job[q]
    BY <2>1 DEF Moved
  <2>5. QED BY <1>0, <2>3, <2>4 DEF Unwritten, Founding, FoundingAlone, OneHousehold, HousesOf
<1>2. CASE ~ \E u \in Users, k \in Tokens : VerifyLoad(r, u, k)
  <2>1. \E st, j : st \notin {"verify", "found"} /\ Moved(r, st, j)
    BY <1>2, ArrivalsMove DEF Arrives
  <2>2. FoundingQuiet
    BY <1>0, <2>1 DEF Unwritten, Moved, FoundingQuiet
  <2>3. QED BY <2>2, FoundingQuietly
<1>3. QED BY <1>1, <1>2

LEMMA FoundingStandsAlone ==
  ASSUME HouseholdsOK, TypeInv, Founding, Alone
  PROVE  Founding'
<1> USE DEF accounts, houses, locks, history
<1>0. UNCHANGED <<pc, job>>
  BY AloneTyped
<1>1. ASSUME NEW u \in Users, NEW k \in Tokens, Signup(u, k)
      PROVE  Founding'
  <2>1. /\ account[u] \in {"none", "unverified"} /\ Free(u)
        /\ account' = [account EXCEPT ![u] = "unverified"]
        /\ UNCHANGED <<member, userLock, founded, departed>>
    BY <1>1 DEF Signup
  <2>2. account'[u] = "unverified" /\ \A v \in Users \ {u} : account'[v] = account[v]
    BY <2>1 DEF TypeInv, DataTypes
  <2>3. \A v \in Users \ {u}, x \in Tokens : verification'[v][x] = verification[v][x]
    BY <1>1 DEF Signup, TypeInv, DataTypes
  <2>4. \A v \in Users, x \in Tokens : verification'[v][x] = "live" => account'[v] # "none"
    BY <2>2, <2>3 DEF Founding, FoundingAlone
  <2>5. \A v \in Users : founded'[v] > 0 => account'[v] \in {"verified", "gone"}
    BY <2>1, <2>2 DEF Founding, FoundingAlone
  <2>6. \A v \in Users \ departed' : account'[v] = "verified" =>
          \E h \in Houses : member'[h][v] # None
    BY <2>1, <2>2 DEF Founding, FoundingAlone, HousesOf
  <2>7. ASSUME NEW q \in Requests, pc'[q] \in {"verify", "found"}
        PROVE  LET v == job'[q].user IN
                 /\ pc'[q] = "verify" => account'[v] # "none"
                 /\ pc'[q] = "found" /\ job'[q].houses # {} => account'[v] \in {"verified", "gone"}
                 /\ pc'[q] = "found" /\ job'[q].houses = {} =>
                      \/ v \in departed' \/ account'[v] = "gone"
                      \/ userLock'[v] = q /\ account'[v] = "unverified"
    <3>1. PICK v \in Users : v = job[q].user
      BY <1>0, <2>7, Holds
    <3>2. CASE v # u
      BY <1>0, <2>1, <2>2, <3>1, <3>2 DEF Founding, FoundingAlone
    <3>3. CASE v = u
      BY <1>0, <2>1, <2>2, <3>1, <3>3 DEF Founding, FoundingAlone
    <3>4. QED BY <3>2, <3>3
  <2>8. OneHousehold'
    BY <2>1 DEF Founding, OneHousehold
  <2>9. QED BY <2>4, <2>5, <2>6, <2>7, <2>8 DEF Founding, FoundingAlone, HousesOf
<1>2. ASSUME \/ \E s \in Sessions, i \in Invites, role \in Roles : Invite(s, i, role)
             \/ \E h \in Houses, i \in Invites : AdminInvite(h, i)
             \/ \E s \in Sessions, i \in Invites : Revoke(s, i)
             \/ \E s \in Sessions : Logout(s)
             \/ \E h \in Houses : SystemTenant(h)
             \/ \E u \in Users : ResetRequest(u)
      PROVE  FoundingQuiet
  BY <1>0, <1>2 DEF Invite, AdminInvite, Revoke, Logout, SystemTenant, ResetRequest, FoundingQuiet
<1>3. ASSUME NEW h \in Houses, SystemDelete(h)
      PROVE  FoundingQuiet
  <2>1. DropHouses({h}, member, session) /\ UNCHANGED <<accounts, locks, founded>>
    BY <1>3 DEF SystemDelete
  <2>2. departed' = departed \cup {u \in Users : member[h][u] # None}
    BY <2>1 DEF DropHouses
  <2>3. \A g \in Houses \ {h} : member'[g] = member[g]
    BY <2>1 DEF DropHouses
  <2>4. QED BY <1>0, <2>1, <2>2, <2>3 DEF FoundingQuiet
<1>4. QED BY <1>1, <1>2, <1>3, FoundingQuietly DEF Alone

\* A user who is verified, with a household: whoever verifies the user next
\* finds it, unless a household has lost the user.
LEMMA FoundingVerified ==
  ASSUME HouseholdsOK, TypeInv, Founding, NEW u \in Users, NEW r \in Requests,
         NEW st, NEW j, st \notin {"verify", "found"}, Moved(r, st, j),
         account' = [account EXCEPT ![u] = "verified"], account[u] # "gone", UNCHANGED departed,
         u \in departed \/ Free(u) \/ userLock[u] = r \/ account[u] # "unverified",
         Release(r),
         \A v \in Users, k \in Tokens : verification'[v][k] = "live" => verification[v][k] = "live",
         \A h \in Houses, v \in Users : member[h][v] # None => member'[h][v] # None,
         u \notin departed => \E h \in Houses : member'[h][u] # None,
         \A v \in Users \ {u} : founded'[v] = founded[v]
  PROVE  FoundingAlone'
<1>1. account'[u] = "verified" /\ \A v \in Users \ {u} : account'[v] = account[v]
  BY DEF TypeInv, DataTypes
<1>2. \A v \in Users, k \in Tokens : verification'[v][k] = "live" => account'[v] # "none"
  BY <1>1 DEF Founding, FoundingAlone
<1>3. \A v \in Users : founded'[v] > 0 => account'[v] \in {"verified", "gone"}
  BY <1>1 DEF Founding, FoundingAlone
<1>4. ASSUME NEW v \in Users \ departed', account'[v] = "verified"
      PROVE  \E h \in Houses : member'[h][v] # None
  BY <1>1, <1>4 DEF Founding, FoundingAlone, HousesOf
<1>5. ASSUME NEW q \in Requests, pc'[q] \in {"verify", "found"}
      PROVE  LET v == job'[q].user IN
               /\ pc'[q] = "verify" => account'[v] # "none"
               /\ pc'[q] = "found" /\ job'[q].houses # {} => account'[v] \in {"verified", "gone"}
               /\ pc'[q] = "found" /\ job'[q].houses = {} =>
                    \/ v \in departed' \/ account'[v] = "gone"
                    \/ userLock'[v] = q /\ account'[v] = "unverified"
  <2>1. q # r /\ pc'[q] = pc[q] /\ job'[q] = job[q]
    BY <1>5 DEF Moved
  <2>2. PICK v \in Users : v = job[q].user
    BY <1>5, <2>1, Holds
  <2>3. CASE v # u
    <3>1. userLock[v] = q => userLock'[v] = q
      BY <2>1 DEF Release
    <3>2. QED BY <1>1, <2>1, <2>2, <2>3, <3>1 DEF Founding, FoundingAlone
  <2>4. CASE v = u
    <3>1. u \in departed \/ ~ (userLock[u] = q /\ account[u] = "unverified")
      BY <2>1, Names DEF Free
    <3>2. pc[q] = "found" /\ job[q].houses = {} =>
            \/ job[q].user \in departed \/ account[job[q].user] = "gone"
            \/ userLock[job[q].user] = q /\ account[job[q].user] = "unverified"
      BY DEF Founding, FoundingAlone
    <3>3. pc[q] = "found" /\ job[q].houses = {} => u \in departed
      BY <2>2, <2>4, <3>1, <3>2
    <3>4. QED BY <1>1, <2>1, <2>2, <2>4, <3>3
  <2>5. QED BY <2>3, <2>4
<1>6. QED BY <1>2, <1>3, <1>4, <1>5 DEF FoundingAlone, HousesOf

LEMMA FoundingContinue ==
  ASSUME HouseholdsOK, TypeInv, KeysHold, Founding, NEW r \in Requests, Continues(r)
  PROVE  Founding'
<1> USE DEF accounts, houses, locks, history
<1>0. DataTypes
  BY DEF TypeInv
<1>1. CASE VerifyLock(r)
  <2>1. PICK u \in Users : u = job[r].user
    BY <1>1, Holds DEF VerifyLock
  <2>2. PICK j \in Job : Moved(r, "found", j) /\ j.user = u /\ j.houses = HousesOf(u)
    BY <1>1, <2>1, StepsMove
  <2>3. /\ pc[r] = "verify" /\ Free(u)
        /\ userLock' = IF account[u] = "unverified" THEN [userLock EXCEPT ![u] = r] ELSE userLock
        /\ UNCHANGED <<account, verification, member, founded, departed>>
    BY <1>1, <2>1 DEF VerifyLock
  <2>4. account[u] # "none"
    BY <2>1, <2>3 DEF Founding, FoundingAlone
  <2>5. ASSUME NEW q \in Requests \ {r}, NEW v \in Users, userLock[v] = q
        PROVE  userLock'[v] = q
    <3>1. v # u
      BY <2>3, <2>5, Names DEF Free
    <3>2. QED BY <1>0, <2>3, <2>5, <3>1 DEF DataTypes
  <2>6. /\ HousesOf(u) # {} => account[u] \in {"verified", "gone"}
        /\ HousesOf(u) = {} =>
             \/ u \in departed \/ account[u] = "gone"
             \/ userLock'[u] = r /\ account[u] = "unverified"
    <3>1. CASE account[u] = "unverified"
      <4>1. userLock'[u] = r
        BY <1>0, <2>3, <3>1 DEF DataTypes
      <4>2. HousesOf(u) = {}
        BY <3>1 DEF KeysHold, HousesOf
      <4>3. QED BY <3>1, <4>1, <4>2
    <3>2. CASE account[u] = "verified"
      BY <3>2 DEF Founding, FoundingAlone
    <3>3. CASE account[u] = "gone"
      BY <3>3
    <3>4. account[u] \in Account
      BY <1>0 DEF DataTypes
    <3>5. QED BY <2>4, <3>1, <3>2, <3>3, <3>4 DEF Account
  <2>7. ASSUME NEW q \in Requests, pc'[q] \in {"verify", "found"}
        PROVE  LET v == job'[q].user IN
                 /\ pc'[q] = "verify" => account'[v] # "none"
                 /\ pc'[q] = "found" /\ job'[q].houses # {} => account'[v] \in {"verified", "gone"}
                 /\ pc'[q] = "found" /\ job'[q].houses = {} =>
                      \/ v \in departed' \/ account'[v] = "gone"
                      \/ userLock'[v] = q /\ account'[v] = "unverified"
    <3>1. CASE q = r
      BY <2>2, <2>3, <2>6, <3>1 DEF Moved
    <3>2. CASE q # r
      <4>1. pc'[q] = pc[q] /\ job'[q] = job[q]
        BY <2>2, <3>2 DEF Moved
      <4>2. job[q].user \in Users
        BY <2>7, <4>1, Holds
      <4>3. userLock[job[q].user] = q => userLock'[job[q].user] = q
        BY <2>5, <3>2, <4>2
      <4>4. QED BY <2>3, <4>1, <4>3 DEF Founding, FoundingAlone
    <3>3. QED BY <3>1, <3>2
  <2>8. QED BY <2>3, <2>7 DEF Founding, FoundingAlone, OneHousehold, HousesOf
<1>2. CASE VerifyCommit(r)
  <2>1. PICK u \in Users : u = job[r].user
    BY <1>2, Holds DEF VerifyCommit
  <2>2. PICK j \in Job : Moved(r, "session", j)
    BY <1>2, StepsMove
  <2>3. /\ pc[r] = "found" /\ Exists(u) /\ Release(r) /\ UNCHANGED departed
        /\ account' = [account EXCEPT ![u] = "verified"]
        /\ verification' = [verification EXCEPT ![u][job[r].token] = "used"]
        /\ \/ job[r].houses # {} /\ UNCHANGED <<member, founded>>
           \/ /\ job[r].houses = {} /\ founded' = [founded EXCEPT ![u] = @ + 1]
              /\ \E h \in Houses : member' = [member EXCEPT ![h][u] = Admin]
    BY <1>2, <2>1 DEF VerifyCommit
  <2>4. \A v \in Users, k \in Tokens : verification'[v][k] = "live" => verification[v][k] = "live"
    BY <1>0, <2>3 DEF DataTypes
  <2>5. Admin # None
    BY Names
  <2>6. \A h \in Houses, v \in Users : member[h][v] # None => member'[h][v] # None
    <3>1. CASE UNCHANGED member
      BY <3>1
    <3>2. ASSUME NEW g \in Houses, member' = [member EXCEPT ![g][u] = Admin]
          PROVE  \A h \in Houses, v \in Users : member[h][v] # None => member'[h][v] # None
      BY <1>0, <2>5, <3>2 DEF DataTypes
    <3>3. QED BY <2>3, <3>1, <3>2
  <2>7. /\ job[r].houses # {} => account[u] \in {"verified", "gone"}
        /\ job[r].houses = {} => u \in departed \/ (userLock[u] = r /\ account[u] = "unverified")
    <3>1. /\ job[r].houses # {} => account[job[r].user] \in {"verified", "gone"}
          /\ job[r].houses = {} =>
               \/ job[r].user \in departed \/ account[job[r].user] = "gone"
               \/ userLock[job[r].user] = r /\ account[job[r].user] = "unverified"
      BY <2>3 DEF Founding, FoundingAlone
    <3>2. QED BY <2>1, <2>3, <3>1 DEF Exists
  <2>8. u \notin departed => \E h \in Houses : member'[h][u] # None
    <3>1. CASE job[r].houses # {}
      BY <2>3, <2>7, <3>1 DEF Exists, Founding, FoundingAlone, HousesOf
    <3>2. CASE job[r].houses = {}
      BY <1>0, <2>3, <2>5, <3>2 DEF DataTypes
    <3>3. QED BY <3>1, <3>2
  <2>9. \A v \in Users \ {u} : founded'[v] = founded[v]
    BY <1>0, <2>3 DEF DataTypes
  <2>10. FoundingAlone'
    <3>1. u \in departed \/ userLock[u] = r \/ account[u] # "unverified"
      BY <2>7
    <3>2. account[u] # "gone"
      BY <2>3 DEF Exists
    <3>3. QED BY <2>2, <2>3, <2>4, <2>6, <2>8, <2>9, <3>1, <3>2, FoundingVerified
  <2>11. ASSUME NEW v \in Users \ departed'
         PROVE  founded'[v] <= 1
    <3>1. CASE v = u /\ job[r].houses = {}
      <4>1. account[u] = "unverified"
        BY <2>3, <2>7, <2>11, <3>1
      <4>2. founded[u] \in Nat /\ ~ founded[u] > 0
        BY <1>0, <4>1 DEF DataTypes, Founding, FoundingAlone
      <4>3. founded'[u] = founded[u] + 1
        BY <1>0, <2>3, <3>1 DEF DataTypes
      <4>4. QED BY <3>1, <4>2, <4>3
    <3>2. CASE ~(v = u /\ job[r].houses = {})
      BY <1>0, <2>3, <2>11, <3>2 DEF DataTypes, Founding, OneHousehold
    <3>3. QED BY <3>1, <3>2
  <2>12. QED BY <2>10, <2>11 DEF Founding, OneHousehold

<1>3. CASE AcceptCommit(r)
  <2>1. PICK u \in Users, h \in Houses, i \in Invites :
          u = job[r].user /\ h = job[r].house /\ i = job[r].token
    BY <1>3, Holds DEF AcceptCommit, Placed
  <2>2. Moved(r, "session", job[r])
    BY <1>3, StepsMove
  <2>3. PICK role \in Roles : role = invitation[i].role
    BY <1>0 DEF DataTypes, Invitation
  <2>4. /\ Free(u) /\ account[u] # "gone" /\ Release(r)
        /\ account' = [account EXCEPT ![u] = "verified"]
        /\ member' = [member EXCEPT ![h][u] = IF @ = None THEN role ELSE @]
        /\ UNCHANGED <<verification, founded, departed>>
    BY <1>3, <2>1, <2>3 DEF AcceptCommit
  <2>5. role # None
    BY Names
  <2>6. /\ \A g \in Houses, v \in Users : member[g][v] # None => member'[g][v] # None
        /\ member'[h][u] # None
    BY <1>0, <2>4, <2>5 DEF DataTypes
  <2>7. FoundingAlone'
    BY <2>2, <2>4, <2>6, FoundingVerified
  <2>8. OneHousehold'
    BY <2>4 DEF Founding, OneHousehold
  <2>9. QED BY <2>7, <2>8 DEF Founding
<1>4. CASE DeleteCommit(r)
  <2>1. PICK u \in Users, hs \in SUBSET Houses : u = job[r].user /\ hs = job[r].houses
    BY <1>4, Erasing
  <2>2. /\ account' = [account EXCEPT ![u] = "gone"]
        /\ verification' = [verification EXCEPT ![u] = [k \in Tokens |-> "none"]]
        /\ UNCHANGED <<userLock, founded>>
        /\ \E se : DropHouses(hs, [h \in Houses |-> [member[h] EXCEPT ![u] = None]], se)
    BY <1>4, <2>1 DEF DeleteCommit
  <2>3. departed' = departed \cup {v \in Users : \E h \in hs : member[h][v] # None}
    BY <2>2 DEF DropHouses
  <2>4. account'[u] = "gone" /\ \A v \in Users \ {u} : account'[v] = account[v]
    BY <1>0, <2>2 DEF DataTypes
  <2>5. ASSUME NEW v \in Users \ departed', v # u, NEW h \in Houses, member[h][v] # None
        PROVE  member'[h][v] # None
    <3>1. h \notin hs
      BY <2>3, <2>5
    <3>2. member'[h] = [member[h] EXCEPT ![u] = None]
      BY <2>2, <3>1 DEF DropHouses
    <3>3. QED BY <1>0, <2>5, <3>2 DEF DataTypes
  <2>6. \A v \in Users, k \in Tokens : verification'[v][k] = "live" => account'[v] # "none"
    <3>1. \A v \in Users, k \in Tokens :
            verification'[v][k] = "live" => verification[v][k] = "live"
      BY <1>0, <2>2 DEF DataTypes
    <3>2. QED BY <2>4, <3>1 DEF Founding, FoundingAlone
  <2>7. \A v \in Users : founded'[v] > 0 => account'[v] \in {"verified", "gone"}
    BY <2>2, <2>4 DEF Founding, FoundingAlone
  <2>8. ASSUME NEW v \in Users \ departed', account'[v] = "verified"
        PROVE  \E h \in Houses : member'[h][v] # None
    <3>1. v # u /\ account[v] = "verified" /\ v \notin departed
      BY <2>3, <2>4, <2>8
    <3>2. \E h \in Houses : member[h][v] # None
      BY <3>1 DEF Founding, FoundingAlone, HousesOf
    <3>3. QED BY <2>5, <3>1, <3>2
  <2>9. ASSUME NEW q \in Requests, pc'[q] \in {"verify", "found"}
        PROVE  LET v == job'[q].user IN
                 /\ pc'[q] = "verify" => account'[v] # "none"
                 /\ pc'[q] = "found" /\ job'[q].houses # {} => account'[v] \in {"verified", "gone"}
                 /\ pc'[q] = "found" /\ job'[q].houses = {} =>
                      \/ v \in departed' \/ account'[v] = "gone"
                      \/ userLock'[v] = q /\ account'[v] = "unverified"
    <3>1. pc'[q] = pc[q] /\ job'[q] = job[q]
      BY <1>4, <2>9, LastSteps DEF Moved
    <3>2. PICK v \in Users : v = job[q].user
      BY <2>9, <3>1, Holds
    <3>3. CASE v = u
      BY <2>4, <3>1, <3>2, <3>3
    <3>4. CASE v # u
      BY <2>2, <2>3, <2>4, <3>1, <3>2, <3>4 DEF Founding, FoundingAlone
    <3>5. QED BY <3>3, <3>4
  <2>10. OneHousehold'
    BY <2>2, <2>3 DEF Founding, OneHousehold
  <2>11. QED BY <2>6, <2>7, <2>8, <2>9, <2>10 DEF Founding, FoundingAlone, HousesOf
<1>5. CASE RemoveMember(r)
  <2>1. PICK u \in Users, h \in Houses : u = job[r].user /\ h = job[r].house
    BY <1>5, Holds DEF RemoveMember, Placed
  <2>2. /\ member' = [member EXCEPT ![h][u] = None] /\ departed' = departed \cup {u}
        /\ UNCHANGED <<account, verification, founded, userLock>>
    BY <1>5, <2>1 DEF RemoveMember
  <2>3. Moved(r, "unseat", job[r])
    BY <1>5, StepsMove
  <2>4. \A g \in Houses, v \in Users \ departed' : member[g][v] # None => member'[g][v] # None
    BY <1>0, <2>2 DEF DataTypes
  <2>5. QED BY <2>2, <2>3, <2>4, FoundingQuietly DEF Moved, FoundingQuiet
<1>6. ASSUME \/ OpenSession(r) \/ LoginSession(r) \/ SetSessionTenant(r) \/ Gate(r) \/ Act(r)
             \/ Unseat(r) \/ ResetCommit(r) \/ EndSessions(r)
             \/ \E s \in Sessions \cup {None} : LoginTenant(r, s)
      PROVE  Founding'
  <2>1. \E st, j : st \notin {"verify", "found"} /\ Moved(r, st, j)
    BY <1>6, LastSteps, StepsMove
  <2>2. UNCHANGED <<account, verification, member, userLock, founded, departed>>
    BY <1>6 DEF OpenSession, LoginSession, SetSessionTenant, Gate, Act, Unseat, ResetCommit,
                EndSessions, LoginTenant
  <2>3. QED BY <2>1, <2>2, FoundingQuietly DEF Moved, FoundingQuiet
<1>7. CASE Abort(r) \/ Refused(r)
  <2>1. Moved(r, "idle", NoJob) /\ Release(r)
    BY <1>7, LastSteps DEF Abort, Refused
  <2>2. UNCHANGED <<account, verification, member, founded, departed>>
    BY <1>7 DEF Abort, Refused
  <2>3. \A q \in Requests, u \in Users : userLock[u] = q /\ pc'[q] = "found" => userLock'[u] = q
    BY <2>1 DEF Release, Moved
  <2>4. QED BY <2>1, <2>2, <2>3, FoundingQuietly DEF Moved, FoundingQuiet
<1>8. QED BY <1>1, <1>2, <1>3, <1>4, <1>5, <1>6, <1>7 DEF Continues

-----------------------------------------------------------------------------
(* Leaving.                                                                *)

\* A household that keeps its administrators, and in which nobody new is
\* about to take members out.
LEMMA LeavesKept ==
  ASSUME HouseholdsOK, TypeInv, LeavingAlone, NEW h \in Houses \ contested,
         house'[h] = "live" => house[h] \in {"free", "live"},
         \A a \in Users : member[h][a] = Admin => member'[h][a] = Admin,
         \A q \in Requests :
           pc'[q] = "remove" /\ job'[q].house = h => pc[q] = "remove" /\ job'[q] = job[q],
         \A q \in Requests :
           pc'[q] = "erase" /\ member'[h][job'[q].user] # None =>
             /\ pc[q] = "erase" /\ job'[q] = job[q]
             /\ member'[h][job[q].user] = member[h][job[q].user]
  PROVE  LeavesAlone(h)'
<1>1. LeavesAlone(h)
  BY DEF LeavingAlone
<1>2. \A q \in Leaving(h)' : q \in Leaving(h)
  BY DEF Leaving
<1>3. \A r, q \in Leaving(h)' : r = q
  BY <1>1, <1>2 DEF LeavesAlone
<1>4. ASSUME NEW r \in Requests, pc'[r] = "remove", job'[r].house = h, house'[h] = "live"
      PROVE  \E a \in Users \ {job'[r].user} : member'[h][a] = Admin
  <2>1. pc[r] = "remove" /\ job'[r] = job[r]
    BY <1>4
  <2>2. house[h] = "live"
    BY <1>4, <2>1 DEF LeavingAlone
  <2>3. \E a \in Users \ {job[r].user} : member[h][a] = Admin
    BY <1>1, <1>4, <2>1, <2>2 DEF LeavesAlone
  <2>4. QED BY <2>1, <2>3
<1>5. ASSUME NEW r \in Requests, pc'[r] = "erase", h \notin job'[r].houses,
             member'[h][job'[r].user] = Admin
      PROVE  \E a \in Users \ {job'[r].user} : member'[h][a] = Admin
  <2>1. Admin # None
    BY Names
  <2>2. /\ pc[r] = "erase" /\ job'[r] = job[r]
        /\ member[h][job[r].user] = Admin
    BY <1>5, <2>1
  <2>3. \E a \in Users \ {job[r].user} : member[h][a] = Admin
    BY <1>1, <1>5, <2>2 DEF LeavesAlone
  <2>4. QED BY <2>2, <2>3
<1>6. QED BY <1>3, <1>4, <1>5 DEF LeavesAlone

\* A household nobody is about to take a member out of.
LEMMA LeavesNone ==
  ASSUME HouseholdsOK, NEW h \in Houses, Leaving(h)' = {}
  PROVE  LeavesAlone(h)'
<1>1. Admin # None
  BY Names
<1>2. \A q \in Requests : ~ (pc'[q] = "remove" /\ job'[q].house = h)
  BY DEF Leaving
<1>3. \A q \in Requests : ~ (pc'[q] = "erase" /\ member'[h][job'[q].user] # None)
  BY DEF Leaving
<1>4. QED BY <1>1, <1>2, <1>3 DEF LeavesAlone

\* A household that is gone.
LEMMA LeavesGone ==
  ASSUME HouseholdsOK, LeavingAlone, NEW h \in Houses \ contested,
         house'[h] # "live", \A u \in Users : member'[h][u] = None,
         \A q \in Requests : pc'[q] \in {"remove", "erase"} =>
           pc'[q] = pc[q] /\ job'[q] = job[q] /\ job[q].user \in Users
  PROVE  LeavesAlone(h)'
<1>1. Admin # None
  BY Names
<1>2. \A q \in Leaving(h)' : q \in Leaving(h)
  BY DEF Leaving
<1>3. \A r, q \in Leaving(h)' : r = q
  BY <1>2 DEF LeavingAlone, LeavesAlone
<1>4. \A r \in Requests : pc'[r] = "erase" => member'[h][job'[r].user] # Admin
  BY <1>1
<1>5. QED BY <1>3, <1>4 DEF LeavesAlone

\* A step that leaves the members alone.
LeavingQuiet ==
    /\ UNCHANGED member /\ contested \subseteq contested'
    /\ \A h \in Houses : house'[h] = "free" => house[h] = "free"
    /\ \A h \in Houses : house'[h] = "live" => house[h] \in {"free", "live"}
    /\ \A q \in Requests : pc'[q] \in {"remove", "erase"} => pc'[q] = pc[q] /\ job'[q] = job[q]

\* What a step may do to the members.
Moderate == JoinsByInvitation /\ LastAdminOut

LEMMA LeavingQuietly ==
  ASSUME HouseholdsOK, TypeInv, LeavingAlone, LeavingQuiet
  PROVE  LeavingAlone' /\ Moderate
<1>1. ASSUME NEW r \in Requests, pc'[r] = "remove"
      PROVE  house'[job'[r].house] # "free"
  <2>1. pc[r] = "remove" /\ job'[r] = job[r]
    BY <1>1 DEF LeavingQuiet
  <2>2. job[r].house \in Houses
    BY <2>1, Holds DEF Placed
  <2>3. QED BY <2>1, <2>2 DEF LeavingQuiet, LeavingAlone
<1>2. ASSUME NEW h \in Houses \ contested'
      PROVE  LeavesAlone(h)'
  <2>1. h \in Houses \ contested
    BY <1>2 DEF LeavingQuiet
  <2>2. QED BY <2>1, LeavesKept DEF LeavingQuiet
<1>3. Moderate
  BY DEF Moderate, JoinsByInvitation, LastAdminOut, LeavingQuiet, Admins
<1>4. QED BY <1>1, <1>2, <1>3 DEF LeavingAlone

LEMMA LeavingArrive ==
  ASSUME HouseholdsOK, TypeInv, KeysHold, LeavingAlone, NEW r \in Requests, Arrives(r)
  PROVE  LeavingAlone' /\ Moderate
<1>0. Unwritten
  BY ArrivalsWrite
<1>1. Moderate
  BY <1>0 DEF Unwritten, Moderate, JoinsByInvitation, LastAdminOut, Admins
<1>2. ASSUME NEW s \in Sessions, NEW h \in Houses, NEW u \in Users, RemoveLook(r, s, h, u)
      PROVE  LeavingAlone'
  <2>1. PICK j \in Job : /\ Moved(r, "remove", j) /\ pc[r] = "idle"
                         /\ j.user = u /\ j.house = h
    BY <1>2, ArrivalsMove
  <2>2. PICK a \in Users : a = session[s].user
    BY <1>2, SessionHolds DEF RemoveLook
  <2>3. /\ member[h][a] = Admin /\ u # a /\ member[h][u] # None
        /\ contested' = contested \cup {g \in {h} : Leaving(g) # {}}
    BY <1>2, <2>2 DEF RemoveLook, Contest
  <2>4. house[h] = "live"
    BY <2>3 DEF KeysHold
  <2>5. \A q \in Requests : pc'[q] = "remove" => house'[job'[q].house] # "free"
    BY <1>0, <2>1, <2>4 DEF Moved, Unwritten, LeavingAlone
  <2>6. ASSUME NEW g \in Houses \ contested', g # h
        PROVE  LeavesAlone(g)'
    <3>1. g \in Houses \ contested
      BY <2>3, <2>6
    <3>2. \A q \in Requests :
            pc'[q] = "remove" /\ job'[q].house = g => pc[q] = "remove" /\ job'[q] = job[q]
      BY <2>1, <2>6 DEF Moved
    <3>3. \A q \in Requests :
            pc'[q] = "erase" /\ member'[g][job'[q].user] # None =>
              /\ pc[q] = "erase" /\ job'[q] = job[q]
              /\ member'[g][job[q].user] = member[g][job[q].user]
      BY <1>0, <2>1 DEF Moved, Unwritten
    <3>4. UNCHANGED <<house, member>>
      BY <1>0 DEF Unwritten
    <3>5. house'[g] = "live" => house[g] \in {"free", "live"}
      BY <3>4
    <3>6. QED BY <3>1, <3>2, <3>3, <3>4, <3>5, LeavesKept
  <2>7. ASSUME h \notin contested'
        PROVE  LeavesAlone(h)'
    <3>1. Leaving(h) = {}
      BY <2>3, <2>7
    <3>2. \A q \in Requests \ {r} :
            /\ ~ (pc'[q] = "remove" /\ job'[q].house = h)
            /\ ~ (pc'[q] = "erase" /\ member'[h][job'[q].user] # None)
      BY <1>0, <2>1, <3>1 DEF Moved, Unwritten, Leaving
    <3>3. pc'[r] = "remove" /\ job'[r].user = u
      BY <2>1 DEF Moved
    <3>4. \A q, p \in Leaving(h)' : q = p
      BY <3>2 DEF Leaving
    <3>5. member'[h][a] = Admin /\ a \in Users \ {u}
      BY <1>0, <2>3 DEF Unwritten
    <3>6. Admin # None
      BY Names
    <3>7. QED BY <3>2, <3>3, <3>4, <3>5, <3>6 DEF LeavesAlone
  <2>8. QED BY <2>5, <2>6, <2>7 DEF LeavingAlone
<1>3. ASSUME NEW s \in Sessions, DeleteLook(r, s)
      PROVE  LeavingAlone'
  <2>1. PICK j \in Job : /\ Moved(r, "erase", j) /\ pc[r] = "idle" /\ j.user = session[s].user
                         /\ session[s].user \in Users
                         /\ j.houses = {h \in Houses : Admins(h) = {j.user}}
    BY <1>3, ArrivalsMove
  <2>2. PICK u \in Users : u = j.user
    BY <2>1
  <2>3. contested' = contested \cup {h \in HousesOf(u) : Leaving(h) # {}}
    BY <1>3, <2>1, <2>2 DEF DeleteLook, Contest
  <2>4. \A q \in Requests : pc'[q] = "remove" => house'[job'[q].house] # "free"
    BY <1>0, <2>1 DEF Moved, Unwritten, LeavingAlone
  <2>5. ASSUME NEW h \in Houses \ contested'
        PROVE  LeavesAlone(h)'
    <3>1. h \in Houses \ contested
      BY <2>3, <2>5
    <3>2. UNCHANGED <<house, member>>
      BY <1>0 DEF Unwritten
    <3>3. \A q \in Requests :
            pc'[q] = "remove" /\ job'[q].house = h => pc[q] = "remove" /\ job'[q] = job[q]
      BY <2>1 DEF Moved
    <3>4. CASE member[h][u] = None
      <4>1. \A q \in Requests :
              pc'[q] = "erase" /\ member'[h][job'[q].user] # None =>
                /\ pc[q] = "erase" /\ job'[q] = job[q]
                /\ member'[h][job[q].user] = member[h][job[q].user]
        BY <2>1, <2>2, <3>2, <3>4 DEF Moved
      <4>2. house'[h] = "live" => house[h] \in {"free", "live"}
        BY <3>2
      <4>3. QED BY <3>1, <3>2, <3>3, <4>1, <4>2, LeavesKept
    <3>5. CASE member[h][u] # None
      <4>1. Leaving(h) = {}
        BY <2>3, <2>5, <3>5 DEF HousesOf
      <4>2. \A q \in Requests \ {r} :
              /\ ~ (pc'[q] = "remove" /\ job'[q].house = h)
              /\ ~ (pc'[q] = "erase" /\ member'[h][job'[q].user] # None)
        BY <2>1, <3>2, <4>1 DEF Moved, Leaving
      <4>3. pc'[r] = "erase" /\ job'[r] = j
        BY <2>1 DEF Moved
      <4>4. \A q, p \in Leaving(h)' : q = p
        BY <4>2 DEF Leaving
      <4>5. ASSUME h \notin j.houses, member'[h][u] = Admin
            PROVE  \E a \in Users \ {u} : member'[h][a] = Admin
        <5>1. Admins(h) # {u} /\ u \in Admins(h)
          BY <2>1, <2>2, <3>2, <4>5 DEF Admins
        <5>2. PICK a \in Admins(h) : a # u
          BY <5>1
        <5>3. QED BY <3>2, <5>2 DEF Admins
      <4>6. Admin # None
        BY Names
      <4>7. QED BY <2>2, <4>2, <4>3, <4>4, <4>5, <4>6 DEF LeavesAlone
    <3>6. QED BY <3>4, <3>5
  <2>6. QED BY <2>4, <2>5 DEF LeavingAlone
<1>4. CASE /\ ~ \E s \in Sessions, h \in Houses, u \in Users : RemoveLook(r, s, h, u)
           /\ ~ \E s \in Sessions : DeleteLook(r, s)
  <2>1. \E st, j : st \notin {"remove", "erase"} /\ Moved(r, st, j)
    BY <1>4, ArrivalsMove DEF Arrives
  <2>2. UNCHANGED contested
    BY <1>4, ArrivalsWrite
  <2>3. LeavingQuiet
    BY <1>0, <2>1, <2>2 DEF Unwritten, Moved, LeavingQuiet
  <2>4. QED BY <2>3, LeavingQuietly
<1>5. QED BY <1>1, <1>2, <1>3, <1>4

\* The households a deletion takes with it lose everybody; the others what m says.
LEMMA DroppedMembers ==
  ASSUME NEW hs, NEW m, NEW se, DropHouses(hs, m, se)
  PROVE  /\ \A h \in Houses : house'[h] = "live" => h \notin hs /\ house[h] = "live"
         /\ \A h \in Houses : house'[h] = "free" => house[h] = "free"
         /\ \A h \in Houses, u \in Users : h \in hs => member'[h][u] = None
         /\ \A h \in Houses : h \in hs => house'[h] # "live"
         /\ \A h \in Houses : h \notin hs => member'[h] = m[h] /\ house'[h] = house[h]
  BY DEF DropHouses

LEMMA LeavingStandsAlone ==
  ASSUME HouseholdsOK, TypeInv, LeavingAlone, Alone
  PROVE  LeavingAlone' /\ Moderate
<1> USE DEF accounts, houses, locks, history
<1>0. UNCHANGED <<pc, job>>
  BY AloneTyped
<1>1. ASSUME \/ \E u \in Users, k \in Tokens : Signup(u, k)
             \/ \E s \in Sessions, i \in Invites, role \in Roles : Invite(s, i, role)
             \/ \E h \in Houses, i \in Invites : AdminInvite(h, i)
             \/ \E s \in Sessions, i \in Invites : Revoke(s, i)
             \/ \E s \in Sessions : Logout(s)
             \/ \E u \in Users : ResetRequest(u)
      PROVE  LeavingQuiet
  BY <1>0, <1>1 DEF Signup, Invite, AdminInvite, Revoke, Logout, ResetRequest, LeavingQuiet
<1>2. ASSUME NEW h \in Houses, SystemTenant(h)
      PROVE  LeavingQuiet
  BY <1>0, <1>2 DEF SystemTenant, LeavingQuiet, TypeInv, DataTypes
<1>3. ASSUME NEW h \in Houses, SystemDelete(h)
      PROVE  LeavingAlone' /\ Moderate
  <2>1. DropHouses({h}, member, session) /\ UNCHANGED contested
    BY <1>3 DEF SystemDelete
  <2>2. /\ \A g \in Houses : house'[g] = "live" => g # h /\ house[g] = "live"
        /\ \A g \in Houses : house'[g] = "free" => house[g] = "free"
        /\ \A u \in Users : member'[h][u] = None
        /\ house'[h] # "live"
        /\ \A g \in Houses \ {h} : member'[g] = member[g] /\ house'[g] = house[g]
    BY <2>1, DroppedMembers
  <2>3. ASSUME NEW q \in Requests, pc'[q] = "remove"
        PROVE  house'[job'[q].house] # "free"
    <3>1. job[q].house \in Houses
      BY <1>0, <2>3, Holds DEF Placed
    <3>2. QED BY <1>0, <2>2, <2>3, <3>1 DEF LeavingAlone
  <2>4. ASSUME NEW g \in Houses \ contested'
        PROVE  LeavesAlone(g)'
    <3>1. g \in Houses \ contested
      BY <2>1
    <3>2. CASE g = h
      <4>1. \A q \in Requests : pc'[q] \in {"remove", "erase"} =>
              pc'[q] = pc[q] /\ job'[q] = job[q] /\ job[q].user \in Users
        BY <1>0, Holds
      <4>2. QED BY <2>2, <3>1, <3>2, <4>1, LeavesGone
    <3>3. CASE g # h
      BY <1>0, <2>2, <3>1, <3>3, LeavesKept
    <3>4. QED BY <3>2, <3>3
  <2>5. JoinsByInvitation
    BY <2>2 DEF JoinsByInvitation
  <2>6. LastAdminOut
    BY <2>2 DEF LastAdminOut, Admins
  <2>7. QED BY <2>3, <2>4, <2>5, <2>6 DEF LeavingAlone, Moderate
<1>4. QED BY <1>1, <1>2, <1>3, LeavingQuietly DEF Alone

LEMMA LeavingContinue ==
  ASSUME HouseholdsOK, TypeInv, KeysHold, LocksHold, LeavingAlone, NEW r \in Requests,
         Continues(r)
  PROVE  LeavingAlone' /\ Moderate
<1> USE DEF accounts, houses, locks, history
<1>0. DataTypes /\ Admin # None
  BY Names DEF TypeInv
<1>1. CASE VerifyCommit(r)
  <2>1. PICK u \in Users : u = job[r].user
    BY <1>1, Holds DEF VerifyCommit
  <2>2. PICK j \in Job : Moved(r, "session", j)
    BY <1>1, StepsMove
  <2>3. contested \subseteq contested'
    BY <1>1 DEF VerifyCommit, ContestJoin
  <2>4. CASE UNCHANGED <<house, member>>
    BY <2>2, <2>3, <2>4, LeavingQuietly DEF Moved, LeavingQuiet
  <2>5. ASSUME NEW h \in Houses, house[h] = "free", house' = [house EXCEPT ![h] = "live"],
               member' = [member EXCEPT ![h][u] = Admin], job' = [job EXCEPT ![r].house = h]
        PROVE  LeavingAlone' /\ Moderate
    <3>1. job'[r].house = h
      <4>1. PICK k \in Job : k = job[r]
        BY Holds
      <4>2. job' = [job EXCEPT ![r] = [k EXCEPT !.house = h]]
        BY <2>5, <4>1
      <4>3. QED BY <4>2 DEF TypeInv, JobTypes, Job
    <3>2. (\E q \in Requests : pc[q] = "erase" /\ job[q].user = u) => h \in contested'
      BY <1>1, <2>1, <3>1 DEF VerifyCommit, ContestJoin
    <3>3. /\ house'[h] = "live" /\ \A g \in Houses \ {h} : house'[g] = house[g]
          /\ \A g \in Houses \ {h} : member'[g] = member[g]
          /\ \A v \in Users \ {u} : member'[h][v] = member[h][v]
      BY <1>0, <2>5 DEF DataTypes
    <3>4. \A v \in Users : member[h][v] = None
      BY <2>5 DEF KeysHold
    <3>5. ASSUME NEW q \in Requests, pc'[q] = "remove"
          PROVE  house'[job'[q].house] # "free" /\ job'[q].house # h
      <4>1. pc[q] = "remove" /\ job'[q] = job[q]
        BY <2>2, <3>5 DEF Moved
      <4>2. job[q].house \in Houses
        BY <4>1, Holds DEF Placed
      <4>3. house[job[q].house] # "free"
        BY <4>1 DEF LeavingAlone
      <4>4. QED BY <2>5, <3>3, <4>1, <4>2, <4>3
    <3>6. ASSUME NEW g \in Houses \ contested'
          PROVE  LeavesAlone(g)'
      <4>1. CASE g = h
        <5>1. ASSUME NEW q \in Requests, pc'[q] = "erase", member'[h][job'[q].user] # None
              PROVE  FALSE
          <6>1. pc[q] = "erase" /\ job'[q] = job[q]
            BY <2>2, <5>1 DEF Moved
          <6>2. job[q].user \in Users /\ job[q].user # u
            BY <3>2, <3>6, <4>1, <6>1, Holds
          <6>3. QED BY <3>3, <3>4, <5>1, <6>1, <6>2
        <5>2. Leaving(h)' = {}
          BY <3>5, <5>1 DEF Leaving
        <5>3. QED BY <4>1, <5>2, LeavesNone
      <4>2. CASE g # h
        <5>1. g \in Houses \ contested
          BY <2>3, <3>6
        <5>2. house'[g] = "live" => house[g] \in {"free", "live"}
          BY <3>3, <4>2
        <5>3. member'[g] = member[g]
          BY <3>3, <4>2
        <5>4. \A q \in Requests : pc'[q] \in {"remove", "erase"} =>
                pc[q] = pc'[q] /\ job'[q] = job[q]
          BY <2>2 DEF Moved
        <5>5. QED BY <5>1, <5>2, <5>3, <5>4, LeavesKept
      <4>3. QED BY <4>1, <4>2
    <3>7. JoinsByInvitation
      <4>1. ASSUME NEW g \in Houses, NEW v \in Users, member[g][v] = None, member'[g][v] # None
            PROVE  house[g] = "free"
        BY <2>5, <3>3, <4>1
      <4>2. QED BY <4>1 DEF JoinsByInvitation
    <3>8. LastAdminOut
      BY <3>3, <3>4, <1>0 DEF LastAdminOut, Admins
    <3>9. QED BY <3>5, <3>6, <3>7, <3>8 DEF LeavingAlone, Moderate
  <2>6. QED BY <1>1, <2>1, <2>4, <2>5 DEF VerifyCommit
<1>2. CASE AcceptCommit(r)
  <2>1. PICK u \in Users, h \in Houses, i \in Invites :
          u = job[r].user /\ h = job[r].house /\ i = job[r].token
    BY <1>2, Holds DEF AcceptCommit, Placed
  <2>2. Moved(r, "session", job[r])
    BY <1>2, StepsMove
  <2>3. PICK role \in Roles : role = invitation[i].role
    BY <1>0 DEF DataTypes, Invitation
  <2>4. /\ pc[r] = "join" /\ house' = house
        /\ member' = [member EXCEPT ![h][u] = IF @ = None THEN role ELSE @]
        /\ invitation' = [invitation EXCEPT ![i].state = "used"]
        /\ contested \subseteq contested'
        /\ (\E q \in Requests : pc[q] = "erase" /\ job[q].user = u) => h \in contested'
    BY <1>2, <2>1, <2>3 DEF AcceptCommit, ContestJoin
  <2>5. role # None
    BY Names
  <2>6. /\ \A g \in Houses \ {h} : member'[g] = member[g]
        /\ \A v \in Users \ {u} : member'[h][v] = member[h][v]
        /\ member[h][u] # None => member'[h][u] = member[h][u]
    BY <1>0, <2>4 DEF DataTypes
  <2>7. \A q \in Requests : pc'[q] \in {"remove", "erase"} => pc[q] = pc'[q] /\ job'[q] = job[q]
    BY <2>2 DEF Moved
  <2>8. ASSUME NEW q \in Requests, pc'[q] = "remove"
        PROVE  house'[job'[q].house] # "free"
    BY <2>4, <2>7, <2>8 DEF LeavingAlone
  <2>9. ASSUME NEW g \in Houses \ contested'
        PROVE  LeavesAlone(g)'
    <3>1. g \in Houses \ contested
      BY <2>4, <2>9
    <3>2. house'[g] = "live" => house[g] \in {"free", "live"}
      BY <2>4
    <3>3. \A a \in Users : member[g][a] = Admin => member'[g][a] = Admin
      BY <1>0, <2>6
    <3>4. ASSUME NEW q \in Requests, pc'[q] = "erase"
          PROVE  /\ pc[q] = "erase" /\ job'[q] = job[q]
                 /\ member'[g][job[q].user] = member[g][job[q].user]
      <4>1. pc[q] = "erase" /\ job'[q] = job[q]
        BY <2>7, <3>4
      <4>2. job[q].user \in Users
        BY <4>1, Holds
      <4>3. g = h => job[q].user # u
        BY <2>4, <2>9, <4>1
      <4>4. QED BY <2>6, <4>1, <4>2, <4>3
    <3>5. QED BY <2>7, <3>1, <3>2, <3>3, <3>4, LeavesKept
  <2>10. JoinsByInvitation
    <3>1. /\ invitation[i].house = h /\ invitation[i].state = "live"
          /\ invitation'[i].state = "used"
      <4>1. PICK v \in Invitation : v = invitation[i]
        BY <1>0 DEF DataTypes
      <4>2. invitation' = [invitation EXCEPT ![i] = [v EXCEPT !.state = "used"]]
        BY <2>4, <4>1
      <4>3. [v EXCEPT !.state = "used"].state = "used"
        BY DEF Invitation
      <4>4. invitation'[i].state = "used"
        BY <1>0, <4>2, <4>3 DEF DataTypes
      <4>5. QED BY <2>1, <2>4, <4>4 DEF LocksHold
    <3>2. \A g \in Houses, v \in Users :
            member[g][v] = None /\ member'[g][v] # None => g = h
      BY <2>6
    <3>3. QED BY <3>1, <3>2 DEF JoinsByInvitation
  <2>11. LastAdminOut
    <3>1. \A g \in Houses, a \in Users : member[g][a] = Admin => member'[g][a] = Admin
      BY <1>0, <2>6
    <3>2. QED BY <3>1 DEF LastAdminOut, Admins
  <2>12. QED BY <2>8, <2>9, <2>10, <2>11 DEF LeavingAlone, Moderate
<1>3. CASE RemoveMember(r)
  <2>1. PICK u \in Users, h \in Houses : u = job[r].user /\ h = job[r].house
    BY <1>3, Holds DEF RemoveMember, Placed
  <2>2. /\ pc[r] = "remove" /\ UNCHANGED <<house, contested>>
        /\ member' = [member EXCEPT ![h][u] = None]
    BY <1>3, <2>1 DEF RemoveMember
  <2>3. /\ \A g \in Houses \ {h} : member'[g] = member[g]
        /\ \A v \in Users \ {u} : member'[h][v] = member[h][v]
        /\ member'[h][u] = None
    BY <1>0, <2>2 DEF DataTypes
  <2>4. /\ \A q \in Requests : pc'[q] \in {"remove", "erase"} =>
             q # r /\ pc[q] = pc'[q] /\ job'[q] = job[q]
    BY <1>3, StepsMove DEF Moved
  <2>5. \A q \in Requests : pc'[q] = "remove" => house'[job'[q].house] # "free"
    BY <2>2, <2>4 DEF LeavingAlone
  <2>6. ASSUME NEW g \in Houses \ contested'
        PROVE  LeavesAlone(g)'
    <3>1. CASE g = h
      <4>1. r \in Leaving(h)
        BY <2>1, <2>2 DEF Leaving
      <4>2. ASSUME NEW q \in Leaving(h)'
            PROVE  q \in Leaving(h) /\ q # r
        <5>1. /\ pc'[q] \in {"remove", "erase"} /\ q \in Requests
              /\ pc'[q] = "remove" => job'[q].house = h
              /\ pc'[q] = "erase" => member'[h][job'[q].user] # None
          BY <4>2 DEF Leaving
        <5>2. q # r /\ pc[q] = pc'[q] /\ job'[q] = job[q]
          BY <2>4, <5>1
        <5>3. job[q].user \in Users
          BY <5>1, <5>2, Holds
        <5>4. pc[q] = "erase" => member[h][job[q].user] # None
          BY <2>3, <5>1, <5>2, <5>3
        <5>5. QED BY <5>1, <5>2, <5>4 DEF Leaving
      <4>3. \A p, q \in Leaving(h) : p = q
        BY <2>2, <2>6, <3>1 DEF LeavingAlone, LeavesAlone
      <4>4. Leaving(h)' = {}
        BY <4>1, <4>2, <4>3
      <4>5. QED BY <3>1, <4>4, LeavesNone
    <3>2. CASE g # h
      BY <2>2, <2>3, <2>4, <2>6, <3>2, LeavesKept
    <3>3. QED BY <3>1, <3>2
  <2>7. JoinsByInvitation
    BY <2>3 DEF JoinsByInvitation
  <2>8. LastAdminOut
    <3>1. h \notin contested /\ house[h] = "live" => \E a \in Users \ {u} : member[h][a] = Admin
      BY <2>1, <2>2 DEF LeavingAlone, LeavesAlone
    <3>2. ASSUME NEW g \in Houses \ contested', Admins(g) # {}, house'[g] = "live"
          PROVE  \E a \in Users : member'[g][a] = Admin
      <4>1. CASE g = h
        BY <2>2, <2>3, <3>1, <3>2, <4>1
      <4>2. CASE g # h
        BY <2>3, <3>2, <4>2 DEF Admins
      <4>3. QED BY <4>1, <4>2
    <3>3. QED BY <3>2 DEF LastAdminOut
  <2>9. QED BY <2>5, <2>6, <2>7, <2>8 DEF LeavingAlone, Moderate
<1>4. CASE DeleteCommit(r)
  <2>1. PICK u \in Users, hs \in SUBSET Houses : u = job[r].user /\ hs = job[r].houses
    BY <1>4, Erasing
  <2>2. PICK m, se :
          /\ m \in [Houses -> [Users -> Roles \cup {None}]]
          /\ m = [h \in Houses |-> [member[h] EXCEPT ![u] = None]]
          /\ DropHouses(hs, m, se)
    BY <1>4, <2>1, Erasing
  <2>3. /\ pc[r] = "erase" /\ UNCHANGED contested
        /\ \A q \in Requests : pc'[q] \in {"remove", "erase"} =>
             q # r /\ pc[q] = pc'[q] /\ job'[q] = job[q]
    BY <1>4, LastSteps DEF Moved, DeleteCommit
  <2>4. \A h \in Houses :
          /\ m[h][u] = None
          /\ \A v \in Users \ {u} : m[h][v] = member[h][v]
    BY <1>0, <2>2 DEF DataTypes
  <2>5. /\ \A h \in Houses : house'[h] = "live" => h \notin hs /\ house[h] = "live"
        /\ \A h \in Houses : house'[h] = "free" => house[h] = "free"
        /\ \A h \in Houses, v \in Users : h \in hs => member'[h][v] = None
        /\ \A h \in Houses : h \in hs => house'[h] # "live"
        /\ \A h \in Houses : h \notin hs => member'[h] = m[h] /\ house'[h] = house[h]
    BY <2>2, DroppedMembers
  <2>6. ASSUME NEW q \in Requests, pc'[q] = "remove"
        PROVE  house'[job'[q].house] # "free"
    <3>1. pc[q] = "remove" /\ job'[q] = job[q]
      BY <2>3, <2>6
    <3>2. job[q].house \in Houses
      BY <3>1, Holds DEF Placed
    <3>3. QED BY <2>5, <3>1, <3>2 DEF LeavingAlone
  <2>7. ASSUME NEW h \in Houses \ contested'
        PROVE  LeavesAlone(h)'
    <3>1. h \in Houses \ contested
      BY <2>3
    <3>2. CASE h \in hs
      <4>1. \A q \in Requests : pc'[q] \in {"remove", "erase"} =>
              pc'[q] = pc[q] /\ job'[q] = job[q] /\ job[q].user \in Users
        BY <2>3, Holds
      <4>2. house'[h] # "live" /\ \A v \in Users : member'[h][v] = None
        BY <2>5, <3>2
      <4>3. QED BY <3>1, <4>1, <4>2, LeavesGone
    <3>3. CASE h \notin hs /\ member[h][u] = None
      <4>1. \A v \in Users : member'[h][v] = member[h][v]
        BY <2>4, <2>5, <3>3
      <4>2. \A q \in Requests : pc'[q] = "erase" => job[q].user \in Users
        BY <2>3, Holds
      <4>3. house'[h] = house[h]
        BY <2>5, <3>3
      <4>4. QED BY <2>3, <3>1, <4>1, <4>2, <4>3, LeavesKept
    <3>4. CASE h \notin hs /\ member[h][u] # None
      <4>1. r \in Leaving(h)
        BY <2>1, <2>3, <3>4 DEF Leaving
      <4>2. ASSUME NEW q \in Leaving(h)'
            PROVE  q \in Leaving(h) /\ q # r
        <5>1. /\ pc'[q] \in {"remove", "erase"} /\ q \in Requests
              /\ pc'[q] = "remove" => job'[q].house = h
              /\ pc'[q] = "erase" => member'[h][job'[q].user] # None
          BY <4>2 DEF Leaving
        <5>2. q # r /\ pc[q] = pc'[q] /\ job'[q] = job[q]
          BY <2>3, <5>1
        <5>3. job[q].user \in Users
          BY <5>1, <5>2, Holds
        <5>4. pc[q] = "erase" => member[h][job[q].user] # None
          BY <2>4, <2>5, <3>4, <5>1, <5>2, <5>3
        <5>5. QED BY <5>1, <5>2, <5>4 DEF Leaving
      <4>3. \A p, q \in Leaving(h) : p = q
        BY <3>1 DEF LeavingAlone, LeavesAlone
      <4>4. Leaving(h)' = {}
        BY <4>1, <4>2, <4>3
      <4>5. QED BY <4>4, LeavesNone
    <3>5. QED BY <3>2, <3>3, <3>4
  <2>8. JoinsByInvitation
    <3>1. \A h \in Houses, v \in Users : member'[h][v] # None => member[h][v] # None
      BY <2>4, <2>5
    <3>2. QED BY <3>1 DEF JoinsByInvitation
  <2>9. LastAdminOut
    <3>1. ASSUME NEW h \in Houses \ contested', Admins(h) # {}, house'[h] = "live"
          PROVE  \E a \in Users : member'[h][a] = Admin
      <4>1. h \notin hs /\ member'[h] = m[h]
        BY <2>5, <3>1
      <4>2. CASE member[h][u] = Admin
        <5>1. \E a \in Users \ {u} : member[h][a] = Admin
          BY <2>1, <2>3, <3>1, <4>1, <4>2 DEF LeavingAlone, LeavesAlone
        <5>2. QED BY <2>4, <4>1, <5>1
      <4>3. CASE member[h][u] # Admin
        <5>1. PICK a \in Users : member[h][a] = Admin
          BY <3>1 DEF Admins
        <5>2. QED BY <2>4, <4>1, <4>3, <5>1
      <4>4. QED BY <4>2, <4>3
    <3>2. QED BY <3>1 DEF LastAdminOut
  <2>10. QED BY <2>6, <2>7, <2>8, <2>9 DEF LeavingAlone, Moderate
<1>5. ASSUME \/ VerifyLock(r) \/ OpenSession(r) \/ LoginSession(r) \/ SetSessionTenant(r)
             \/ Gate(r) \/ Act(r) \/ Unseat(r) \/ ResetCommit(r) \/ EndSessions(r)
             \/ Abort(r) \/ Refused(r)
             \/ \E s \in Sessions \cup {None} : LoginTenant(r, s)
      PROVE  LeavingAlone' /\ Moderate
  <2>1. \E st, j : st \notin {"remove", "erase"} /\ Moved(r, st, j)
    BY <1>5, LastSteps, StepsMove
  <2>2. UNCHANGED <<house, member, contested>>
    BY <1>5 DEF VerifyLock, OpenSession, LoginSession, SetSessionTenant, Gate, Act, Unseat,
                ResetCommit, EndSessions, Abort, Refused, LoginTenant
  <2>3. QED BY <2>1, <2>2, LeavingQuietly DEF Moved, LeavingQuiet
<1>6. QED BY <1>1, <1>2, <1>3, <1>4, <1>5 DEF Continues

-----------------------------------------------------------------------------
(* Sessions and passwords.                                                 *)

\* A step that opens no session, sets no password, and ends no reset.
SessionsQuiet ==
    /\ UNCHANGED password /\ early \subseteq early'
    /\ \A s \in Sessions : session'[s] # NoSession =>
         /\ session[s] # NoSession
         /\ session'[s].user = session[s].user /\ session'[s].password = session[s].password
    /\ \A q \in Requests : pc[q] = "endSessions" => pc'[q] = pc[q] /\ job'[q] = job[q]

LEMMA SessionsQuietly ==
  ASSUME OldPasswordOut, SessionsQuiet
  PROVE  OldPasswordOut'
  BY DEF OldPasswordOut, SessionsQuiet

LEMMA PasswordsAlone ==
  ASSUME HouseholdsOK, TypeInv, OldPasswordOut, Alone
  PROVE  OldPasswordOut'
<1> USE DEF accounts, houses, locks, history
<1>0. UNCHANGED <<pc, job>>
  BY AloneTyped
<1>1. ASSUME \/ \E u \in Users, k \in Tokens : Signup(u, k)
             \/ \E s \in Sessions, i \in Invites, role \in Roles : Invite(s, i, role)
             \/ \E h \in Houses, i \in Invites : AdminInvite(h, i)
             \/ \E s \in Sessions, i \in Invites : Revoke(s, i)
             \/ \E h \in Houses : SystemTenant(h)
             \/ \E u \in Users : ResetRequest(u)
      PROVE  SessionsQuiet
  BY <1>0, <1>1 DEF Signup, Invite, AdminInvite, Revoke, SystemTenant, ResetRequest, SessionsQuiet
<1>2. ASSUME NEW s \in Sessions, Logout(s)
      PROVE  SessionsQuiet
  BY <1>0, <1>2 DEF Logout, SessionsQuiet, TypeInv, DataTypes
<1>3. ASSUME NEW h \in Houses, SystemDelete(h)
      PROVE  SessionsQuiet
  <2>1. DropHouses({h}, member, session) /\ UNCHANGED <<password, early>>
    BY <1>3 DEF SystemDelete
  <2>2. {h} \in SUBSET Houses /\ session \in [Sessions -> Session \cup {NoSession}]
    BY DEF TypeInv, DataTypes
  <2>3. \A s \in Sessions : Without(session[s], session'[s], {h})
    BY <2>1, <2>2, DroppedSession
  <2>4. QED BY <1>0, <2>1, <2>3 DEF Without, SessionsQuiet
<1>4. QED BY <1>1, <1>2, <1>3, SessionsQuietly DEF Alone

LEMMA PasswordsArrive ==
  ASSUME HouseholdsOK, TypeInv, OldPasswordOut, NEW r \in Requests, Arrives(r)
  PROVE  OldPasswordOut'
<1>1. Unwritten
  BY ArrivalsWrite
<1>2. \E st, j : Moved(r, st, j) /\ pc[r] = "idle"
  BY ArrivalsMove DEF Arrives
<1>3. SessionsQuiet
  BY <1>1, <1>2 DEF Unwritten, Moved, SessionsQuiet
<1>4. QED BY <1>3, SessionsQuietly

LEMMA PasswordsOpen ==
  ASSUME HouseholdsOK, TypeInv, OldPasswordOut, NEW r \in Requests, Moved(r, "idle", NoJob),
         pc[r] # "endSessions", UNCHANGED password,
         NEW u \in Users, NEW h, NEW pw \in Nat, NewSession(u, h, pw)
  PROVE  OldPasswordOut'
<1> DEFINE new == [user |-> u, house |-> h, password |-> pw]
<1>1. PICK s \in Sessions :
        /\ session' = [session EXCEPT ![s] = new]
        /\ early' = IF pw < password[u] THEN early \cup {s} ELSE early \ {s}
  BY DEF NewSession
<1>2. new.user = u /\ new.password = pw
  OBVIOUS
<1> HIDE DEF new
<1>3. session'[s] = new /\ \A t \in Sessions \ {s} : session'[t] = session[t]
  BY <1>1 DEF TypeInv, DataTypes
<1>4. \A q \in Requests : pc[q] = "endSessions" => pc'[q] = pc[q] /\ job'[q] = job[q]
  BY DEF Moved
<1>5. ASSUME NEW t \in Sessions \ early', session'[t] # NoSession,
             session'[t].password < password'[session'[t].user]
      PROVE  \E q \in Requests : pc'[q] = "endSessions" /\ job'[q].user = session'[t].user
  <2>1. CASE t = s
    BY <1>1, <1>2, <1>3, <1>5, <2>1
  <2>2. CASE t # s
    <3>1. t \notin early /\ session'[t] = session[t]
      BY <1>1, <1>3, <1>5, <2>2
    <3>2. PICK q \in Requests : pc[q] = "endSessions" /\ job[q].user = session[t].user
      BY <1>5, <3>1 DEF OldPasswordOut
    <3>3. QED BY <1>4, <3>1, <3>2
  <2>3. QED BY <2>1, <2>2
<1>6. QED BY <1>5 DEF OldPasswordOut

\* The sessions of u go, and whoever was to end them may go too.
LEMMA PasswordsEnd ==
  ASSUME HouseholdsOK, TypeInv, OldPasswordOut, NEW r \in Requests, Moved(r, "idle", NoJob),
         UNCHANGED password, NEW u \in Users, pc[r] = "endSessions" => job[r].user = u,
         early \subseteq early' \cup SessionsOf(u),
         \A s \in Sessions : session'[s] # NoSession /\ s \notin early' =>
           /\ session[s] # NoSession /\ session[s].user # u
           /\ session'[s].user = session[s].user /\ session'[s].password = session[s].password
  PROVE  OldPasswordOut'
<1>1. ASSUME NEW s \in Sessions \ early', session'[s] # NoSession,
             session'[s].password < password'[session'[s].user]
      PROVE  \E q \in Requests : pc'[q] = "endSessions" /\ job'[q].user = session'[s].user
  <2>1. /\ session[s] # NoSession /\ session[s].user # u
        /\ session'[s].user = session[s].user /\ session'[s].password = session[s].password
    BY <1>1
  <2>2. s \notin early
    BY <1>1, <2>1 DEF SessionsOf
  <2>3. PICK q \in Requests : pc[q] = "endSessions" /\ job[q].user = session[s].user
    BY <1>1, <2>1, <2>2 DEF OldPasswordOut
  <2>4. q # r
    BY <2>1, <2>3
  <2>5. QED BY <2>1, <2>3, <2>4 DEF Moved
<1>2. QED BY <1>1 DEF OldPasswordOut

LEMMA PasswordsContinue ==
  ASSUME HouseholdsOK, TypeInv, OldPasswordOut, NEW r \in Requests, Continues(r)
  PROVE  OldPasswordOut'
<1> USE DEF accounts, houses, locks, history
<1>0. DataTypes
  BY DEF TypeInv
<1>1. CASE OpenSession(r) \/ LoginSession(r)
  <2>1. /\ Moved(r, "idle", NoJob) /\ pc[r] # "endSessions" /\ UNCHANGED password
    BY <1>1, LastSteps DEF OpenSession, LoginSession
  <2>2. PICK u \in Users, h \in Houses : u = job[r].user /\ h = job[r].house
    BY <1>1, Holds DEF OpenSession, LoginSession, Placed
  <2>3. password[u] \in Nat /\ job[r].password \in Nat
    BY <1>0, Holds DEF DataTypes
  <2>4. \/ UNCHANGED <<session, early>>
        \/ NewSession(u, h, password[u])
        \/ NewSession(u, h, job[r].password)
    BY <1>1, <2>2 DEF OpenSession, LoginSession
  <2>5. CASE UNCHANGED <<session, early>>
    BY <2>1, <2>5, SessionsQuietly DEF Moved, SessionsQuiet
  <2>6. QED BY <2>1, <2>3, <2>4, <2>5, PasswordsOpen
<1>2. CASE SetSessionTenant(r)
  <2>1. PICK s \in Sessions, h \in Houses, u \in Users :
          s = job[r].session /\ h = job[r].house /\ u = job[r].user
    BY <1>2, Holds DEF SetSessionTenant, Placed
  <2>2. /\ Moved(r, "idle", NoJob) /\ pc[r] # "endSessions"
        /\ UNCHANGED <<password, early>>
    BY <1>2, LastSteps DEF SetSessionTenant
  <2>3. \/ UNCHANGED session
        \/ session' = [session EXCEPT ![s].house = h] /\ session[s].user = u
    BY <1>2, <2>1 DEF SetSessionTenant
  <2>4. CASE UNCHANGED session
    BY <2>2, <2>4, SessionsQuietly DEF Moved, SessionsQuiet
  <2>5. CASE session' = [session EXCEPT ![s].house = h] /\ session[s].user = u
    <3>1. PICK v \in Session : v = session[s]
      BY <1>0, <2>5, Names DEF DataTypes
    <3>2. session' = [session EXCEPT ![s] = [v EXCEPT !.house = h]] /\ v # NoSession
      BY <2>5, <3>1, Names
    <3>3. [v EXCEPT !.house = h].user = v.user /\ [v EXCEPT !.house = h].password = v.password
      BY DEF Session
    <3>4. SessionsQuiet
      BY <1>0, <2>2, <3>1, <3>2, <3>3 DEF Moved, SessionsQuiet, DataTypes
    <3>5. QED BY <3>4, SessionsQuietly
  <2>6. QED BY <2>3, <2>4, <2>5
<1>3. CASE Unseat(r)
  <2>1. Moved(r, "idle", NoJob) /\ pc[r] # "endSessions" /\ UNCHANGED <<password, early>>
    BY <1>3, LastSteps DEF Unseat
  <2>2. job[r].user \in Users
    BY <1>3, Holds DEF Unseat
  <2>3. ASSUME NEW s \in Sessions, session'[s] # NoSession
        PROVE  /\ session[s] # NoSession /\ session'[s].user = session[s].user
               /\ session'[s].password = session[s].password
    <3>1. CASE session[s].user = job[r].user /\ session[s].house = job[r].house
      <4>1. session'[s] = [session[s] EXCEPT !.house = None]
        BY <1>3, <3>1 DEF Unseat, Affected
      <4>2. session[s] \in Session
        BY <1>0, <2>2, <3>1, Names DEF DataTypes
      <4>3. QED BY <4>1, <4>2, Names DEF Session
    <3>2. CASE ~(session[s].user = job[r].user /\ session[s].house = job[r].house)
      BY <1>3, <2>3, <3>2 DEF Unseat, Affected
    <3>3. QED BY <3>1, <3>2
  <2>4. QED BY <2>1, <2>3, SessionsQuietly DEF Moved, SessionsQuiet
<1>4. CASE DeleteCommit(r)
  <2> DEFINE m(w) == [h \in Houses |-> [member[h] EXCEPT ![w] = None]]
             se(w) == [s \in Sessions |-> IF session[s].user = w THEN NoSession
                                                                 ELSE session[s]]
  <2>1. PICK u \in Users, hs \in SUBSET Houses : u = job[r].user /\ hs = job[r].houses
    BY <1>4, Erasing
  <2>2. PICK se1, m1 : /\ se1 \in [Sessions -> Session \cup {NoSession}]
                       /\ se1 = se(u) /\ DropHouses(hs, m1, se1)
    BY <1>4, <2>1, Erasing
  <2>3. \A s \in Sessions : Without(se1[s], session'[s], hs)
    BY <2>2, DroppedSession
  <2>4. /\ Moved(r, "idle", NoJob) /\ pc[r] = "erase" /\ UNCHANGED password
        /\ early' = early \ SessionsOf(u)
    BY <1>4, <2>1, LastSteps DEF DeleteCommit
  <2>5. ASSUME NEW s \in Sessions, session'[s] # NoSession
        PROVE  /\ session[s] # NoSession /\ session[s].user # u
               /\ session'[s].user = session[s].user
               /\ session'[s].password = session[s].password
    BY <2>2, <2>3, <2>5 DEF Without
  <2>6. QED BY <2>4, <2>5, PasswordsEnd
<1>5. CASE ResetCommit(r)
  <2>1. PICK u \in Users : u = job[r].user
    BY <1>5, Holds DEF ResetCommit
  <2>2. Moved(r, "endSessions", job[r]) /\ pc[r] = "setPassword"
    BY <1>5, StepsMove DEF ResetCommit
  <2>3. /\ \A v \in Users \ {u} : password'[v] = password[v]
        /\ UNCHANGED <<session, early>>
    BY <1>0, <1>5, <2>1 DEF ResetCommit, DataTypes
  <2>4. ASSUME NEW s \in Sessions \ early', session'[s] # NoSession,
               session'[s].password < password'[session'[s].user]
        PROVE  \E q \in Requests : pc'[q] = "endSessions" /\ job'[q].user = session'[s].user
    <3>1. CASE session[s].user = u
      BY <2>1, <2>2, <2>3, <3>1 DEF Moved
    <3>2. CASE session[s].user # u
      <4>1. session[s].user \in Users
        BY <2>3, <2>4, SessionHolds
      <4>2. PICK q \in Requests : pc[q] = "endSessions" /\ job[q].user = session[s].user
        BY <2>3, <2>4, <3>2, <4>1 DEF OldPasswordOut
      <4>3. QED BY <2>2, <2>3, <4>2 DEF Moved
    <3>3. QED BY <3>1, <3>2
  <2>5. QED BY <2>4 DEF OldPasswordOut
<1>6. CASE EndSessions(r)
  <2>1. PICK u \in Users : u = job[r].user
    BY <1>6, Holds DEF EndSessions
  <2>2. Moved(r, "idle", NoJob) /\ UNCHANGED <<password, early>>
    BY <1>6, LastSteps DEF EndSessions
  <2>3. \A s \in Sessions : session'[s] # NoSession =>
          session[s].user # u /\ session'[s] = session[s]
    BY <1>6, <2>1 DEF EndSessions
  <2>4. QED BY <2>1, <2>2, <2>3, PasswordsEnd
<1>7. CASE Abort(r)
  <2>1. PICK u \in Users : u = job[r].user
    BY <1>7, Holds DEF Abort
  <2>2. /\ Moved(r, "idle", NoJob) /\ UNCHANGED <<password, session>>
        /\ early' = IF pc[r] = "endSessions" THEN early \cup SessionsOf(u) ELSE early
    BY <1>7, <2>1, LastSteps DEF Abort
  <2>3. CASE pc[r] = "endSessions"
    <3>1. early \subseteq early' \cup SessionsOf(u)
      BY <2>2, <2>3
    <3>2. \A s \in Sessions : session'[s] # NoSession /\ s \notin early' =>
            session[s].user # u /\ session'[s] = session[s]
      BY <2>2, <2>3 DEF SessionsOf
    <3>3. QED BY <2>1, <2>2, <3>1, <3>2, PasswordsEnd
  <2>4. CASE pc[r] # "endSessions"
    BY <2>2, <2>4, SessionsQuietly DEF Moved, SessionsQuiet
  <2>5. QED BY <2>3, <2>4
<1>8. ASSUME NEW s \in Sessions \cup {None}, LoginTenant(r, s)
      PROVE  OldPasswordOut'
  <2>1. \E st, j : Moved(r, st, j)
    BY <1>8, StepsMove
  <2>2. \A t \in Sessions : session'[t] # NoSession => session'[t] = session[t]
    BY <1>0, <1>8 DEF LoginTenant, DataTypes
  <2>3. pc[r] = "loggedIn" /\ UNCHANGED <<password, early>>
    BY <1>8 DEF LoginTenant
  <2>4. QED BY <2>1, <2>2, <2>3, SessionsQuietly DEF Moved, SessionsQuiet
<1>9. ASSUME VerifyLock(r) \/ VerifyCommit(r) \/ AcceptCommit(r) \/ Gate(r) \/ Act(r)
             \/ RemoveMember(r) \/ Refused(r)
      PROVE  OldPasswordOut'
  <2>1. \E st, j : Moved(r, st, j)
    BY <1>9, StepsMove, LastSteps
  <2>2. pc[r] # "endSessions" /\ UNCHANGED <<password, session, early>>
    BY <1>9 DEF VerifyLock, VerifyCommit, AcceptCommit, Gate, Act, RemoveMember, Refused
  <2>3. QED BY <2>1, <2>2, SessionsQuietly DEF Moved, SessionsQuiet
<1>10. QED BY <1>1, <1>2, <1>3, <1>4, <1>5, <1>6, <1>7, <1>8, <1>9 DEF Continues

-----------------------------------------------------------------------------
(* Sessions and memberships.                                               *)

\* A step after which a session that stands in a household stood there, whose
\* user was not in it if the user is not in it now, and that ends no removal.
InsideQuiet ==
    /\ strayed \subseteq strayed'
    /\ \A s \in Sessions \ strayed' : session'[s].house # None =>
         /\ session'[s].house = session[s].house /\ session'[s].user = session[s].user
         /\ member'[session[s].house][session[s].user] = None =>
              member[session[s].house][session[s].user] = None
    /\ \A q \in Requests : pc[q] = "unseat" => pc'[q] = pc[q] /\ job'[q] = job[q]

LEMMA InsideQuietly ==
  ASSUME SessionsInside, InsideQuiet
  PROVE  SessionsInside'
<1>1. ASSUME NEW s \in Sessions \ strayed', session'[s].house # None,
             member'[session'[s].house][session'[s].user] = None
      PROVE  \E q \in Requests : pc'[q] = "unseat" /\ Affected(session'[s], job'[q])
  <2>1. /\ s \in Sessions \ strayed
        /\ session'[s].house = session[s].house /\ session'[s].user = session[s].user
        /\ member[session[s].house][session[s].user] = None
    BY <1>1 DEF InsideQuiet
  <2>2. PICK q \in Requests : pc[q] = "unseat" /\ Affected(session[s], job[q])
    BY <1>1, <2>1 DEF SessionsInside
  <2>3. pc'[q] = "unseat" /\ job'[q] = job[q]
    BY <2>2 DEF InsideQuiet
  <2> QED BY <2>1, <2>2, <2>3 DEF Affected
<1> QED BY <1>1 DEF SessionsInside

\* What a deletion leaves of sessions and memberships.
LEMMA InsideDropped ==
  ASSUME HouseholdsOK, TypeInv, NEW hs \in SUBSET Houses, UNCHANGED strayed,
         NEW m, NEW se \in [Sessions -> Session \cup {NoSession}], DropHouses(hs, m, se),
         \A s \in Sessions : se[s] = session[s] \/ se[s] = NoSession,
         \A s \in Sessions, h \in Houses :
           se[s] # NoSession => m[h][se[s].user] = member[h][se[s].user],
         \A q \in Requests : pc[q] = "unseat" => pc'[q] = pc[q] /\ job'[q] = job[q]
  PROVE  InsideQuiet
<1>1. ASSUME NEW s \in Sessions, session'[s].house # None
      PROVE  /\ session'[s].house = session[s].house /\ session'[s].user = session[s].user
             /\ member'[session[s].house][session[s].user] = None =>
                  member[session[s].house][session[s].user] = None
  <2>1. Without(se[s], session'[s], hs)
    BY DroppedSession
  <2>2. se[s].house \notin hs /\ session'[s].house = se[s].house /\ session'[s].user = se[s].user
    BY <1>1, <2>1 DEF Without
  <2>3. se[s] # NoSession /\ se[s] = session[s]
    BY <1>1, <2>2, Names
  <2>4. session[s].house \in Houses
    BY <1>1, <2>2, <2>3, SessionHolds
  <2>5. member'[session[s].house] = m[session[s].house]
    BY <2>2, <2>3, <2>4 DEF DropHouses
  <2> QED BY <2>2, <2>3, <2>4, <2>5
<1> QED BY <1>1 DEF InsideQuiet

LEMMA InsideAlone ==
  ASSUME HouseholdsOK, TypeInv, SessionsInside, Alone
  PROVE  SessionsInside'
<1> USE DEF accounts, houses, locks, history
<1>0. UNCHANGED <<pc, job>>
  BY AloneTyped
<1>1. ASSUME \/ \E u \in Users, k \in Tokens : Signup(u, k)
             \/ \E s \in Sessions, i \in Invites, role \in Roles : Invite(s, i, role)
             \/ \E h \in Houses, i \in Invites : AdminInvite(h, i)
             \/ \E s \in Sessions, i \in Invites : Revoke(s, i)
             \/ \E h \in Houses : SystemTenant(h)
             \/ \E u \in Users : ResetRequest(u)
      PROVE  InsideQuiet
  BY <1>0, <1>1 DEF Signup, Invite, AdminInvite, Revoke, SystemTenant, ResetRequest, InsideQuiet
<1>2. ASSUME NEW s \in Sessions, Logout(s)
      PROVE  InsideQuiet
  BY <1>0, <1>2, Names DEF Logout, InsideQuiet, TypeInv, DataTypes
<1>3. ASSUME NEW h \in Houses, SystemDelete(h)
      PROVE  InsideQuiet
  <2>1. DropHouses({h}, member, session) /\ UNCHANGED strayed
    BY <1>3 DEF SystemDelete
  <2>2. {h} \in SUBSET Houses /\ session \in [Sessions -> Session \cup {NoSession}]
    BY DEF TypeInv, DataTypes
  <2> QED BY <1>0, <2>1, <2>2, InsideDropped
<1> QED BY <1>1, <1>2, <1>3, InsideQuietly DEF Alone

LEMMA InsideArrive ==
  ASSUME HouseholdsOK, TypeInv, SessionsInside, NEW r \in Requests, Arrives(r)
  PROVE  SessionsInside'
<1>1. Unwritten
  BY ArrivalsWrite
<1>2. \E st, j : Moved(r, st, j) /\ pc[r] = "idle"
  BY ArrivalsMove DEF Arrives
<1>3. InsideQuiet
  BY <1>1, <1>2 DEF Unwritten, Moved, InsideQuiet
<1> QED BY <1>3, InsideQuietly

\* A session written with a household its user is not in is in "strayed".
LEMMA InsidePlaced ==
  ASSUME HouseholdsOK, TypeInv, SessionsInside, NEW r \in Requests, Moved(r, "idle", NoJob),
         pc[r] # "unseat", UNCHANGED member,
         NEW s \in Sessions, NEW u \in Users, NEW h \in Houses, Place(s, u, h),
         session'[s].user = u, session'[s].house = h,
         \A t \in Sessions \ {s} : session'[t] = session[t]
  PROVE  SessionsInside'
<1>1. ASSUME NEW t \in Sessions \ strayed', session'[t].house # None,
             member'[session'[t].house][session'[t].user] = None
      PROVE  \E q \in Requests : pc'[q] = "unseat" /\ Affected(session'[t], job'[q])
  <2>1. t # s
    BY <1>1 DEF Place
  <2>2. session'[t] = session[t] /\ t \notin strayed
    BY <1>1, <2>1 DEF Place
  <2>3. PICK q \in Requests : pc[q] = "unseat" /\ Affected(session[t], job[q])
    BY <1>1, <2>2 DEF SessionsInside
  <2> QED BY <2>2, <2>3 DEF Moved
<1> QED BY <1>1 DEF SessionsInside

LEMMA InsideContinue ==
  ASSUME HouseholdsOK, TypeInv, SessionsInside, NEW r \in Requests, Continues(r)
  PROVE  SessionsInside'
<1> USE DEF accounts, houses, locks, history
<1>0. DataTypes
  BY DEF TypeInv
<1>1. CASE OpenSession(r) \/ LoginSession(r)
  <2>1. Moved(r, "idle", NoJob) /\ pc[r] # "unseat" /\ UNCHANGED member
    BY <1>1, LastSteps DEF OpenSession, LoginSession
  <2>2. PICK u \in Users, h \in Houses : u = job[r].user /\ h = job[r].house
    BY <1>1, Holds DEF OpenSession, LoginSession, Placed
  <2>3. UNCHANGED <<session, strayed>> \/ \E pw : NewSession(u, h, pw)
    BY <1>1, <2>2 DEF OpenSession, LoginSession
  <2>4. CASE UNCHANGED <<session, strayed>>
    BY <2>1, <2>4, InsideQuietly DEF Moved, InsideQuiet
  <2>5. ASSUME NEW pw, NewSession(u, h, pw)
        PROVE  SessionsInside'
    <3> DEFINE new == [user |-> u, house |-> h, password |-> pw]
    <3>1. PICK s \in Sessions : session' = [session EXCEPT ![s] = new] /\ Place(s, u, h)
      BY <2>5 DEF NewSession
    <3>2. new.user = u /\ new.house = h
      OBVIOUS
    <3> HIDE DEF new
    <3>3. session'[s] = new /\ \A t \in Sessions \ {s} : session'[t] = session[t]
      BY <1>0, <3>1 DEF DataTypes
    <3> QED BY <2>1, <3>1, <3>2, <3>3, InsidePlaced
  <2> QED BY <2>3, <2>4, <2>5
<1>2. CASE SetSessionTenant(r)
  <2>1. PICK s \in Sessions, h \in Houses, u \in Users :
          s = job[r].session /\ h = job[r].house /\ u = job[r].user
    BY <1>2, Holds DEF SetSessionTenant, Placed
  <2>2. Moved(r, "idle", NoJob) /\ pc[r] # "unseat" /\ UNCHANGED member
    BY <1>2, LastSteps DEF SetSessionTenant
  <2>3. \/ UNCHANGED <<session, strayed>>
        \/ /\ session' = [session EXCEPT ![s].house = h] /\ session[s].user = u
           /\ Place(s, u, h)
    BY <1>2, <2>1 DEF SetSessionTenant
  <2>4. CASE UNCHANGED <<session, strayed>>
    BY <2>2, <2>4, InsideQuietly DEF Moved, InsideQuiet
  <2>5. CASE session' = [session EXCEPT ![s].house = h] /\ session[s].user = u /\ Place(s, u, h)
    <3>1. PICK v \in Session : v = session[s]
      BY <1>0, <2>5, Names DEF DataTypes
    <3>2. session' = [session EXCEPT ![s] = [v EXCEPT !.house = h]]
      BY <2>5, <3>1
    <3>3. [v EXCEPT !.house = h].user = v.user /\ [v EXCEPT !.house = h].house = h
      BY DEF Session
    <3>4. /\ session'[s].user = u /\ session'[s].house = h
          /\ \A t \in Sessions \ {s} : session'[t] = session[t]
      BY <1>0, <2>5, <3>1, <3>2, <3>3 DEF DataTypes
    <3> QED BY <2>2, <2>5, <3>4, InsidePlaced
  <2> QED BY <2>3, <2>4, <2>5
<1>3. CASE Unseat(r)
  <2>1. Moved(r, "idle", NoJob) /\ UNCHANGED <<member, strayed>>
    BY <1>3, LastSteps DEF Unseat
  <2>2. ASSUME NEW s \in Sessions \ strayed', session'[s].house # None,
               member'[session'[s].house][session'[s].user] = None
        PROVE  \E q \in Requests : pc'[q] = "unseat" /\ Affected(session'[s], job'[q])
    <3>1. ~Affected(session[s], job[r]) /\ session'[s] = session[s]
      <4>1. CASE Affected(session[s], job[r])
        <5>1. session'[s] = [session[s] EXCEPT !.house = None]
          BY <1>3, <4>1 DEF Unseat
        <5>2. session[s] \in Session \cup {NoSession}
          BY <1>0 DEF DataTypes
        <5> QED BY <2>2, <5>1, <5>2 DEF Session, NoSession
      <4> QED BY <1>3, <4>1 DEF Unseat
    <3>2. PICK q \in Requests : pc[q] = "unseat" /\ Affected(session[s], job[q])
      BY <2>1, <2>2, <3>1 DEF SessionsInside
    <3>3. q # r
      BY <3>1, <3>2
    <3> QED BY <2>1, <3>1, <3>2, <3>3 DEF Moved
  <2> QED BY <2>2 DEF SessionsInside
<1>4. CASE DeleteCommit(r)
  <2>1. PICK u \in Users, hs \in SUBSET Houses : u = job[r].user /\ hs = job[r].houses
    BY <1>4, Erasing
  <2> DEFINE m == [h \in Houses |-> [member[h] EXCEPT ![u] = None]]
             se == [s \in Sessions |-> IF session[s].user = u THEN NoSession ELSE session[s]]
  <2>2. /\ se \in [Sessions -> Session \cup {NoSession}] /\ DropHouses(hs, m, se)
    BY <1>4, <2>1, Erasing
  <2>3. ASSUME NEW s \in Sessions
        PROVE  se[s] = NoSession \/ (se[s] = session[s] /\ se[s].user # u)
    <3>1. se[s] = IF session[s].user = u THEN NoSession ELSE session[s]
      OBVIOUS
    <3> QED BY <3>1
  <2>4. \A h \in Houses, w \in Users \ {u} : m[h][w] = member[h][w]
    BY <1>0 DEF DataTypes
  <2>5. \A s \in Sessions : se[s] # NoSession => se[s].user \in Users
    BY <2>2, Names
  <2>6. Moved(r, "idle", NoJob) /\ pc[r] # "unseat" /\ UNCHANGED strayed
    BY <1>4, LastSteps DEF DeleteCommit
  <2>7. \A q \in Requests : pc[q] = "unseat" => pc'[q] = pc[q] /\ job'[q] = job[q]
    BY <2>6 DEF Moved
  <2> HIDE DEF m, se
  <2>8. \A s \in Sessions, h \in Houses :
          se[s] # NoSession => m[h][se[s].user] = member[h][se[s].user]
    BY <2>3, <2>4, <2>5
  <2>9. InsideQuiet
    BY <2>2, <2>3, <2>6, <2>7, <2>8, InsideDropped
  <2> QED BY <2>9, InsideQuietly
<1>5. CASE RemoveMember(r)
  <2>1. PICK u \in Users, h \in Houses : u = job[r].user /\ h = job[r].house
    BY <1>5, Holds DEF RemoveMember, Placed
  <2>2. Moved(r, "unseat", job[r]) /\ pc[r] = "remove" /\ UNCHANGED <<session, strayed>>
    BY <1>5, StepsMove DEF RemoveMember
  <2>3. member' = [member EXCEPT ![h][u] = None]
    BY <1>5, <2>1 DEF RemoveMember
  <2>4. ASSUME NEW s \in Sessions \ strayed', session'[s].house # None,
               member'[session'[s].house][session'[s].user] = None
        PROVE  \E q \in Requests : pc'[q] = "unseat" /\ Affected(session'[s], job'[q])
    <3>1. CASE session[s].house = h /\ session[s].user = u
      BY <2>1, <2>2, <3>1 DEF Moved, Affected
    <3>2. CASE ~(session[s].house = h /\ session[s].user = u)
      <4>1. session[s].user \in Users /\ session[s].house \in Houses
        BY <2>2, <2>4, Names, SessionHolds
      <4>2. member[session[s].house][session[s].user] = None
        BY <1>0, <2>2, <2>3, <2>4, <3>2, <4>1 DEF DataTypes
      <4>3. PICK q \in Requests : pc[q] = "unseat" /\ Affected(session[s], job[q])
        BY <2>2, <2>4, <4>2 DEF SessionsInside
      <4> QED BY <2>2, <4>3 DEF Moved
    <3> QED BY <3>1, <3>2
  <2> QED BY <2>4 DEF SessionsInside
<1>6. CASE Abort(r)
  <2>1. Moved(r, "idle", NoJob) /\ UNCHANGED <<session, member>>
    BY <1>6, LastSteps DEF Abort
  <2>2. CASE pc[r] = "unseat"
    <3>1. strayed' = strayed \cup {s \in Sessions : Affected(session[s], job[r])}
      BY <1>6, <2>2 DEF Abort
    <3>2. ASSUME NEW s \in Sessions \ strayed', session'[s].house # None,
                 member'[session'[s].house][session'[s].user] = None
          PROVE  \E q \in Requests : pc'[q] = "unseat" /\ Affected(session'[s], job'[q])
      <4>1. PICK q \in Requests : pc[q] = "unseat" /\ Affected(session[s], job[q])
        BY <2>1, <3>1, <3>2 DEF SessionsInside
      <4>2. q # r
        BY <3>1, <3>2, <4>1
      <4> QED BY <2>1, <4>1, <4>2 DEF Moved
    <3> QED BY <3>2 DEF SessionsInside
  <2>3. CASE pc[r] # "unseat"
    <3>1. UNCHANGED strayed
      BY <1>6, <2>3 DEF Abort
    <3> QED BY <2>1, <2>3, <3>1, InsideQuietly DEF Moved, InsideQuiet
  <2> QED BY <2>2, <2>3
<1>7. CASE VerifyCommit(r) \/ AcceptCommit(r)
  <2>1. \E st, j : Moved(r, st, j)
    BY <1>7, StepsMove
  <2>2. pc[r] # "unseat" /\ UNCHANGED <<session, strayed>>
    BY <1>7 DEF VerifyCommit, AcceptCommit
  <2>3. PICK u \in Users : u = job[r].user
    BY <1>7, Holds DEF VerifyCommit, AcceptCommit
  <2>4. \A h \in Houses, w \in Users : member'[h][w] = None => member[h][w] = None
    <3>1. CASE VerifyCommit(r)
      <4>1. \/ UNCHANGED member
            \/ \E h \in Houses : member' = [member EXCEPT ![h][u] = Admin]
        BY <2>3, <3>1 DEF VerifyCommit
      <4>2. CASE UNCHANGED member
        BY <4>2
      <4>3. ASSUME NEW h \in Houses, member' = [member EXCEPT ![h][u] = Admin]
            PROVE  \A g \in Houses, w \in Users : member'[g][w] = None => member[g][w] = None
        BY <1>0, <4>3, Names DEF DataTypes
      <4> QED BY <4>1, <4>2, <4>3
    <3>2. CASE AcceptCommit(r)
      <4>1. PICK h \in Houses : h = job[r].house
        BY <3>2, Holds DEF AcceptCommit, Placed
      <4>2. PICK role : member' = [member EXCEPT ![h][u] =
                                     IF member[h][u] = None THEN role ELSE member[h][u]]
        BY <2>3, <3>2, <4>1 DEF AcceptCommit
      <4> QED BY <1>0, <4>2 DEF DataTypes
    <3> QED BY <1>7, <3>1, <3>2
  <2>5. \A s \in Sessions : session[s].house # None =>
          session[s].house \in Houses /\ session[s].user \in Users
    BY Names, SessionHolds
  <2>6. InsideQuiet
    BY <2>1, <2>2, <2>4, <2>5 DEF Moved, InsideQuiet
  <2> QED BY <2>6, InsideQuietly
<1>8. ASSUME \/ \E s \in Sessions \cup {None} : LoginTenant(r, s)
             \/ EndSessions(r) \/ VerifyLock(r) \/ Gate(r) \/ Act(r) \/ ResetCommit(r)
             \/ Refused(r)
      PROVE  SessionsInside'
  <2>1. \E st, j : Moved(r, st, j)
    BY <1>8, StepsMove, LastSteps
  <2>2. pc[r] # "unseat" /\ UNCHANGED <<member, strayed>>
    BY <1>8 DEF LoginTenant, EndSessions, VerifyLock, Gate, Act, ResetCommit, Refused
  <2>3. \A t \in Sessions : session'[t] = NoSession \/ session'[t] = session[t]
    BY <1>0, <1>8 DEF LoginTenant, EndSessions, VerifyLock, Gate, Act, ResetCommit, Refused,
                      DataTypes
  <2>4. InsideQuiet
    BY <2>1, <2>2, <2>3, Names DEF Moved, InsideQuiet
  <2> QED BY <2>4, InsideQuietly
<1> QED BY <1>1, <1>2, <1>3, <1>4, <1>5, <1>6, <1>7, <1>8 DEF Continues

-----------------------------------------------------------------------------
(* The invariant.                                                          *)

Inv ==
    /\ TypeInv /\ KeysHold /\ LocksHold
    /\ Founding /\ LeavingAlone
    /\ SessionsInside /\ OldPasswordOut

LEMMA InitHolds ==
  ASSUME HouseholdsOK, Init
  PROVE  Inv
<1>1. NoInvite \in Invitation /\ NoInvite.state = "none"
  BY DEF NoInvite, Invitation, Roles
<1>2. NoJob \in Job /\ Shape("idle", NoJob) /\ "idle" \in Stages
  BY Names DEF Shape, Placed, Stages
<1>3. TypeInv
  <2>1. DataTypes
    BY <1>1 DEF Init, DataTypes, Account, Link
  <2>2. JobTypes
    BY <1>2 DEF Init, JobTypes
  <2>3. QED BY <2>1, <2>2 DEF TypeInv
<1>4. KeysHold
  BY DEF Init, KeysHold
<1>5. LocksHold
  BY DEF Init, LocksHold
<1>6. Founding
  BY DEF Init, Founding, FoundingAlone, OneHousehold
<1>7. LeavingAlone
  BY Names DEF Init, LeavingAlone, LeavesAlone, Leaving
<1>8. SessionsInside /\ OldPasswordOut
  BY Names DEF Init, SessionsInside, OldPasswordOut
<1>9. QED BY <1>3, <1>4, <1>5, <1>6, <1>7, <1>8 DEF Inv

\* The same of a household that is there, with everybody in it.
LEMMA SettledHolds ==
  ASSUME HouseholdsOK, NEW u \in Users, NEW h \in Houses, NEW s \in Sessions,
         NEW role \in Roles, Settled(u, h, s, role)
  PROVE  Inv
<1> USE DEF Settled
<1>1. NoInvite \in Invitation /\ NoInvite.state = "none"
  BY DEF NoInvite, Invitation, Roles
<1>2. NoJob \in Job /\ Shape("idle", NoJob) /\ "idle" \in Stages
  BY Names DEF Shape, Placed, Stages
<1>3. [user |-> u, house |-> h, password |-> 0] \in Session
  BY DEF Session
<1>4. TypeInv
  <2>1. member \in [Houses -> [Users -> Roles \cup {None}]]
    BY Names
  <2>2. DataTypes
    BY <1>1, <1>3, <2>1 DEF DataTypes, Account, Link
  <2>3. JobTypes
    BY <1>2 DEF JobTypes
  <2>4. QED BY <2>2, <2>3 DEF TypeInv
<1>5. KeysHold
  BY Names DEF KeysHold
<1>6. LocksHold
  BY DEF LocksHold
<1>7. \A w \in Users : h \in HousesOf(w)
  BY Names DEF HousesOf
<1>8. Founding
  BY <1>7 DEF Founding, FoundingAlone, OneHousehold
<1>9. LeavingAlone
  BY Names DEF LeavingAlone, LeavesAlone, Leaving
<1>10. SessionsInside /\ OldPasswordOut
  BY Names DEF SessionsInside, OldPasswordOut, NoSession
<1>11. QED BY <1>4, <1>5, <1>6, <1>8, <1>9, <1>10 DEF Inv

LEMMA InvNext ==
  ASSUME HouseholdsOK, Inv, Next
  PROVE  Inv' /\ Moderate
<1> USE DEF Inv
<1>1. TypeInv' /\ SessionsInside'
  BY Steps, TypesNext, InsideAlone, InsideArrive, InsideContinue
<1>2. KeysHold'
  BY Steps, KeysAlone, KeysArrive, KeysContinue
<1>3. LocksHold'
  BY Steps, LocksAlone, LocksArrive, LocksContinue
<1>4. Founding'
  BY Steps, FoundingStandsAlone, FoundingArrive, FoundingContinue
<1>5. LeavingAlone' /\ Moderate
  BY Steps, LeavingStandsAlone, LeavingArrive, LeavingContinue
<1>6. OldPasswordOut'
  BY Steps, PasswordsAlone, PasswordsArrive, PasswordsContinue
<1>7. QED BY <1>1, <1>2, <1>3, <1>4, <1>5, <1>6

LEMMA InvStutter ==
  ASSUME Inv, UNCHANGED vars
  PROVE  Inv'
<1> USE DEF vars, accounts, houses, locks, bounds, history
<1>1. TypeInv' /\ KeysHold' /\ LocksHold'
  BY DEF Inv, TypeInv, DataTypes, JobTypes, KeysHold, LocksHold
<1>2. Founding'
  BY DEF Inv, Founding, FoundingAlone, OneHousehold, HousesOf
<1>3. LeavingAlone'
  BY DEF Inv, LeavingAlone, LeavesAlone, Leaving
<1>4. SessionsInside' /\ OldPasswordOut'
  BY DEF Inv, SessionsInside, OldPasswordOut
<1>5. QED BY <1>1, <1>2, <1>3, <1>4 DEF Inv

LEMMA Invariant ==
  ASSUME HouseholdsOK
  PROVE  Spec => []Inv
<1>1. Init => Inv
  BY InitHolds
<1>2. Inv /\ [Next]_vars => Inv'
  BY InvNext, InvStutter
<1>3. QED BY <1>1, <1>2, PTL DEF Spec

LEMMA InvTypes ==
  ASSUME HouseholdsOK, Inv
  PROVE  TypeOK
<1>1. \A r \in Requests : pc[r] = "idle" => job[r] = NoJob
  BY Holds DEF Inv
<1>2. ASSUME NEW r \in Requests, pc[r] = "idle"
      PROVE  /\ \A u \in Users : userLock[u] # r
             /\ \A i \in Invites : inviteLock[i] # r
  BY <1>2, Names DEF Inv, LocksHold
<1>3. QED BY <1>1, <1>2 DEF Inv, TypeOK, TypeInv, DataTypes, KeysHold, Account, Link

\* Memberships and sessions refer to accounts and households that are there,
\* and a request that is over holds nothing.
THEOREM HouseholdTypes ==
  ASSUME HouseholdsOK
  PROVE  Spec => []TypeOK
BY InvTypes, Invariant, PTL

\* However many links of a user are opened at once, verification founds one
\* household for the user.
THEOREM FoundsOnce ==
  ASSUME HouseholdsOK
  PROVE  Spec => []OneHousehold
<1>1. Inv => OneHousehold
  BY DEF Inv, Founding
<1>2. QED BY <1>1, Invariant, PTL

\* A session stands only in a household its user is in, but between the two
\* statements of a removal and for those an overlapping switch or login wrote.
THEOREM SessionsStayInside ==
  ASSUME HouseholdsOK
  PROVE  Spec => []SessionsInside
<1>1. Inv => SessionsInside
  BY DEF Inv
<1>2. QED BY <1>1, Invariant, PTL

\* After a password reset there is no session of before it, but for the
\* logins that had checked the old password already.
THEOREM ResetsEndSessions ==
  ASSUME HouseholdsOK
  PROVE  Spec => []OldPasswordOut
<1>1. Inv => OldPasswordOut
  BY DEF Inv
<1>2. QED BY <1>1, Invariant, PTL

\* Who becomes a member founds the household or uses up an invitation into it.
THEOREM MembersAreInvited ==
  ASSUME HouseholdsOK
  PROVE  Spec => JoiningConsumes
<1>1. Inv /\ [Next]_vars => [JoinsByInvitation]_vars
  BY InvNext DEF Moderate
<1>2. QED BY <1>1, Invariant, PTL DEF Spec, JoiningConsumes

\* A household does not lose its last administrator and stay, unless two who
\* leave it did not see each other.
THEOREM AdminsRemain ==
  ASSUME HouseholdsOK
  PROVE  Spec => AdminRemains
<1>1. Inv /\ [Next]_vars => [LastAdminOut]_vars
  BY InvNext DEF Moderate
<1>2. QED BY <1>1, Invariant, PTL DEF Spec, AdminRemains

===============================================================================
