------------------------------ MODULE Households ------------------------------
(***************************************************************************)
(* Who may act where: routes/auth.ts, routes/tenants.ts, auth/sessions.ts, *)
(* auth/rbac.ts and the session hook of app.ts.                            *)
(*                                                                         *)
(* A user signs up and verifies an address, which founds a household, or   *)
(* accepts an invitation into one; logs in; has a session whose household  *)
(* is only a column; removes members; resets a password; deletes the       *)
(* account.  Most handlers look first and write in a later statement.      *)
(***************************************************************************)
EXTENDS Integers, FiniteSets

CONSTANTS
    Users, Houses, Sessions, Requests,
    Invites,          \* ids of invitations
    Tokens,           \* ids of a user's verification links
    Seats,            \* householdMemberCap of the plan in force
    MaxStarts,        \* bound: requests ever started
    MaxFailures       \* bound: requests that die between two statements

None == "none"
Admin == "admin"
Roles == {Admin, "spouse"}    \* "child" differs from spouse only in what it sees

HouseholdsOK ==
    /\ IsFiniteSet(Users) /\ IsFiniteSet(Sessions)
    /\ None \notin Users \cup Houses \cup Sessions \cup Requests \cup Invites
    /\ Seats \in Nat /\ MaxStarts \in Nat /\ MaxFailures \in Nat

VARIABLES
    account,      \* users: "none", "unverified", "verified", "gone"
    password,     \* how often the password has been set
    verification, \* email_verifications of a user: "none", "live", "used"
    reset,        \* the latest password_resets row of a user: the same
    house,        \* tenants: "free", "live", "gone"
    member,       \* memberships: the role of a user in a household
    invitation,   \* [state, house, role]
    session,      \* [user, house, password] or NoSession
    userLock, inviteLock,     \* the request that holds the row
    pc, job,
    starts, failures,
    (***********************************************************************)
    (* History: nothing in the code reads these.                           *)
    (***********************************************************************)
    founded,      \* households a user's verifications have founded
    departed,     \* users some household has lost or put out
    contested,    \* households where one who left did not see who else joined or left
    early,        \* sessions opened by a login that had checked an older password
    strayed       \* sessions put in a household after their user had left it, or
                  \* left there by a removal that died half way

accounts == <<account, password, verification, reset>>
houses == <<house, member, invitation>>
locks == <<userLock, inviteLock>>
bounds == <<starts, failures>>
history == <<founded, departed, contested, early, strayed>>
vars == <<accounts, houses, session, locks, pc, job, bounds, history>>

NoSession == [user |-> None, house |-> None, password |-> 0]
NoInvite == [state |-> "none", house |-> None, role |-> "spouse"]
NoJob == [user |-> None, token |-> None, house |-> None, houses |-> {},
          session |-> None, password |-> 0]

TypeOK ==
    /\ account \in [Users -> {"none", "unverified", "verified", "gone"}]
    /\ password \in [Users -> Nat]
    /\ verification \in [Users -> [Tokens -> {"none", "live", "used"}]]
    /\ reset \in [Users -> {"none", "live", "used"}]
    /\ house \in [Houses -> {"free", "live", "gone"}]
    /\ member \in [Houses -> [Users -> Roles \cup {None}]]
    /\ \A h \in Houses, u \in Users :          \* the foreign keys
         member[h][u] # None => house[h] = "live" /\ account[u] = "verified"
    /\ \A s \in Sessions : session[s] # NoSession =>
         account[session[s].user] = "verified"
         /\ (session[s].house = None \/ house[session[s].house] = "live")
    /\ \A r \in Requests : pc[r] = "idle" =>
         /\ job[r] = NoJob
         /\ \A u \in Users : userLock[u] # r
         /\ \A i \in Invites : inviteLock[i] # r

Init ==
    /\ account = [u \in Users |-> "none"] /\ password = [u \in Users |-> 0]
    /\ verification = [u \in Users |-> [k \in Tokens |-> "none"]]
    /\ reset = [u \in Users |-> "none"]
    /\ house = [h \in Houses |-> "free"]
    /\ member = [h \in Houses |-> [u \in Users |-> None]]
    /\ invitation = [i \in Invites |-> NoInvite]
    /\ session = [s \in Sessions |-> NoSession]
    /\ userLock = [u \in Users |-> None] /\ inviteLock = [i \in Invites |-> None]
    /\ pc = [r \in Requests |-> "idle"] /\ job = [r \in Requests |-> NoJob]
    /\ starts = 0 /\ failures = 0
    /\ founded = [u \in Users |-> 0] /\ departed = {} /\ contested = {} /\ early = {}
    /\ strayed = {}

\* A household h, u its admin and logged in, the other users in it with a
\* role, or in none, for a run to start in.
Settled(u, h, s, role) ==
    /\ account = [w \in Users |-> "verified"] /\ password = [w \in Users |-> 0]
    /\ verification = [w \in Users |-> [k \in Tokens |-> "none"]]
    /\ reset = [w \in Users |-> "none"]
    /\ house = [g \in Houses |-> IF g = h THEN "live" ELSE "free"]
    /\ member = [g \in Houses |-> [w \in Users |->
                   IF g # h THEN None ELSE IF w = u THEN Admin ELSE role]]
    /\ invitation = [i \in Invites |-> NoInvite]
    /\ session = [t \in Sessions |->
                    IF t = s THEN [user |-> u, house |-> h, password |-> 0] ELSE NoSession]
    /\ userLock = [w \in Users |-> None] /\ inviteLock = [i \in Invites |-> None]
    /\ pc = [r \in Requests |-> "idle"] /\ job = [r \in Requests |-> NoJob]
    /\ starts = 0 /\ failures = 0
    /\ founded = [w \in Users |-> 0] /\ departed = {} /\ contested = {} /\ early = {}
    /\ strayed = {}

-----------------------------------------------------------------------------

Exists(u) == account[u] \in {"unverified", "verified"}
HousesOf(u) == {h \in Houses : member[h][u] # None}
Members(h) == {u \in Users : member[h][u] # None}
Admins(h) == {u \in Users : member[h][u] = Admin}
SessionsOf(u) == {s \in Sessions : session[s].user = u}
Goto(r, stage) == pc' = [pc EXCEPT ![r] = stage]
Begin(r, stage, j) ==
    /\ pc[r] = "idle" /\ starts < MaxStarts /\ starts' = starts + 1
    /\ Goto(r, stage) /\ job' = [job EXCEPT ![r] = j]
End(r) == Goto(r, "idle") /\ job' = [job EXCEPT ![r] = NoJob]
Release(r) ==
    /\ userLock' = [u \in Users |-> IF userLock[u] = r THEN None ELSE userLock[u]]
    /\ inviteLock' = [i \in Invites |-> IF inviteLock[i] = r THEN None ELSE inviteLock[i]]

\* A user who joins while a request is about to delete the account.
ContestJoin(r, h) ==
    contested' = IF \E q \in Requests : pc[q] = "erase" /\ job[q].user = job[r].user
                 THEN contested \cup {h} ELSE contested

Free(u) == userLock[u] = None

\* Session s is written with household h, whether or not u is still in it.
Place(s, u, h) ==
    strayed' = IF member[h][u] = None THEN strayed \cup {s} ELSE strayed \ {s}

\* createSession; an id is drawn at random and never collides.
NewSession(u, h, pw) ==
    \E s \in Sessions :
        /\ session[s] = NoSession
        /\ session' = [session EXCEPT ![s] = [user |-> u, house |-> h, password |-> pw]]
        /\ early' = IF pw < password[u] THEN early \cup {s} ELSE early \ {s}
        /\ Place(s, u, h)

-----------------------------------------------------------------------------
(* POST /api/auth/signup and /verify-email.                                *)

\* A known address that is not verified gets another link; the unique index
\* on the address turns a signup that lost the race into a success.
Signup(u, k) ==
    /\ starts < MaxStarts /\ starts' = starts + 1
    /\ Free(u) /\ account[u] \in {"none", "unverified"} /\ verification[u][k] = "none"
    /\ account' = [account EXCEPT ![u] = "unverified"]
    /\ verification' = [verification EXCEPT ![u][k] = "live"]
    /\ UNCHANGED <<password, reset, houses, session, locks, pc, job, failures, history>>

VerifyLoad(r, u, k) ==
    /\ verification[u][k] = "live"
    /\ Begin(r, "verify", [NoJob EXCEPT !.user = u, !.token = k])
    /\ UNCHANGED <<accounts, houses, session, locks, failures, history>>

\* A mutant of VerifyLock: the user's row is read and not updated first.
VerifyUnlocked(r) ==
    /\ pc[r] = "verify" /\ Goto(r, "found")
    /\ job' = [job EXCEPT ![r].houses = HousesOf(job[r].user)]
    /\ UNCHANGED <<accounts, houses, session, locks, bounds, history>>

\* UPDATE users ... WHERE email_verified_at IS NULL waits for whoever holds
\* the row and holds it until COMMIT; only then are the memberships read.
VerifyLock(r) ==
    /\ pc[r] = "verify" /\ Free(job[r].user)
    /\ IF account[job[r].user] = "unverified"
       THEN userLock' = [userLock EXCEPT ![job[r].user] = r]
       ELSE UNCHANGED userLock
    /\ Goto(r, "found")
    /\ job' = [job EXCEPT ![r].houses = HousesOf(job[r].user)]
    /\ UNCHANGED <<accounts, houses, session, inviteLock, bounds, history>>

\* The rest of the transaction: a household unless there is one, the link.
VerifyCommit(r) ==
    /\ pc[r] = "found" /\ Exists(job[r].user)
    /\ LET u == job[r].user IN
         /\ \/ /\ job[r].houses # {}
               /\ \E h \in job[r].houses : job' = [job EXCEPT ![r].house = h]
               /\ UNCHANGED <<house, member, founded>>
            \/ /\ job[r].houses = {}
               /\ \E h \in Houses :
                    /\ house[h] = "free"
                    /\ house' = [house EXCEPT ![h] = "live"]
                    /\ member' = [member EXCEPT ![h][u] = Admin]
                    /\ job' = [job EXCEPT ![r].house = h]
               /\ founded' = [founded EXCEPT ![u] = @ + 1]
         /\ account' = [account EXCEPT ![u] = "verified"]
         /\ verification' = [verification EXCEPT ![u][job[r].token] = "used"]
    /\ Goto(r, "session") /\ Release(r)
    /\ ContestJoin(r, job'[r].house)
    /\ UNCHANGED <<password, reset, invitation, session, bounds, departed, early,
                   strayed>>

\* createSession after the transaction of verify-email, or of an acceptance.
OpenSession(r) ==
    /\ pc[r] = "session"
    /\ LET u == job[r].user IN
         IF Exists(u) /\ house[job[r].house] = "live"
         THEN NewSession(u, job[r].house, password[u])
         ELSE UNCHANGED <<session, early, strayed>>
    /\ End(r)
    /\ UNCHANGED <<accounts, houses, locks, bounds, founded, departed, contested>>

-----------------------------------------------------------------------------
(* Invitations: POST and DELETE under /api/tenants/:id/invitations, POST   *)
(* /api/invitations/:token/accept; the operator's POST /api/system/tenants *)
(* makes a household with an invitation for its first admin.               *)

\* requireHouseholdSeat counts those who are in, not those who are invited.
Invite(s, i, role) ==
    /\ starts < MaxStarts /\ starts' = starts + 1
    /\ session[s] # NoSession /\ invitation[i] = NoInvite
    /\ \E h \in HousesOf(session[s].user) :
         /\ member[h][session[s].user] = Admin
         /\ Cardinality(Members(h)) < Seats
         /\ invitation' = [invitation EXCEPT
                             ![i] = [state |-> "live", house |-> h, role |-> role]]
    /\ UNCHANGED <<accounts, house, member, session, locks, pc, job, failures, history>>

SystemTenant(h) ==
    /\ starts < MaxStarts /\ starts' = starts + 1
    /\ house[h] = "free" /\ house' = [house EXCEPT ![h] = "live"]
    /\ UNCHANGED <<accounts, member, invitation, session, locks, pc, job, failures, history>>

\* The operator's invitation: to any household, whatever its seats.
AdminInvite(h, i) ==
    /\ starts < MaxStarts /\ starts' = starts + 1
    /\ house[h] = "live" /\ invitation[i] = NoInvite
    /\ invitation' = [invitation EXCEPT ![i] = [state |-> "live", house |-> h, role |-> Admin]]
    /\ UNCHANGED <<accounts, house, member, session, locks, pc, job, failures, history>>

Revoke(s, i) ==
    /\ invitation[i].state \in {"live", "used"} /\ inviteLock[i] = None
    /\ session[s] # NoSession /\ session[s].user \in Admins(invitation[i].house)
    /\ invitation' = [invitation EXCEPT ![i].state = "revoked"]
    /\ UNCHANGED <<accounts, house, member, session, locks, pc, job, bounds, history>>

\* A mutant of AcceptLock: SELECT without FOR UPDATE.
AcceptUnlocked(r, i, u) ==
    /\ invitation[i].state = "live" /\ account[u] # "gone"
    /\ Begin(r, "join", [NoJob EXCEPT !.user = u, !.token = i,
                                      !.house = invitation[i].house])
    /\ UNCHANGED <<accounts, houses, session, locks, failures, history>>

\* SELECT ... FOR UPDATE: a second acceptance waits here, and finds it used.
AcceptLock(r, i, u) ==
    /\ inviteLock[i] = None /\ invitation[i].state = "live" /\ account[u] # "gone"
    /\ Begin(r, "join", [NoJob EXCEPT !.user = u, !.token = i,
                                      !.house = invitation[i].house])
    /\ inviteLock' = [inviteLock EXCEPT ![i] = r]
    /\ UNCHANGED <<accounts, houses, session, userLock, failures, history>>

\* The user, new or known, is taken as verified; ON CONFLICT keeps a role.
AcceptCommit(r) ==
    /\ pc[r] = "join" /\ Free(job[r].user) /\ house[job[r].house] = "live"
    /\ account[job[r].user] # "gone"
    /\ LET u == job[r].user IN
         /\ account' = [account EXCEPT ![u] = "verified"]
         /\ member' = [member EXCEPT ![job[r].house][u] =
                         IF @ = None THEN invitation[job[r].token].role ELSE @]
    /\ invitation' = [invitation EXCEPT ![job[r].token].state = "used"]
    /\ Goto(r, "session") /\ Release(r) /\ UNCHANGED job
    /\ ContestJoin(r, job[r].house)
    /\ UNCHANGED <<password, verification, reset, house, session, bounds, founded,
                   departed, early, strayed>>

-----------------------------------------------------------------------------
(* Sessions: POST /api/auth/login, /logout, /api/tenants/switch.           *)

Login(r, u) ==
    /\ account[u] = "verified"
    /\ Begin(r, "loggedIn", [NoJob EXCEPT !.user = u, !.password = password[u]])
    /\ UNCHANGED <<accounts, houses, session, locks, failures, history>>

\* activeTenantForUser, and the session the browser came with is dropped.
LoginTenant(r, old) ==
    /\ pc[r] = "loggedIn"
    /\ IF HousesOf(job[r].user) = {}
       THEN End(r) /\ UNCHANGED session
       ELSE /\ \E h \in HousesOf(job[r].user) : job' = [job EXCEPT ![r].house = h]
            /\ Goto(r, "open")
            /\ session' = IF old = None THEN session ELSE [session EXCEPT ![old] = NoSession]
    /\ UNCHANGED <<accounts, houses, locks, bounds, history>>

LoginSession(r) ==
    /\ pc[r] = "open"
    /\ LET u == job[r].user IN
         IF Exists(u) /\ house[job[r].house] = "live"
         THEN NewSession(u, job[r].house, job[r].password)
         ELSE UNCHANGED <<session, early, strayed>>      \* the foreign keys refuse it
    /\ End(r)
    /\ UNCHANGED <<accounts, houses, locks, bounds, founded, departed, contested>>

Logout(s) ==
    /\ session[s] # NoSession
    /\ session' = [session EXCEPT ![s] = NoSession]
    /\ UNCHANGED <<accounts, houses, locks, pc, job, bounds, history>>

SwitchLook(r, s, h) ==
    /\ session[s] # NoSession /\ member[h][session[s].user] # None
    /\ Begin(r, "switch", [NoJob EXCEPT !.session = s, !.house = h,
                                        !.user = session[s].user])
    /\ UNCHANGED <<accounts, houses, session, locks, failures, history>>

SetSessionTenant(r) ==
    /\ pc[r] = "switch"
    /\ IF session[job[r].session].user = job[r].user /\ house[job[r].house] = "live"
       THEN /\ session' = [session EXCEPT ![job[r].session].house = job[r].house]
            /\ Place(job[r].session, job[r].user, job[r].house)
       ELSE UNCHANGED <<session, strayed>>
    /\ End(r)
    /\ UNCHANGED <<accounts, houses, locks, bounds, founded, departed, contested, early>>

\* The preHandler of app.ts: loadSession ...
Arrive(r, s) ==
    /\ session[s] # NoSession /\ session[s].house # None
    /\ LET u == session[s].user h == session[s].house IN
         Begin(r, "gate", [NoJob EXCEPT !.user = u, !.house = h])
    /\ UNCHANGED <<accounts, houses, session, locks, failures, history>>

\* ... and the membership, without which the request has no household.
Gate(r) ==
    /\ pc[r] = "gate"
    /\ IF member[job[r].house][job[r].user] # None
       THEN Goto(r, "act") /\ UNCHANGED job
       ELSE End(r)
    /\ UNCHANGED <<accounts, houses, session, locks, bounds, history>>

Act(r) ==
    /\ pc[r] = "act" /\ End(r)
    /\ UNCHANGED <<accounts, houses, session, locks, bounds, history>>

-----------------------------------------------------------------------------
(* Leaving: DELETE /api/tenants/:id/members/:userId, DELETE                *)
(* /api/me/account, the operator's DELETE /api/system/tenants/:id.         *)

\* Requests about to take a member out of h.
Leaving(h) ==
    {r \in Requests : \/ pc[r] = "remove" /\ job[r].house = h
                      \/ pc[r] = "erase" /\ member[h][job[r].user] # None}
Contest(hs) == contested' = contested \cup {h \in hs : Leaving(h) # {}}

RemoveLook(r, s, h, u) ==
    /\ session[s] # NoSession /\ member[h][session[s].user] = Admin
    /\ u # session[s].user /\ member[h][u] # None
    /\ Begin(r, "remove", [NoJob EXCEPT !.user = u, !.house = h])
    /\ Contest({h})
    /\ UNCHANGED <<accounts, houses, session, locks, failures, founded, departed, early,
                   strayed>>

RemoveMember(r) ==
    /\ pc[r] = "remove"
    /\ member' = [member EXCEPT ![job[r].house][job[r].user] = None]
    /\ departed' = departed \cup {job[r].user}
    /\ Goto(r, "unseat") /\ UNCHANGED job
    /\ UNCHANGED <<accounts, house, invitation, session, locks, bounds, founded,
                   contested, early, strayed>>

\* A session of the member being removed, in the household.
Affected(se, j) == se.user = j.user /\ se.house = j.house

\* A mutant of Unseat: the browser that comes first is the only one.
UnseatOne(r) ==
    /\ pc[r] = "unseat"
    /\ \E s \in Sessions :
         session' = [session EXCEPT ![s] =
                       IF Affected(@, job[r])
                       THEN [@ EXCEPT !.house = None] ELSE @]
    /\ End(r)
    /\ UNCHANGED <<accounts, houses, locks, bounds, history>>

\* The sessions of the removed member lose the household.
Unseat(r) ==
    /\ pc[r] = "unseat"
    /\ session' = [s \in Sessions |->
                     IF Affected(session[s], job[r])
                     THEN [session[s] EXCEPT !.house = None] ELSE session[s]]
    /\ End(r)
    /\ UNCHANGED <<accounts, houses, locks, bounds, history>>

\* ON DELETE CASCADE: memberships and invitations go, sessions stay.
DropHouses(hs, m, se) ==
    /\ house' = [h \in Houses |-> IF h \in hs /\ house[h] = "live" THEN "gone" ELSE house[h]]
    /\ member' = [h \in Houses |-> IF h \in hs THEN [u \in Users |-> None] ELSE m[h]]
    /\ invitation' = [i \in Invites |-> IF invitation[i].house \in hs
                        THEN [invitation[i] EXCEPT !.state = "gone"] ELSE invitation[i]]
    /\ session' = [s \in Sessions |-> IF se[s].house \in hs
                     THEN [se[s] EXCEPT !.house = None] ELSE se[s]]
    /\ departed' = departed \cup {u \in Users : \E h \in hs : member[h][u] # None}

\* A mutant of DeleteLook: the households are not looked for.
DeleteUserOnly(r, s) ==
    /\ session[s] # NoSession
    /\ Begin(r, "erase", [NoJob EXCEPT !.user = session[s].user])
    /\ Contest(HousesOf(session[s].user))
    /\ UNCHANGED <<accounts, houses, session, locks, failures, founded, departed, early,
                   strayed>>

\* The households whose only admin is the user; Stripe and the files follow.
DeleteLook(r, s) ==
    /\ session[s] # NoSession
    /\ LET u == session[s].user IN
         /\ Begin(r, "erase", [NoJob EXCEPT !.user = u,
                                            !.houses = {h \in Houses : Admins(h) = {u}}])
         /\ Contest(HousesOf(u))
    /\ UNCHANGED <<accounts, houses, session, locks, failures, founded, departed, early,
                   strayed>>

DeleteCommit(r) ==
    /\ pc[r] = "erase"
    /\ LET u == job[r].user
           hs == job[r].houses IN
         /\ Free(u)
         /\ \A i \in Invites : invitation[i].house \in hs => inviteLock[i] = None
         /\ account' = [account EXCEPT ![u] = "gone"]
         /\ verification' = [verification EXCEPT ![u] = [k \in Tokens |-> "none"]]
         /\ reset' = [reset EXCEPT ![u] = "none"]
         /\ DropHouses(hs, [h \in Houses |-> [member[h] EXCEPT ![u] = None]],
                       [s \in Sessions |-> IF session[s].user = u THEN NoSession ELSE session[s]])
         /\ early' = early \ SessionsOf(u)
    /\ End(r)
    /\ UNCHANGED <<password, locks, bounds, founded, contested, strayed>>

SystemDelete(h) ==
    /\ starts < MaxStarts /\ starts' = starts + 1
    /\ house[h] = "live"
    /\ \A i \in Invites : invitation[i].house = h => inviteLock[i] = None
    /\ DropHouses({h}, member, session)
    /\ UNCHANGED <<accounts, locks, pc, job, failures, founded, contested, early, strayed>>

-----------------------------------------------------------------------------
(* POST /api/auth/password-reset-request and -confirm.                     *)

\* A recent link that is not used makes the request do nothing.
ResetRequest(u) ==
    /\ starts < MaxStarts /\ starts' = starts + 1
    /\ Exists(u) /\ reset[u] # "live"
    /\ reset' = [reset EXCEPT ![u] = "live"]
    /\ UNCHANGED <<account, password, verification, houses, session, locks, pc, job,
                   failures, history>>

ResetLoad(r, u) ==
    /\ reset[u] = "live"
    /\ Begin(r, "setPassword", [NoJob EXCEPT !.user = u])
    /\ UNCHANGED <<accounts, houses, session, locks, failures, history>>

\* The transaction: the hash, this link, all other links.
ResetCommit(r) ==
    /\ pc[r] = "setPassword" /\ Free(job[r].user)
    /\ IF ~Exists(job[r].user)
       THEN UNCHANGED <<password, reset>>
       ELSE /\ password' = [password EXCEPT ![job[r].user] = @ + 1]
            /\ reset' = [reset EXCEPT ![job[r].user] = "used"]
    /\ Goto(r, "endSessions") /\ UNCHANGED job
    /\ UNCHANGED <<account, verification, houses, session, locks, bounds, history>>

\* A mutant of EndSessions: one browser is logged out.
EndOneSession(r) ==
    /\ pc[r] = "endSessions"
    /\ \E s \in Sessions : session' = [session EXCEPT ![s] =
                              IF @.user = job[r].user THEN NoSession ELSE @]
    /\ End(r)
    /\ UNCHANGED <<accounts, houses, locks, bounds, history>>

\* deleteAllSessionsForUser
EndSessions(r) ==
    /\ pc[r] = "endSessions"
    /\ session' = [s \in Sessions |->
                     IF session[s].user = job[r].user THEN NoSession ELSE session[s]]
    /\ End(r)
    /\ UNCHANGED <<accounts, houses, locks, bounds, history>>

-----------------------------------------------------------------------------

\* A statement fails or the server dies: a transaction is rolled back, what
\* came before it stays.
Abort(r) ==
    /\ pc[r] # "idle" /\ failures < MaxFailures /\ failures' = failures + 1
    /\ End(r) /\ Release(r)
    /\ early' = IF pc[r] = "endSessions" THEN early \cup SessionsOf(job[r].user) ELSE early
    /\ strayed' = IF pc[r] = "unseat"
                  THEN strayed \cup {s \in Sessions : Affected(session[s], job[r])} ELSE strayed
    /\ UNCHANGED <<accounts, houses, session, starts, founded, departed, contested>>

\* What a transaction needs is gone: an error, and nothing written.
Refused(r) ==
    /\ \/ pc[r] = "found" /\ ~Exists(job[r].user)
       \/ pc[r] = "join" /\ (house[job[r].house] # "live" \/ account[job[r].user] = "gone")
    /\ End(r) /\ Release(r)
    /\ UNCHANGED <<accounts, houses, session, bounds, history>>

Next ==
    \/ \E u \in Users, k \in Tokens : Signup(u, k)
    \/ \E r \in Requests, u \in Users, k \in Tokens : VerifyLoad(r, u, k)
    \/ \E s \in Sessions, i \in Invites, role \in Roles : Invite(s, i, role)
    \/ \E h \in Houses, i \in Invites : AdminInvite(h, i)
    \/ \E s \in Sessions, i \in Invites : Revoke(s, i)
    \/ \E r \in Requests, i \in Invites, u \in Users : AcceptLock(r, i, u)
    \/ \E r \in Requests, u \in Users : Login(r, u) \/ ResetLoad(r, u)
    \/ \E r \in Requests, s \in Sessions \cup {None} : LoginTenant(r, s)
    \/ \E s \in Sessions : Logout(s)
    \/ \E r \in Requests, s \in Sessions, h \in Houses : SwitchLook(r, s, h)
    \/ \E r \in Requests, s \in Sessions : Arrive(r, s) \/ DeleteLook(r, s)
    \/ \E r \in Requests, s \in Sessions, h \in Houses, u \in Users : RemoveLook(r, s, h, u)
    \/ \E h \in Houses : SystemTenant(h) \/ SystemDelete(h)
    \/ \E u \in Users : ResetRequest(u)
    \/ \E r \in Requests :
         \/ VerifyLock(r) \/ VerifyCommit(r) \/ AcceptCommit(r) \/ OpenSession(r)
         \/ LoginSession(r) \/ SetSessionTenant(r) \/ Gate(r) \/ Act(r)
         \/ RemoveMember(r) \/ Unseat(r) \/ DeleteCommit(r)
         \/ ResetCommit(r) \/ EndSessions(r) \/ Abort(r) \/ Refused(r)

Spec == Init /\ [][Next]_vars

-----------------------------------------------------------------------------
(* Properties.                                                             *)

\* However many of a user's links are opened at once, with an acceptance
\* beside them, verification founds one household.
OneHousehold == \A u \in Users \ departed : founded[u] <= 1

\* Nobody becomes a member but by founding a household, or by an invitation
\* that nobody else gets in by.
JoinsByInvitation ==
    \A h \in Houses, u \in Users :
      member[h][u] = None /\ member'[h][u] # None =>
        \/ house[h] = "free"
        \/ \E i \in Invites : /\ invitation[i].house = h
                            /\ invitation[i].state = "live"
                            /\ invitation'[i].state = "used"
JoiningConsumes == [][JoinsByInvitation]_vars

\* A session stands only in a household its user is in, but for the moment
\* between the two statements of a removal, and for the sessions in "strayed":
\* those an overlapping switch or login wrote back, which the gate refuses.
SessionsInside ==
    \A s \in Sessions \ strayed :
      LET h == session[s].house u == session[s].user IN
        h # None /\ member[h][u] = None =>
          \E r \in Requests : pc[r] = "unseat" /\ Affected(session[s], job[r])

\* A household does not lose its last admin and stay: who takes the last one
\* out takes the household with it, unless two who leave do not see each other.
LastAdminOut ==
    \A h \in Houses \ contested' :
      Admins(h) # {} /\ house'[h] = "live" => \E u \in Users : member'[h][u] = Admin
AdminRemains == [][LastAdminOut]_vars

\* Once a reset is done there is no session of before it, except one whose
\* login had checked the old password already.
OldPasswordOut ==
    \A s \in Sessions \ early :
        session[s] # NoSession /\ session[s].password < password[session[s].user]
        => \E r \in Requests : pc[r] = "endSessions" /\ job[r].user = session[s].user

=============================================================================
