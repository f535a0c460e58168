--------------------------- MODULE AdminSessions ---------------------------
(***************************************************************************)
(* Admin accounts and their sessions (src/app/features/admin/router.py and *)
(* service.py).  A request authenticates by its session row, then by the   *)
(* account; a super admin's request then loads its target; what it writes  *)
(* commits last, with the revocation of sessions, under the lock of the    *)
(* account's row.  An UPDATE names only the columns whose new value        *)
(* differs from the one that was loaded.                                   *)
(*                                                                         *)
(* Left out: the audit rows that commit with each change, and last_seen,   *)
(* which only shows who is online.                                         *)
(***************************************************************************)
EXTENDS Naturals, FiniteSets

CONSTANTS
    Admins,             \* regular admins
    Chief,              \* the super admin
    OwnPasswords,       \* what admins choose
    MaxAdminRequests,   \* bound: requests and logins
    AdminWorkers

ASSUME AdminAssumption ==
    /\ Chief \notin Admins /\ IsFiniteSet(Admins)
    /\ OwnPasswords # {} /\ MaxAdminRequests \in Nat

Accounts == Admins \union {Chief}

VARIABLES
    account,        \* the rows of users
    sessions,       \* the rows of admin_sessions
    desk,           \* worker -> the request it serves
    asked           \* how many requests and logins have begun

adminVars == <<account, sessions, desk, asked>>

\* epoch, a history: how often its sessions had to be revoked.
\* stale, a history: its last reset had loaded the row before a change of it.
NoAccount == [exists |-> FALSE]
NewAccount(pw) == [exists |-> TRUE, password |-> pw, must |-> TRUE, active |-> TRUE,
                   epoch |-> 0, stale |-> FALSE]
Away == [at |-> "away"]

Temporary(n) == [kind |-> "temporary", n |-> n]
Own(p)       == [kind |-> "own", n |-> p]

SessionOf(u, n) == [id |-> <<u, n>>, owner |-> u, openedAt |-> account[u].epoch,
                    revoked |-> FALSE, expired |-> FALSE]

Revoked_Expired(u) ==     \* mutant: only the expired ones
    {IF s.owner = u /\ s.expired THEN [s EXCEPT !.revoked = TRUE] ELSE s : s \in sessions}

\* revoke_sessions
Revoked(u) == {IF s.owner = u THEN [s EXCEPT !.revoked = TRUE] ELSE s : s \in sessions}

-----------------------------------------------------------------------------
\* Both admins are signed in; the regular one still has the password it was given.
AdminInit ==
    /\ account \in [Accounts -> {NoAccount, NewAccount(Temporary(0)),
                    [NewAccount(Own(CHOOSE p \in OwnPasswords : TRUE)) EXCEPT !.must = FALSE]}]
    /\ account[Chief].exists /\ ~account[Chief].must
    /\ sessions = {SessionOf(u, 0) : u \in {v \in Accounts : account[v].exists}}
    /\ desk = [w \in AdminWorkers |-> Away]
    /\ asked = 0

Sits(w, step)  == desk[w].at = step
Continues(w, job)  == desk' = [desk EXCEPT ![w] = job] /\ UNCHANGED asked
Leaves(w)      == Continues(w, Away)

Begins(w, job) ==
    /\ desk[w] = Away /\ asked < MaxAdminRequests
    /\ desk' = [desk EXCEPT ![w] = job]
    /\ asked' = asked + 1
    /\ UNCHANGED <<account, sessions>>

\* login: the password is compared with the row that was read.
Login(w, u) ==
    /\ account[u].exists /\ account[u].active
    /\ Begins(w, [at |-> "login", owner |-> u, no |-> asked + 1])

OpenSession(w) ==
    /\ Sits(w, "login") /\ Leaves(w)
    /\ sessions' = sessions \union {SessionOf(desk[w].owner, desk[w].no)}
    /\ UNCHANGED account

\* current_admin: the session row, then the account.
CheckSession(w, s, kind, target) ==
    /\ ~s.revoked /\ ~s.expired
    /\ Begins(w, [at |-> "session", session |-> s, kind |-> kind, target |-> target,
                  no |-> asked + 1])

\* ready_admin and super_admin for what only a super admin may do.
Allowed(u, kind) ==
    /\ account[u].active
    /\ kind \notin {"change", "logout"} => ~account[u].must /\ u = Chief

LoadAccount(w) ==
    /\ Sits(w, "session")
    /\ LET j == desk[w]  u == j.session.owner IN
       IF Allowed(u, j.kind)
       THEN Continues(w, [at |-> j.kind, session |-> j.session, target |-> j.target,
                      no |-> j.no, row |-> account[u]])
       ELSE Leaves(w)
    /\ UNCHANGED <<account, sessions>>

LoadTarget(w) ==
    /\ desk[w].at \in {"reset", "enable", "disable", "create"}
    /\ LET j == desk[w] IN
       IF account[j.target].exists = (j.at # "create")
       THEN Continues(w, [at |-> "write", kind |-> j.at, target |-> j.target, no |-> j.no,
                      row |-> account[j.target]])
       ELSE Leaves(w)
    /\ UNCHANGED <<account, sessions>>

-----------------------------------------------------------------------------
\* The two columns a change or a reset sets; must only if it was loaded different.
WithPassword(u, pw, must, row) ==
    [account[u] EXCEPT !.password = pw, !.epoch = @ + 1,
        !.must = IF row.must = must THEN @ ELSE must,
        !.stale = must /\ row # account[u]]

ChangePassword(w, current, new) ==
    /\ Sits(w, "change") /\ Leaves(w)
    /\ LET j == desk[w]  u == j.session.owner IN
       IF j.row.password # current \/ current = new THEN UNCHANGED <<account, sessions>>
       ELSE /\ account' = [account EXCEPT ![u] = WithPassword(u, new, FALSE, j.row)]
            /\ sessions' = Revoked(u) \union
                 {[SessionOf(u, j.no) EXCEPT !.openedAt = account[u].epoch + 1]}

Logout(w) ==
    /\ Sits(w, "logout") /\ Leaves(w)
    /\ sessions' = {IF s.id = desk[w].session.id THEN [s EXCEPT !.revoked = TRUE] ELSE s : s \in sessions}
    /\ UNCHANGED account

ResetPassword(w) ==
    /\ Sits(w, "write") /\ desk[w].kind = "reset" /\ Leaves(w)
    /\ LET j == desk[w] IN
       /\ account' = [account EXCEPT ![j.target] =
                        WithPassword(j.target, Temporary(j.no), TRUE, j.row)]
       /\ sessions' = Revoked(j.target)

SetStatus(w) ==
    /\ Sits(w, "write") /\ desk[w].kind \in {"enable", "disable"} /\ Leaves(w)
    /\ LET u == desk[w].target  on == desk[w].kind = "enable" IN
       IF desk[w].row.active = on THEN UNCHANGED <<account, sessions>>
       ELSE /\ account' = [account EXCEPT ![u].active = on,
                                          ![u].epoch = IF on THEN @ ELSE @ + 1]
            /\ sessions' = IF on THEN sessions ELSE Revoked(u)

\* The login id is unique: the second of two creations is refused.
CreateAdmin(w) ==
    /\ Sits(w, "write") /\ desk[w].kind = "create" /\ Leaves(w)
    /\ LET u == desk[w].target IN
       account' = IF account[u].exists THEN account
                  ELSE [account EXCEPT ![u] = NewAccount(Temporary(desk[w].no))]
    /\ UNCHANGED sessions

\* Twelve hours pass for a session.
Expire(s) ==
    /\ ~s.expired
    /\ sessions' = (sessions \ {s}) \union {[s EXCEPT !.expired = TRUE]}
    /\ UNCHANGED <<account, desk, asked>>

Known == {account[u].password : u \in {v \in Accounts : account[v].exists}}

AdminNext ==
    \/ \E s \in sessions : Expire(s)
    \/ \E w \in AdminWorkers :
        \/ OpenSession(w) \/ LoadAccount(w) \/ LoadTarget(w)
        \/ Logout(w) \/ ResetPassword(w) \/ SetStatus(w) \/ CreateAdmin(w)
        \/ \E u \in Accounts : Login(w, u)
        \/ \E s \in sessions : \/ CheckSession(w, s, "change", s.owner)
                               \/ CheckSession(w, s, "logout", s.owner)
        \/ \E s \in sessions, u \in Admins, kind \in {"reset", "enable", "disable", "create"} :
              s.owner = Chief /\ CheckSession(w, s, kind, u)
        \/ \E p \in OwnPasswords, known \in Known : ChangePassword(w, known, Own(p))

AdminSpec == AdminInit /\ [][AdminNext]_adminVars

-----------------------------------------------------------------------------
AdminTypeOK ==
    /\ \A u \in Accounts : account[u].exists =>
         /\ account[u].password.kind \in {"temporary", "own"}
         /\ {account[u].must, account[u].active} \subseteq BOOLEAN
    /\ \A s \in sessions : s.owner \in Accounts /\ account[s.owner].exists
    /\ Cardinality({s.id : s \in sessions}) = Cardinality(sessions)
    /\ asked \in 0..MaxAdminRequests

(* A reset, a change of password and a disabling take hold: a session that *)
(* is not revoked was committed after the last of them, so only a login    *)
(* that was under way can survive one (admin/service.py:45); and an admin  *)
(* with a password it was given must change it, unless the reset had       *)
(* loaded the account before a change that committed first.                *)
ResetTakesHold ==
    /\ \A s \in sessions : ~s.revoked => s.openedAt = account[s.owner].epoch
    /\ \A u \in Accounts : (account[u].exists /\ account[u].password.kind = "temporary") =>
         account[u].must \/ account[u].stale
=============================================================================
