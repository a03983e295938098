---------------------------- MODULE UserAccounts ----------------------------
(***************************************************************************)
(* The table users. An admin creates, edits and deletes accounts, a user   *)
(* edits their own, an OIDC login finds the account of its subject, links  *)
(* one by a verified email, or provisions one, and a login by password     *)
(* reads one. All that write, but for create and delete, read a whole row, *)
(* change the copy and write the whole copy back.                          *)
(*                                                                         *)
(* A step is one SQL statement, or one critical section of the provider's  *)
(* mutex. The exchange of the code with the identity provider, which takes *)
(* as long as it likes, lies between two steps.                            *)
(***************************************************************************)
EXTENDS Integers, FiniteSets

CONSTANTS
    UserIds,            \* ids of accounts; each is used once
    Emails,
    NoEmail,            \* the email of somebody whose provider does not tell it
    Subjects,           \* subjects of the identity provider
    NoSubject,          \* the account of somebody who never came through it
    Logins,             \* concurrent request goroutines
    NoUser,             \* a request that has found no account yet
    States,             \* values of the OIDC parameter state
    Given,              \* bound: the roles that admins give
    EnvRole,            \* OIDC_DEFAULT_ROLE, or ""
    AutoProvision       \* OIDC_AUTO_PROVISION

Roles == {"admin", "user", "viewer"}

ASSUME AccountConstants ==
    /\ NoSubject \notin Subjects
    /\ NoEmail \notin Emails
    /\ NoUser \notin UserIds
    /\ Given \subseteq Roles
    /\ EnvRole \in Roles \union {""}
    /\ AutoProvision \in BOOLEAN

VARIABLES
    account,            \* [UserIds -> Account]: the table users
    pending,            \* states of the logins under way
    login,              \* [Logins -> Login]
    outdated,           \* history: requests whose row was written since they read it
    promoted,           \* history: accounts an admin gave the role admin, and
    disabled            \* history: accounts an admin deactivated; unless somebody decided
                        \* otherwise later, or an outdated request wrote the old row back

accountHistory == <<outdated, promoted, disabled>>
accountVars == <<account, pending, login, accountHistory>>

Account == [state : {"new", "live", "gone"}, email : Emails \union {NoEmail},
            subject : Subjects \union {NoSubject}, role : Roles, active : BOOLEAN]

LoginPCs == {"idle", "exchanging", "updating", "byEmail", "linking", "provisioning",
             "granted", "inserting", "saving"}

\* What only an admin decides
Decided == {"role", "active"}

\* who, email: the claims of the ID token; copy: the row as read and changed;
\* decides: what an admin asks it to set; barred: the account was deactivated when read
Login == [pc : LoginPCs, who : Subjects \union {NoSubject}, email : Emails \union {NoEmail},
          user : UserIds \union {NoUser}, copy : Account, decides : SUBSET Decided,
          barred : BOOLEAN]

NoAccount == [state |-> "new", email |-> NoEmail, subject |-> NoSubject, role |-> "viewer",
              active |-> FALSE]
NoLogin == [pc |-> "idle", who |-> NoSubject, email |-> NoEmail,
            user |-> NoUser, copy |-> NoAccount, decides |-> {}, barred |-> FALSE]

AccountsTypeOK ==
    /\ account \in [UserIds -> Account]
    /\ pending \subseteq States
    /\ login \in [Logins -> Login]
    /\ \A p \in Logins :
        login[p].pc \in {"updating", "linking", "saving"} => login[p].user \in UserIds
    /\ outdated \subseteq Logins /\ promoted \subseteq UserIds /\ disabled \subseteq UserIds

AccountsInit ==
    /\ account = [u \in UserIds |-> NoAccount]
    /\ pending = {}
    /\ login = [p \in Logins |-> NoLogin]
    /\ outdated = {} /\ promoted = {} /\ disabled = {}

-----------------------------------------------------------------------------
(* The table *)

Live == {u \in UserIds : account[u].state = "live"}

\* UNIQUE(email), and UNIQUE(oidc_subject, oidc_issuer) where NULLs differ
Unique(u, row) ==
    \A v \in Live \ {u} :
        /\ account[v].email # row.email
        /\ row.subject # NoSubject => account[v].subject # row.subject

\* The statement INSERT: a new id, or it fails
CanInsert(u, row) == account[u].state = "new" /\ Unique(u, row)
Insert(u, row) == account' = [account EXCEPT ![u] = row]

\* Requests that hold a copy of the row and will write it
Holders(u) ==
    {q \in Logins : login[q].pc \in {"updating", "linking", "saving"} /\ login[q].user = u}

Noted(S, u, holds) == IF holds THEN S \union {u} ELSE S \ {u}

\* The statement UPDATE ... WHERE id = ? of a request's whole copy: no row, no error
UpdateUser(p) ==
    LET u == login[p].user
        row == login[p].copy
        Sets(column) == column \in login[p].decides \/ p \in outdated
    IN  \/ /\ u \in Live /\ Unique(u, row)
           /\ account' = [account EXCEPT ![u] = row]
           /\ promoted' = IF Sets("role")
                          THEN Noted(promoted, u, row.role = "admin") ELSE promoted
           /\ disabled' = IF Sets("active") THEN Noted(disabled, u, ~row.active) ELSE disabled
           /\ outdated' = (outdated \union Holders(u)) \ {p}
        \/ /\ u \notin Live
           /\ outdated' = outdated \ {p}
           /\ UNCHANGED <<account, promoted, disabled>>

\* It breaks UNIQUE, or the database is busy
UpdateFails(p) ==
    /\ outdated' = outdated \ {p}
    /\ UNCHANGED <<account, promoted, disabled>>

ByEmail(e) == {u \in Live : account[u].email = e}
BySubject(s) == {u \in Live : account[u].subject = s}

Step(p, pc) == login' = [login EXCEPT ![p].pc = pc]
EndLogin(p) == login' = [login EXCEPT ![p] = NoLogin]
Take(p, pc, u, row, decides) ==
    login' = [login EXCEPT ![p] = [NoLogin EXCEPT !.pc = pc, !.user = u, !.copy = row,
                                        !.decides = decides, !.barred = u \in disabled]]

NotFound(p, pc, who, e) ==
    login' = [login EXCEPT ![p] = [NoLogin EXCEPT !.pc = pc, !.who = who, !.email = e]]

\* CallbackHandler: an account whose copy is not active gets no session
Admit(p, row, barred) ==
    IF row.active
    THEN login' = [login EXCEPT ![p] = [NoLogin EXCEPT !.pc = "granted", !.barred = barred]]
    ELSE EndLogin(p)

-----------------------------------------------------------------------------
(* OIDC: LoginHandler, then CallbackHandler *)

GenerateAuthURL(s) ==
    /\ s \notin pending
    /\ pending' = pending \union {s}
    /\ UNCHANGED <<account, login, accountHistory>>

\* The clean-up every five minutes, or a restart, which drops all of them
ForgetStates ==
    /\ \E S \in SUBSET pending : S # {} /\ pending' = pending \ S
    /\ UNCHANGED <<account, login, accountHistory>>

\* ExchangeCode: the state is taken, in time or not; then the provider is asked
TakeState(p, s) ==
    /\ login[p] = NoLogin
    /\ s \in pending
    /\ pending' = pending \ {s}
    /\ Step(p, "exchanging")
    /\ UNCHANGED <<account, accountHistory>>

ExchangeFails(p) ==
    /\ login[p].pc = "exchanging"
    /\ EndLogin(p)
    /\ UNCHANGED <<account, pending, accountHistory>>

\* The provider has said who it is and, perhaps, an email and whether it is verified;
\* the account of the subject is read, and a verified new email replaces the old one
FindBySubject(p, who, e, verified) ==
    /\ login[p].pc = "exchanging"
    /\ \/ \E u \in BySubject(who) :
            Take(p, "updating", u,
                 [account[u] EXCEPT !.email = IF verified /\ e # NoEmail THEN e ELSE @], {})
       \/ /\ BySubject(who) = {} /\ verified /\ e # NoEmail
          /\ NotFound(p, "byEmail", who, e)
       \/ /\ BySubject(who) = {} /\ e = NoEmail /\ AutoProvision
          /\ NotFound(p, "provisioning", who, e)
       \/ /\ BySubject(who) = {}
          /\ IF e = NoEmail THEN ~AutoProvision ELSE ~verified
          /\ EndLogin(p)
    /\ UNCHANGED <<account, pending, accountHistory>>

\* UpdateUser with the new last_login_at; an error is only logged
SaveLogin(p) ==
    LET l == login[p]
    IN  /\ l.pc = "updating"
        /\ UpdateUser(p) \/ UpdateFails(p)
        /\ Admit(p, l.copy, l.barred)
        /\ UNCHANGED pending

\* mutant: linking makes the account usable
Linked_Active(p, u) == [account[u] EXCEPT !.subject = login[p].who, !.active = TRUE]

Linked(p, u) == [account[u] EXCEPT !.subject = login[p].who]

FindByEmail(p) ==
    LET l == login[p]
    IN  /\ l.pc = "byEmail"
        /\ \/ \E u \in ByEmail(l.email) : Take(p, "linking", u, Linked(p, u), {})
           \/ /\ ByEmail(l.email) = {}
              /\ IF AutoProvision THEN Step(p, "provisioning") ELSE EndLogin(p)
        /\ UNCHANGED <<account, pending, accountHistory>>

LinkAccount(p) ==
    LET l == login[p]
    IN  /\ l.pc = "linking"
        /\ \/ UpdateUser(p) /\ Admit(p, l.copy, l.barred)
           \/ UpdateFails(p) /\ EndLogin(p)
        /\ UNCHANGED pending

\* mutant: what the environment says
DefaultRole_Env == IF EnvRole = "" THEN "viewer" ELSE EnvRole

\* NewUserService: admin is refused
DefaultRole == IF EnvRole = "" THEN "viewer" ELSE IF EnvRole = "admin" THEN "user" ELSE EnvRole

\* allowAutoProvision and CreateUser; each may refuse
Provision(p) ==
    LET l == login[p]
        row == [state |-> "live", email |-> l.email, subject |-> l.who, role |-> DefaultRole,
                active |-> TRUE]
    IN  /\ l.pc = "provisioning"
        /\ \/ \E u \in UserIds : CanInsert(u, row) /\ Insert(u, row) /\ Admit(p, row, FALSE)
           \/ EndLogin(p) /\ UNCHANGED account
        /\ UNCHANGED <<pending, accountHistory>>

\* authenticateLocalUser: the password may be the one of an active account; what
\* LoginHandler asks besides is in AdminLogin
AuthenticateLocalUser(p, u) ==
    /\ login[p] = NoLogin
    /\ u \in Live
    /\ account[u].active
    /\ Admit(p, account[u], u \in disabled)
    /\ UNCHANGED <<account, pending, accountHistory>>

\* CreateSessionForUser, in the store of AdminSessions
SessionStarts(p) ==
    /\ login[p].pc = "granted"
    /\ EndLogin(p)
    /\ UNCHANGED <<account, pending, accountHistory>>

-----------------------------------------------------------------------------
(* handlers/users.go *)

\* CreateUser: is the email taken, then INSERT
BeginCreate(p, e, role) ==
    /\ login[p] = NoLogin
    /\ ByEmail(e) = {}
    /\ login' = [login EXCEPT ![p].pc = "inserting",
                    ![p].copy = [state |-> "live", email |-> e, subject |-> NoSubject,
                                 role |-> role, active |-> TRUE]]
    /\ UNCHANGED <<account, pending, accountHistory>>

InsertUser(p) ==
    LET row == login[p].copy
    IN  /\ login[p].pc = "inserting"
        /\ \/ \E u \in UserIds :
                /\ CanInsert(u, row) /\ Insert(u, row)
                /\ promoted' = IF row.role = "admin" THEN promoted \union {u} ELSE promoted
           \/ UNCHANGED <<account, promoted>>
        /\ EndLogin(p)
        /\ UNCHANGED <<pending, outdated, disabled>>

\* UpdateUser: the row is read and changed, email, role and state perhaps not; a new
\* email must be free
BeginEditUser(p, u, e, role, active, decides) ==
    /\ login[p] = NoLogin
    /\ u \in Live
    /\ ByEmail(e) \subseteq {u}
    /\ Take(p, "saving", u,
            [account[u] EXCEPT !.email = e,
                               !.role = IF "role" \in decides THEN role ELSE @,
                               !.active = IF "active" \in decides THEN active ELSE @],
            decides)
    /\ UNCHANGED <<account, pending, accountHistory>>

\* UpdateCurrentUser: name and password change, the rest is written as it was read
BeginEditProfile(p, u) ==
    /\ login[p] = NoLogin
    /\ u \in Live
    /\ Take(p, "saving", u, account[u], {})
    /\ UNCHANGED <<account, pending, accountHistory>>

SaveUser(p) ==
    /\ login[p].pc = "saving"
    /\ UpdateUser(p) \/ UpdateFails(p)
    /\ EndLogin(p)
    /\ UNCHANGED pending

\* DeleteUser, by somebody else than the user; the shares stay
DeleteUser(u) ==
    /\ u \in Live
    /\ account' = [account EXCEPT ![u] = [NoAccount EXCEPT !.state = "gone"]]
    /\ promoted' = promoted \ {u} /\ disabled' = disabled \ {u}
    /\ UNCHANGED <<pending, login, outdated>>

-----------------------------------------------------------------------------
OIDCLogin(p) ==
    \/ \E s \in States : TakeState(p, s)
    \/ \E who \in Subjects, e \in Emails \union {NoEmail}, verified \in BOOLEAN :
            FindBySubject(p, who, e, verified)
    \/ ExchangeFails(p) \/ SaveLogin(p) \/ FindByEmail(p)
    \/ LinkAccount(p) \/ Provision(p) \/ SessionStarts(p)

ManageUsers(p) ==
    \/ \E e \in Emails, role \in Given : BeginCreate(p, e, role)
    \/ \E u \in UserIds, active \in BOOLEAN, role \in Given, decides \in SUBSET Decided :
            \E e \in Emails \union {account[u].email} :
                BeginEditUser(p, u, e, role, active, decides)
    \/ \E u \in UserIds : BeginEditProfile(p, u)
    \/ InsertUser(p) \/ SaveUser(p)

AccountsNext ==
    \/ \E s \in States : GenerateAuthURL(s)
    \/ ForgetStates
    \/ \E p \in Logins : OIDCLogin(p) \/ ManageUsers(p)
    \/ \E p \in Logins, u \in UserIds : AuthenticateLocalUser(p, u)
    \/ \E u \in UserIds : DeleteUser(u)

AccountsSpec == AccountsInit /\ [][AccountsNext]_accountVars

-----------------------------------------------------------------------------
(* What it guarantees *)

\* "An admin has deactivated the user account" (docs/oidc.md): it stays inactive, and
\* no login by a provider or by password that looks it up later is let in, until an
\* admin decides again, whatever logins, links and edits overlap; except when a
\* request that read the row before another wrote it writes the old state back.
DeactivationHolds ==
    /\ \A u \in Live : u \in disabled => ~account[u].active
    /\ \A p \in Logins : login[p].pc = "granted" => ~login[p].barred

\* An account is an admin's only if the last decision on its role says so: neither a
\* first login nor a link nor an overlapping edit makes one, or keeps one that was
\* demoted; except when a request that read the row before another wrote it writes
\* the old role back.
AdminsAreMade ==
    \A u \in Live : account[u].role = "admin" => u \in promoted
=============================================================================
