------------------------- MODULE UserAccountsProofs -------------------------
(***************************************************************************)
(* For any numbers of accounts, identities and overlapping requests:       *)
(* nobody becomes or stays an admin by logging in or by an edit that does  *)
(* not say so, and a deactivated account stays out.                        *)
(*                                                                         *)
(* A request writes back the whole row it has read. So the invariant is    *)
(* about the copies: in what it does not decide itself a copy agrees with  *)
(* the row, for as long as nobody else has written that row.               *)
(***************************************************************************)
EXTENDS UserAccounts, TLAPS

WithCopy == {"updating", "linking", "saving"}

\* What the copy says is what the row says, or what its request decides
Agrees(p) ==
    LET u == login[p].user
        row == login[p].copy
    IN  /\ "role" \in login[p].decides \/ row.role = account[u].role
        /\ "active" \in login[p].decides \/ row.active = account[u].active

CopyInv(p) ==
    login[p].pc \in WithCopy =>
        /\ account[login[p].user].state # "new"
        /\ login[p].copy.state = "live"
        /\ p \notin outdated /\ login[p].user \in Live => Agrees(p)
        /\ login[p].pc # "saving" /\ login[p].barred => ~login[p].copy.active

TableInv ==
    /\ AdminsAreMade
    /\ disabled \subseteq Live
    /\ \A u \in disabled : ~account[u].active

GrantInv == \A p \in Logins : login[p].pc = "granted" => ~login[p].barred

AccountsInv ==
    /\ AccountsTypeOK
    /\ TableInv
    /\ GrantInv
    /\ \A p \in Logins : CopyInv(p)

-----------------------------------------------------------------------------
(* What the statements do *)

LEMMA NoLoginTyped == NoLogin \in Login /\ NoAccount \in Account
  BY AccountConstants DEF NoLogin, Login, NoAccount, Account, LoginPCs, Roles

\* The UPDATE of a request keeps who is live, writes one row at most, and if the copy
\* was up to date or decides, the histories follow it.
LEMMA UpdateKeeps ==
    ASSUME AccountsInv, NEW p \in Logins, login[p].pc \in WithCopy, UpdateUser(p) \/ UpdateFails(p)
    PROVE  /\ account' \in [UserIds -> Account]
           /\ Live' = Live
           /\ \A v \in UserIds : account'[v].state = account[v].state
           /\ \A v \in UserIds \ {login[p].user} : account'[v] = account[v]
           /\ promoted' \subseteq UserIds /\ TableInv'
<1> DEFINE u == login[p].user
           row == login[p].copy
<1>1. u \in UserIds /\ row \in Account /\ row.state = "live" /\ CopyInv(p)
  BY DEF AccountsInv, AccountsTypeOK, CopyInv, WithCopy, Login
<1>2. CASE UNCHANGED <<account, promoted, disabled>>
  BY <1>1, <1>2 DEF AccountsInv, AccountsTypeOK, Live, TableInv, AdminsAreMade
<1>3. ASSUME u \in Live, account' = [account EXCEPT ![u] = row],
             promoted' = IF "role" \in login[p].decides \/ p \in outdated
                         THEN Noted(promoted, u, row.role = "admin") ELSE promoted,
             disabled' = IF "active" \in login[p].decides \/ p \in outdated
                         THEN Noted(disabled, u, ~row.active) ELSE disabled
      PROVE  /\ account' \in [UserIds -> Account]
             /\ Live' = Live
             /\ \A v \in UserIds : account'[v].state = account[v].state
             /\ \A v \in UserIds \ {u} : account'[v] = account[v]
             /\ promoted' \subseteq UserIds /\ TableInv'
  <2>1. \A v \in UserIds : account'[v] = IF v = u THEN row ELSE account[v]
    BY <1>3 DEF AccountsInv, AccountsTypeOK
  <2>2. \A v \in UserIds : account'[v].state = account[v].state
    BY <1>1, <1>3, <2>1 DEF Live
  <2>3. Live' = Live /\ account' \in [UserIds -> Account]
    BY <1>1, <1>3, <2>2 DEF Live, AccountsInv, AccountsTypeOK
  <2>4. AdminsAreMade'
    <3>1. ASSUME NEW v \in Live', account'[v].role = "admin" PROVE v \in promoted'
      <4>1. CASE v # u
        BY <1>3, <2>1, <2>3, <3>1, <4>1 DEF AccountsInv, TableInv, AdminsAreMade, Noted, Live
      <4>2. CASE v = u /\ ("role" \in login[p].decides \/ p \in outdated)
        BY <1>1, <1>3, <2>1, <3>1, <4>2 DEF Noted
      <4>3. CASE v = u /\ "role" \notin login[p].decides /\ p \notin outdated
        BY <1>1, <1>3, <2>1, <3>1, <4>3 DEF CopyInv, Agrees, AccountsInv, TableInv, AdminsAreMade
      <4> QED
        BY <4>1, <4>2, <4>3
    <3> QED
      BY <3>1 DEF AdminsAreMade
  <2>5. disabled' \subseteq Live'
    BY <1>3, <2>3 DEF AccountsInv, TableInv, Noted
  <2>6. ASSUME NEW v \in disabled' PROVE ~account'[v].active
    <3>1. v \in UserIds
      BY <2>3, <2>5 DEF Live
    <3>2. CASE v # u
      BY <1>3, <2>1, <3>1, <3>2 DEF AccountsInv, TableInv, Noted
    <3>3. CASE v = u /\ ("active" \in login[p].decides \/ p \in outdated)
      BY <1>1, <1>3, <2>1, <3>3 DEF Noted
    <3>4. CASE v = u /\ "active" \notin login[p].decides /\ p \notin outdated
      BY <1>1, <1>3, <2>1, <3>4 DEF CopyInv, Agrees, AccountsInv, TableInv
    <3> QED
      BY <3>2, <3>3, <3>4
  <2>7. promoted' \subseteq UserIds
    BY <1>1, <1>3 DEF AccountsInv, AccountsTypeOK, Noted
  <2> QED
    BY <2>1, <2>2, <2>3, <2>4, <2>5, <2>6, <2>7 DEF TableInv
<1> QED
  BY <1>2, <1>3 DEF UpdateUser, UpdateFails

-----------------------------------------------------------------------------
(* Steps that change requests only *)

LEMMA LoginMoves ==
    ASSUME AccountsInv, NEW p \in Logins, NEW l \in Login,
           login' = [login EXCEPT ![p] = l],
           l.pc \in WithCopy => l.user \in UserIds,
           CopyInv(p)', l.pc = "granted" => ~l.barred, pending' \subseteq States,
           UNCHANGED <<account, accountHistory>>
    PROVE  AccountsInv'
<1>1. login' \in [Logins -> Login] /\ \A q \in Logins : login'[q] = IF q = p THEN l ELSE login[q]
  BY DEF AccountsInv, AccountsTypeOK
<1>2. AccountsTypeOK'
  BY <1>1 DEF AccountsInv, AccountsTypeOK, accountHistory, WithCopy
<1>3. TableInv'
  BY DEF AccountsInv, TableInv, AdminsAreMade, Live, accountHistory
<1>4. \A q \in Logins : CopyInv(q)'
  BY <1>1 DEF AccountsInv, CopyInv, Agrees, Live, accountHistory
<1>5. GrantInv'
  BY <1>1 DEF AccountsInv, GrantInv
<1> QED
  BY <1>2, <1>3, <1>4, <1>5 DEF AccountsInv

\* A request that ends or that goes on without a copy
LEMMA NoCopyStep ==
    ASSUME AccountsInv, NEW p \in Logins, NEW l \in Login,
           login' = [login EXCEPT ![p] = l], l.pc \notin WithCopy, l.pc # "granted",
           pending' \subseteq States, UNCHANGED <<account, accountHistory>>
    PROVE  AccountsInv'
<1>1. CopyInv(p)'
  BY DEF AccountsInv, AccountsTypeOK, CopyInv
<1> QED
  BY <1>1, LoginMoves

LEMMA CopyTyped ==
    ASSUME NEW u \in UserIds, NEW row \in Account, NEW pc \in WithCopy,
           NEW decides \in SUBSET Decided
    PROVE  [NoLogin EXCEPT !.pc = pc, !.user = u, !.copy = row, !.decides = decides,
                           !.barred = u \in disabled] \in Login
<1>1. ASSUME NEW b \in BOOLEAN
      PROVE  [NoLogin EXCEPT !.pc = pc, !.user = u, !.copy = row, !.decides = decides,
                             !.barred = b] \in Login
  BY NoLoginTyped DEF Login, LoginPCs, WithCopy, NoLogin
<1>2. (u \in disabled) \in BOOLEAN
  OBVIOUS
<1> QED
  BY <1>1, <1>2

\* A request reads a live row and will write it, changed in what it decides
LEMMA TakeStep ==
    ASSUME AccountsInv, NEW p \in Logins, NEW u \in Live, NEW row \in Account,
           NEW pc \in WithCopy, NEW decides \in SUBSET Decided, Take(p, pc, u, row, decides),
           row.state = "live",
           "role" \in decides \/ row.role = account[u].role,
           "active" \in decides \/ row.active = account[u].active,
           pc # "saving" => row.active = account[u].active,
           UNCHANGED <<account, pending, accountHistory>>
    PROVE  AccountsInv'
<1> DEFINE l == [NoLogin EXCEPT !.pc = pc, !.user = u, !.copy = row, !.decides = decides,
                                !.barred = u \in disabled]
<1>1. l \in Login /\ u \in UserIds
  BY CopyTyped DEF Live
<1>2. login' = [login EXCEPT ![p] = l]
  BY DEF Take
<1>3. /\ login'[p] = l /\ l.pc = pc /\ l.user = u /\ l.copy = row /\ l.decides = decides
      /\ l.barred = (u \in disabled)
  BY <1>2 DEF AccountsInv, AccountsTypeOK, NoLogin
<1>4. u \in disabled => ~account[u].active
  BY DEF AccountsInv, TableInv
<1> HIDE DEF l
<1>5. CopyInv(p)'
  BY <1>3, <1>4 DEF CopyInv, Agrees, Live, accountHistory
<1>6. l.pc # "granted" /\ pending' \subseteq States
  BY <1>3 DEF WithCopy, AccountsInv, AccountsTypeOK
<1> QED
  BY <1>1, <1>2, <1>3, <1>5, <1>6, LoginMoves

LEMMA LookUpSteps ==
    ASSUME AccountsInv, NEW p \in Logins,
           \/ \E s \in States : TakeState(p, s)
           \/ \E who \in Subjects, e \in Emails \union {NoEmail}, verified \in BOOLEAN :
                FindBySubject(p, who, e, verified)
           \/ ExchangeFails(p) \/ FindByEmail(p) \/ SessionStarts(p)
    PROVE  AccountsInv'
<1> USE AccountConstants, NoLoginTyped
<1>1. login[p] \in Login /\ pending \subseteq States /\ account \in [UserIds -> Account]
  BY DEF AccountsInv, AccountsTypeOK
<1>2. ASSUME NEW s \in States, TakeState(p, s) PROVE AccountsInv'
  <2>1. [login[p] EXCEPT !.pc = "exchanging"] \in Login
    BY <1>1 DEF Login, LoginPCs
  <2> QED
    BY <1>1, <1>2, <2>1, NoCopyStep DEF TakeState, Step, Login, WithCopy
<1>3. CASE ExchangeFails(p) \/ SessionStarts(p)
  BY <1>1, <1>3, NoCopyStep DEF ExchangeFails, SessionStarts, EndLogin, NoLogin, WithCopy
<1>4. ASSUME NEW who \in Subjects, NEW e \in Emails \union {NoEmail}, NEW verified \in BOOLEAN,
             FindBySubject(p, who, e, verified)
      PROVE  AccountsInv'
  <2>1. ASSUME NEW u \in BySubject(who),
               Take(p, "updating", u,
                    [account[u] EXCEPT !.email = IF verified /\ e # NoEmail THEN e ELSE @], {})
        PROVE  AccountsInv'
    <3> DEFINE row == [account[u] EXCEPT !.email = IF verified /\ e # NoEmail THEN e ELSE @]
    <3>1. u \in Live /\ account[u] \in Account /\ account[u].state = "live"
      BY <1>1, <2>1 DEF BySubject, Live
    <3>2. /\ row \in Account /\ row.state = "live" /\ row.role = account[u].role
          /\ row.active = account[u].active
      BY <3>1 DEF Account
    <3>3. /\ "updating" \in WithCopy /\ {} \in SUBSET Decided
          /\ UNCHANGED <<account, pending, accountHistory>>
      BY <1>4 DEF FindBySubject, WithCopy
    <3>4. Take(p, "updating", u, row, {})
      BY <2>1
    <3> HIDE DEF row
    <3> QED
      BY <3>1, <3>2, <3>3, <3>4, TakeStep
  <2>2. ASSUME NEW pc \in {"byEmail", "provisioning"}, NotFound(p, pc, who, e)
        PROVE  AccountsInv'
    <3>1. [NoLogin EXCEPT !.pc = pc, !.who = who, !.email = e] \in Login
      BY DEF NoLogin, Login, LoginPCs
    <3>2. [NoLogin EXCEPT !.pc = pc, !.who = who, !.email = e].pc = pc
      BY DEF NoLogin
    <3>3. pc \notin WithCopy /\ pc # "granted"
      BY DEF WithCopy
    <3>4. UNCHANGED <<account, pending, accountHistory>>
      BY <1>4 DEF FindBySubject
    <3> QED
      BY <1>1, <2>2, <3>1, <3>2, <3>3, <3>4, NoCopyStep DEF NotFound
  <2>3. ASSUME EndLogin(p) PROVE AccountsInv'
    BY <1>1, <1>4, <2>3, NoCopyStep DEF FindBySubject, EndLogin, NoLogin, WithCopy
  <2> QED
    BY <1>4, <2>1, <2>2, <2>3 DEF FindBySubject
<1>5. CASE FindByEmail(p)
  <2>1. UNCHANGED <<account, pending, accountHistory>>
    BY <1>5 DEF FindByEmail
  <2>2. ASSUME NEW u \in ByEmail(login[p].email), login[p].pc = "byEmail",
               Take(p, "linking", u, Linked(p, u), {})
        PROVE  AccountsInv'
    <3>1. u \in Live /\ account[u] \in Account /\ account[u].state = "live"
      BY <1>1, <2>2 DEF ByEmail, Live
    <3>2. /\ Linked(p, u) \in Account /\ Linked(p, u).state = "live"
          /\ Linked(p, u).role = account[u].role /\ Linked(p, u).active = account[u].active
      BY <1>1, <3>1 DEF Account, Linked, Login
    <3>3. "linking" \in WithCopy /\ {} \in SUBSET Decided
      BY DEF WithCopy
    <3> QED
      BY <2>1, <2>2, <3>1, <3>2, <3>3, TakeStep
  <2>3. CASE Step(p, "provisioning") \/ EndLogin(p)
    <3>1. [login[p] EXCEPT !.pc = "provisioning"] \in Login
      BY <1>1 DEF Login, LoginPCs
    <3>2. \E l \in Login : /\ login' = [login EXCEPT ![p] = l]
                           /\ l.pc \in {"provisioning", "idle"}
      BY <1>1, <2>3, <3>1 DEF Step, EndLogin, NoLogin, Login
    <3> QED
      BY <1>1, <2>1, <3>2, NoCopyStep DEF WithCopy
  <2> QED
    BY <1>5, <2>2, <2>3 DEF FindByEmail
<1> QED
  BY <1>2, <1>3, <1>4, <1>5

-----------------------------------------------------------------------------
(* Steps that change the table *)

\* What CallbackHandler makes of a row
LEMMA AdmitStep ==
    ASSUME AccountsInv, NEW p \in Logins, NEW row, NEW b \in BOOLEAN, Admit(p, row, b),
           b => ~row.active
    PROVE  \E l \in Login : /\ login' = [login EXCEPT ![p] = l]
                            /\ l.pc \notin WithCopy
                            /\ l.pc = "granted" => ~l.barred
<1> USE NoLoginTyped
<1>1. CASE row.active
  <2>1. [NoLogin EXCEPT !.pc = "granted", !.barred = b] \in Login
    BY DEF Login, LoginPCs, NoLogin
  <2> QED
    BY <1>1, <2>1 DEF Admit, NoLogin, WithCopy
<1>2. CASE ~row.active
  BY <1>2 DEF Admit, EndLogin, NoLogin, WithCopy
<1> QED
  BY <1>1, <1>2

LEMMA PasswordStep ==
    ASSUME AccountsInv, NEW p \in Logins, NEW u \in UserIds, AuthenticateLocalUser(p, u)
    PROVE  AccountsInv'
<1>1. u \in disabled => ~account[u].active
  BY DEF AccountsInv, TableInv
<1>2. (u \in disabled) \in BOOLEAN
  OBVIOUS
<1>3. Admit(p, account[u], u \in disabled) /\ UNCHANGED <<account, pending, accountHistory>>
  BY DEF AuthenticateLocalUser
<1>4. PICK l \in Login : /\ login' = [login EXCEPT ![p] = l]
                         /\ l.pc \notin WithCopy
                         /\ l.pc = "granted" => ~l.barred
  BY <1>1, <1>2, <1>3, AdmitStep
<1>5. CopyInv(p)' /\ pending' \subseteq States
  BY <1>3, <1>4 DEF CopyInv, AccountsInv, AccountsTypeOK
<1> QED
  BY <1>3, <1>4, <1>5, LoginMoves

\* The request that wrote lets go of its copy; the others of that row are outdated.
LEMMA WriteStep ==
    ASSUME AccountsInv, NEW p \in Logins, login[p].pc \in WithCopy,
           UpdateUser(p) \/ UpdateFails(p), UNCHANGED pending,
           NEW l \in Login, login' = [login EXCEPT ![p] = l], l.pc \notin WithCopy,
           l.pc = "granted" => ~l.barred
    PROVE  AccountsInv'
<1>1. /\ account' \in [UserIds -> Account]
      /\ Live' = Live
      /\ \A v \in UserIds : account'[v].state = account[v].state
      /\ \A v \in UserIds \ {login[p].user} : account'[v] = account[v]
      /\ promoted' \subseteq UserIds /\ TableInv'
  BY UpdateKeeps
<1>2. login' \in [Logins -> Login] /\ \A q \in Logins : login'[q] = IF q = p THEN l ELSE login[q]
  BY DEF AccountsInv, AccountsTypeOK
<1>3. \A q \in Logins : login[q].pc \in WithCopy => login[q].user \in UserIds
  BY DEF AccountsInv, AccountsTypeOK, WithCopy
<1>4. /\ outdated \subseteq Logins /\ outdated' \subseteq Logins
      /\ outdated \ {p} \subseteq outdated'
      /\ UNCHANGED account \/ Holders(login[p].user) \ {p} \subseteq outdated'
  BY DEF AccountsInv, AccountsTypeOK, UpdateUser, UpdateFails, Holders
<1>5. AccountsTypeOK'
  <2>1. disabled' \subseteq UserIds
    BY <1>1 DEF TableInv, Live
  <2> QED
    BY <1>1, <1>2, <1>3, <1>4, <2>1 DEF AccountsInv, AccountsTypeOK, WithCopy
<1>6. ASSUME NEW q \in Logins PROVE CopyInv(q)'
  <2>1. CASE q = p
    BY <1>2, <2>1 DEF CopyInv
  <2>2. CASE q # p
    <3>1. CopyInv(q) /\ login'[q] = login[q] /\ (q \notin outdated' => q \notin outdated)
      BY <1>2, <1>4, <2>2 DEF AccountsInv
    <3>2. login[q].pc \in WithCopy => account'[login[q].user].state # "new"
      BY <1>1, <1>3, <3>1 DEF CopyInv
    <3>3. login[q].pc \in WithCopy /\ q \notin outdated' /\ login[q].user \in Live
            => account'[login[q].user] = account[login[q].user]
      BY <1>1, <1>3, <1>4, <2>2 DEF Holders, WithCopy
    <3> QED
      BY <1>1, <3>1, <3>2, <3>3 DEF CopyInv, Agrees
  <2> QED
    BY <2>1, <2>2
<1>7. GrantInv'
  BY <1>2 DEF AccountsInv, GrantInv
<1> QED
  BY <1>1, <1>5, <1>6, <1>7 DEF AccountsInv

LEMMA OIDCWriteSteps ==
    ASSUME AccountsInv, NEW p \in Logins, SaveLogin(p) \/ LinkAccount(p)
    PROVE  AccountsInv'
<1>1. /\ login[p].pc \in WithCopy /\ login[p].pc # "saving" /\ login[p] \in Login
      /\ UNCHANGED pending
      /\ UpdateUser(p) \/ UpdateFails(p)
  BY DEF SaveLogin, LinkAccount, WithCopy, AccountsInv, AccountsTypeOK
<1>2. login[p].barred => ~login[p].copy.active
  BY <1>1 DEF AccountsInv, CopyInv
<1>3. PICK l \in Login : /\ login' = [login EXCEPT ![p] = l]
                         /\ l.pc \notin WithCopy
                         /\ l.pc = "granted" => ~l.barred
  <2>1. Admit(p, login[p].copy, login[p].barred) \/ EndLogin(p)
    BY DEF SaveLogin, LinkAccount
  <2>2. CASE Admit(p, login[p].copy, login[p].barred)
    <3>1. login[p].barred \in BOOLEAN
      BY <1>1 DEF Login
    <3> QED
      BY <1>2, <2>2, <3>1, AdmitStep
  <2>3. CASE EndLogin(p)
    BY <2>3, NoLoginTyped DEF EndLogin, NoLogin, WithCopy
  <2> QED
    BY <2>1, <2>2, <2>3
<1> QED
  BY <1>1, <1>3, WriteStep

LEMMA SaveUserStep ==
    ASSUME AccountsInv, NEW p \in Logins, SaveUser(p)
    PROVE  AccountsInv'
<1>1. /\ login[p].pc \in WithCopy /\ UNCHANGED pending
      /\ UpdateUser(p) \/ UpdateFails(p)
      /\ login' = [login EXCEPT ![p] = NoLogin]
  BY DEF SaveUser, WithCopy, EndLogin
<1>2. NoLogin \in Login /\ NoLogin.pc \notin WithCopy /\ NoLogin.pc # "granted"
  BY NoLoginTyped DEF NoLogin, WithCopy
<1> QED
  BY <1>1, <1>2, WriteStep

\* A new account, unknown to anybody so far
LEMMA InsertStep ==
    ASSUME AccountsInv, NEW p \in Logins, NEW u \in UserIds, NEW row \in Account,
           CanInsert(u, row), Insert(u, row),
           NEW l \in Login, login' = [login EXCEPT ![p] = l], l.pc \notin WithCopy,
           l.pc = "granted" => ~l.barred,
           promoted' \in {promoted, promoted \union {u}},
           row.role = "admin" => u \in promoted',
           UNCHANGED <<pending, outdated, disabled>>
    PROVE  AccountsInv'
<1>1. \A v \in UserIds : account'[v] = IF v = u THEN row ELSE account[v]
  BY DEF Insert, AccountsInv, AccountsTypeOK
<1>2. login' \in [Logins -> Login] /\ \A q \in Logins : login'[q] = IF q = p THEN l ELSE login[q]
  BY DEF AccountsInv, AccountsTypeOK
<1>3. account[u].state = "new" /\ u \notin Live
      /\ Live \subseteq Live' /\ Live' \subseteq Live \union {u}
  BY <1>1 DEF CanInsert, Live
<1>4. AccountsTypeOK'
  <2>1. account' \in [UserIds -> Account]
    BY DEF Insert, AccountsInv, AccountsTypeOK
  <2> QED
    BY <1>2, <2>1 DEF AccountsInv, AccountsTypeOK, WithCopy
<1>5. TableInv'
  <2>2. AdminsAreMade'
    BY <1>1, <1>3 DEF AccountsInv, TableInv, AdminsAreMade, Live
  <2>3. disabled' \subseteq Live'
    BY <1>3 DEF AccountsInv, TableInv
  <2>4. \A v \in disabled' : ~account'[v].active
    BY <1>1, <1>3 DEF AccountsInv, TableInv, Live
  <2> QED
    BY <2>2, <2>3, <2>4 DEF TableInv
<1>6. ASSUME NEW q \in Logins PROVE CopyInv(q)'
  <2>1. CASE q = p
    BY <1>2, <2>1 DEF CopyInv
  <2>2. CASE q # p
    <3>1. CopyInv(q) /\ login'[q] = login[q]
      BY <1>2, <2>2 DEF AccountsInv
    <3>2. login[q].pc \in WithCopy => login[q].user \in UserIds /\ login[q].user # u
      BY <1>3, <3>1 DEF CopyInv, AccountsInv, AccountsTypeOK, WithCopy
    <3> QED
      BY <1>1, <1>3, <3>1, <3>2 DEF CopyInv, Agrees
  <2> QED
    BY <2>1, <2>2
<1>7. GrantInv'
  BY <1>2 DEF AccountsInv, GrantInv
<1> QED
  BY <1>4, <1>5, <1>6, <1>7 DEF AccountsInv

LEMMA ProvisionStep ==
    ASSUME AccountsInv, NEW p \in Logins, Provision(p)
    PROVE  AccountsInv'
<1> USE NoLoginTyped, AccountConstants
<1> DEFINE row == [state |-> "live", email |-> login[p].email, subject |-> login[p].who,
                   role |-> DefaultRole, active |-> TRUE]
<1>1. /\ login[p] \in Login /\ UNCHANGED <<pending, outdated, promoted, disabled>>
      /\ pending \subseteq States
  BY DEF Provision, accountHistory, AccountsInv, AccountsTypeOK
<1>2. DefaultRole \in Roles \ {"admin"}
  BY DEF DefaultRole, Roles
<1>3. row \in Account /\ row.role # "admin"
  BY <1>1, <1>2 DEF Account, Login
<1>4. ASSUME NEW u \in UserIds, CanInsert(u, row), Insert(u, row), Admit(p, row, FALSE)
      PROVE  AccountsInv'
  <2> HIDE DEF row
  <2>1. PICK l \in Login : /\ login' = [login EXCEPT ![p] = l]
                           /\ l.pc \notin WithCopy
                           /\ l.pc = "granted" => ~l.barred
    BY <1>4, AdmitStep
  <2> QED
    BY <1>1, <1>3, <1>4, <2>1, InsertStep
<1>5. CASE EndLogin(p) /\ UNCHANGED account
  BY <1>1, <1>5, NoCopyStep DEF EndLogin, NoLogin, WithCopy, accountHistory
<1> QED
  BY <1>4, <1>5 DEF Provision

-----------------------------------------------------------------------------
(* What admins and users do *)

LEMMA CreateSteps ==
    ASSUME AccountsInv, NEW p \in Logins,
           \/ \E e \in Emails, role \in Given : BeginCreate(p, e, role)
           \/ InsertUser(p)
    PROVE  AccountsInv'
<1> USE NoLoginTyped, AccountConstants
<1>1. login[p] \in Login /\ pending \subseteq States /\ promoted \subseteq UserIds
  BY DEF AccountsInv, AccountsTypeOK
<1>2. ASSUME NEW e \in Emails, NEW role \in Given, BeginCreate(p, e, role) PROVE AccountsInv'
  <2> DEFINE row == [state |-> "live", email |-> e, subject |-> NoSubject, role |-> role,
                     active |-> TRUE]
             l == [login[p] EXCEPT !.pc = "inserting", !.copy = row]
  <2>1. row \in Account
    BY DEF Account
  <2>2. l \in Login /\ l.pc = "inserting"
    BY <1>1, <2>1 DEF Login, LoginPCs
  <2>3. login' = [login EXCEPT ![p] = l] /\ UNCHANGED <<account, pending, accountHistory>>
    BY <1>1, <1>2 DEF BeginCreate, Login, AccountsInv, AccountsTypeOK
  <2> HIDE DEF l
  <2> QED
    BY <1>1, <2>2, <2>3, NoCopyStep DEF WithCopy
<1>3. CASE InsertUser(p)
  <2> DEFINE row == login[p].copy
  <2>1. /\ row \in Account /\ UNCHANGED <<pending, outdated, disabled>>
        /\ login' = [login EXCEPT ![p] = NoLogin]
        /\ NoLogin.pc \notin WithCopy /\ NoLogin.pc # "granted"
    BY <1>1, <1>3 DEF InsertUser, EndLogin, NoLogin, WithCopy, Login
  <2>2. ASSUME NEW u \in UserIds, CanInsert(u, row), Insert(u, row),
               promoted' = IF row.role = "admin" THEN promoted \union {u} ELSE promoted
        PROVE  AccountsInv'
    <3>1. row.role = "admin" => u \in promoted'
      BY <2>2
    <3>2. promoted' \in {promoted, promoted \union {u}}
      BY <2>2
    <3> QED
      BY <2>1, <2>2, <3>1, <3>2, InsertStep
  <2>3. CASE UNCHANGED <<account, promoted>>
    BY <1>1, <2>1, <2>3, NoCopyStep DEF accountHistory
  <2> QED
    BY <1>3, <2>2, <2>3 DEF InsertUser
<1> QED
  BY <1>2, <1>3

\* A request that will save what it read and changed
LEMMA EditSteps ==
    ASSUME AccountsInv, NEW p \in Logins, NEW u \in UserIds,
           \/ \E e \in Emails \union {account[u].email}, role \in Given, active \in BOOLEAN,
                decides \in SUBSET Decided : BeginEditUser(p, u, e, role, active, decides)
           \/ BeginEditProfile(p, u)
    PROVE  AccountsInv'
<1> USE NoLoginTyped, AccountConstants
<1>1. /\ u \in Live /\ account[u] \in Account /\ account[u].state = "live"
      /\ UNCHANGED <<account, pending, accountHistory>> /\ "saving" \in WithCopy
  BY DEF BeginEditUser, BeginEditProfile, Live, WithCopy, AccountsInv, AccountsTypeOK
<1>2. ASSUME NEW e \in Emails \union {account[u].email}, NEW role \in Given,
             NEW active \in BOOLEAN, NEW decides \in SUBSET Decided,
             BeginEditUser(p, u, e, role, active, decides)
      PROVE  AccountsInv'
  <2> DEFINE row == [account[u] EXCEPT !.email = e,
                                       !.role = IF "role" \in decides THEN role ELSE @,
                                       !.active = IF "active" \in decides THEN active ELSE @]
  <2>1. row \in Account /\ row.state = "live"
    BY <1>1 DEF Account, Roles
  <2>2. /\ "role" \in decides \/ row.role = account[u].role
        /\ "active" \in decides \/ row.active = account[u].active
    BY <1>1 DEF Account
  <2>3. Take(p, "saving", u, row, decides)
    BY <1>2 DEF BeginEditUser
  <2> HIDE DEF row
  <2> QED
    BY <1>1, <2>1, <2>2, <2>3, TakeStep
<1>3. CASE BeginEditProfile(p, u)
  <2>1. Take(p, "saving", u, account[u], {}) /\ {} \in SUBSET Decided
    BY <1>3 DEF BeginEditProfile
  <2> QED
    BY <1>1, <2>1, TakeStep
<1> QED
  BY <1>2, <1>3

LEMMA DeleteStep ==
    ASSUME AccountsInv, NEW u \in UserIds, DeleteUser(u)
    PROVE  AccountsInv'
<1>1. [NoAccount EXCEPT !.state = "gone"] \in Account
  BY AccountConstants, NoLoginTyped DEF Account, NoAccount
<1>2. /\ account' \in [UserIds -> Account] /\ account'[u].state = "gone"
      /\ \A v \in UserIds \ {u} : account'[v] = account[v]
      /\ UNCHANGED <<pending, login>>
      /\ promoted' = promoted \ {u} /\ disabled' = disabled \ {u} /\ outdated' = outdated
  BY <1>1 DEF DeleteUser, AccountsInv, AccountsTypeOK, NoAccount
<1>3. Live' = Live \ {u}
  BY <1>2 DEF Live
<1>4. AccountsTypeOK'
  BY <1>2 DEF AccountsInv, AccountsTypeOK
<1>5. TableInv'
  BY <1>2, <1>3 DEF AccountsInv, TableInv, AdminsAreMade, Live
<1>6. ASSUME NEW q \in Logins PROVE CopyInv(q)'
  <2>1. login'[q] = login[q] /\ CopyInv(q)
    BY <1>2 DEF AccountsInv
  <2>2. login[q].pc \in WithCopy => login[q].user \in UserIds
    BY DEF AccountsInv, AccountsTypeOK, WithCopy
  <2> QED
    BY <1>2, <1>3, <2>1, <2>2 DEF CopyInv, Agrees
<1>7. GrantInv'
  BY <1>2 DEF AccountsInv, GrantInv
<1> QED
  BY <1>4, <1>5, <1>6, <1>7 DEF AccountsInv

LEMMA AccountsKept ==
    ASSUME AccountsInv, [AccountsNext]_accountVars
    PROVE  AccountsInv'
<1>1. ASSUME UNCHANGED <<account, login, accountHistory>>, pending' \subseteq States
      PROVE  AccountsInv'
  BY <1>1 DEF accountHistory, AccountsInv, AccountsTypeOK, TableInv,
     AdminsAreMade, Live, CopyInv, Agrees, GrantInv
<1>2. ASSUME NEW s \in States, GenerateAuthURL(s) PROVE AccountsInv'
  BY <1>1, <1>2 DEF GenerateAuthURL, AccountsInv, AccountsTypeOK
<1>3. CASE ForgetStates
  BY <1>1, <1>3 DEF ForgetStates, AccountsInv, AccountsTypeOK
<1>4. CASE UNCHANGED accountVars
  BY <1>1, <1>4 DEF accountVars, AccountsInv, AccountsTypeOK
<1>5. ASSUME NEW p \in Logins, OIDCLogin(p) PROVE AccountsInv'
  BY <1>5, LookUpSteps, OIDCWriteSteps, ProvisionStep DEF OIDCLogin
<1>6. ASSUME NEW p \in Logins, ManageUsers(p) PROVE AccountsInv'
  <2>1. CASE \E u \in UserIds, active \in BOOLEAN, role \in Given, decides \in SUBSET Decided :
            \E e \in Emails \union {account[u].email} :
                BeginEditUser(p, u, e, role, active, decides)
    BY <2>1, EditSteps
  <2>2. CASE \E u \in UserIds : BeginEditProfile(p, u)
    BY <2>2, EditSteps
  <2> QED
    BY <1>6, <2>1, <2>2, CreateSteps, SaveUserStep DEF ManageUsers
<1>7. ASSUME NEW u \in UserIds, DeleteUser(u) PROVE AccountsInv'
  BY <1>7, DeleteStep
<1>8. ASSUME NEW p \in Logins, NEW u \in UserIds, AuthenticateLocalUser(p, u)
      PROVE  AccountsInv'
  BY <1>8, PasswordStep
<1> QED
  BY <1>2, <1>3, <1>4, <1>5, <1>6, <1>7, <1>8 DEF AccountsNext

LEMMA AccountsInitially == AccountsInit => AccountsInv
<1> SUFFICES ASSUME AccountsInit PROVE AccountsInv
  OBVIOUS
<1>1. Live = {} /\ \A p \in Logins : login[p].pc = "idle"
  BY DEF AccountsInit, Live, NoAccount, NoLogin
<1>2. AccountsTypeOK
  BY <1>1, NoLoginTyped DEF AccountsInit, AccountsTypeOK
<1> QED
  BY <1>1, <1>2 DEF AccountsInit, AccountsInv, TableInv, AdminsAreMade,
     CopyInv, WithCopy, GrantInv

\* A deactivated account stays inactive and starts no session until an admin decides
\* otherwise, except when a request writes back a row that was written since it read it.
THEOREM DeactivatedStaysOut == AccountsSpec => []DeactivationHolds
<1>1. AccountsInv /\ [AccountsNext]_accountVars => AccountsInv'
  BY AccountsKept
<1>2. AccountsInv => DeactivationHolds
  BY DEF AccountsInv, TableInv, GrantInv, DeactivationHolds
<1> QED
  BY <1>1, <1>2, AccountsInitially, PTL DEF AccountsSpec

\* Every admin was made one by the last admin who decided the role, whatever the
\* environment and the identity provider say, with the same exception.
THEOREM NoAdminByLogin == AccountsSpec => []AdminsAreMade
<1>1. AccountsInv /\ [AccountsNext]_accountVars => AccountsInv'
  BY AccountsKept
<1>2. AccountsInv => AdminsAreMade
  BY DEF AccountsInv, TableInv
<1> QED
  BY <1>1, <1>2, AccountsInitially, PTL DEF AccountsSpec
=============================================================================
