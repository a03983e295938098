------------------------- MODULE AdminAccessProofs -------------------------
(***************************************************************************)
(* Who is let in, for any numbers of sessions, requests and restarts. The  *)
(* first part is about the sessions: what the map and the file may hold.   *)
(* The second is about the log-in: who holds the set-up token, and what    *)
(* the configuration remembers of the codes that were used.                *)
(***************************************************************************)
EXTENDS AdminSessions, AdminLogin, TLAPS

-----------------------------------------------------------------------------
(* Sessions. An entry of the map and one of the file obey the same rule;   *)
(* it survives the passage of time because a session's last use only ever  *)
(* gets later.                                                             *)

\* m: a map; iss: tokens handed out; use, at: when they were used last and issued
MapOK(m, iss, use, at) ==
    /\ IsSessionMap(m)
    /\ DOMAIN m \subseteq iss
    /\ \A t \in DOMAIN m : m[t].created = at[t] /\ m[t].expires <= use[t] + IdleTTL

SessionsInv ==
    /\ SessionsTypeOK
    /\ MapOK(sessions, issued, lastUse, issuedAt)
    /\ MapOK(sessionsFile, issued, lastUse, issuedAt)
    /\ revoked \subseteq issued
    /\ \A p \in Visits : visit[p].pc # "idle" => visit[p].token \in issued
    /\ \A t \in Tokens : lastUse[t] <= now
    /\ RevokedStaysOut
    /\ ~saveFailed => (revoked \ excused) \intersect DOMAIN sessionsFile = {}

LEMMA MapLater ==
    ASSUME NEW m, NEW iss, NEW use \in [Tokens -> Nat], NEW at \in [Tokens -> Nat],
           NEW iss2, NEW use2 \in [Tokens -> Nat], NEW at2 \in [Tokens -> Nat],
           MapOK(m, iss, use, at), iss \subseteq iss2,
           \A t \in Tokens : use[t] <= use2[t], \A t \in iss : at2[t] = at[t]
    PROVE  MapOK(m, iss2, use2, at2)
<1> USE SessionConstants
<1>1. \A t \in DOMAIN m : t \in Tokens /\ m[t].expires \in Nat
  BY DEF MapOK, IsSessionMap, Session
<1> QED
  BY <1>1 DEF MapOK

LEMMA MapSmaller ==
    ASSUME NEW m, NEW iss, NEW use, NEW at, NEW T, MapOK(m, iss, use, at), T \subseteq DOMAIN m
    PROVE  MapOK([t \in T |-> m[t]], iss, use, at)
  BY DEF MapOK, IsSessionMap

LEMMA MapStored ==
    ASSUME SessionsInv, NEW t \in Tokens, NEW s \in Session, sessions' = Stored(t, s),
           MapOK(sessions, issued', lastUse', issuedAt'), t \in issued',
           s.created = issuedAt'[t], s.expires <= lastUse'[t] + IdleTTL
    PROVE  MapOK(sessions', issued', lastUse', issuedAt')
  BY DEF MapOK, IsSessionMap, Stored

LEMMA NoSessionsOK ==
    ASSUME NEW iss, NEW use, NEW at
    PROVE  MapOK(NoSessions, iss, use, at) /\ DOMAIN NoSessions = {}
  BY DEF MapOK, IsSessionMap, NoSessions

LEMMA SaveKeeps ==
    ASSUME SessionsInv, SaveSessions,
           MapOK(sessions', issued', lastUse', issuedAt'),
           MapOK(sessionsFile, issued', lastUse', issuedAt')
    PROVE  /\ MapOK(sessionsFile', issued', lastUse', issuedAt')
           /\ saveFailed' \in BOOLEAN /\ saveFaults' \in Nat
           /\ ~saveFailed' => sessionsFile' = sessions'
<1>1. CASE sessionsFile' = sessions' /\ saveFailed' = FALSE /\ UNCHANGED saveFaults
  BY <1>1 DEF SessionsInv, SessionsTypeOK
<1>2. CASE /\ saveFaults' = saveFaults + 1 /\ saveFailed' = TRUE
           /\ sessionsFile' \in {sessionsFile, NoSessions}
  BY <1>2, NoSessionsOK DEF SessionsInv, SessionsTypeOK
<1> QED
  BY <1>1, <1>2 DEF SaveSessions

\* A request's step and token, in the state after
VisitsFollow ==
    /\ visit' \in [Visits -> Visit]
    /\ \A q \in Visits : visit'[q].pc # "idle" => visit'[q].token \in Tokens \intersect issued'

\* Every step that may write the file comes down to this.
LEMMA SessionsChange ==
    ASSUME SessionsInv, VisitsFollow, UNCHANGED <<now, excused>>,
           issued \subseteq issued', issued' \subseteq Tokens,
           lastUse' \in [Tokens -> Nat], issuedAt' \in [Tokens -> Nat],
           \A t \in Tokens : lastUse[t] <= lastUse'[t] /\ lastUse'[t] <= now,
           \A t \in issued : issuedAt'[t] = issuedAt[t],
           MapOK(sessions', issued', lastUse', issuedAt'),
           revoked' \subseteq issued', (revoked' \ excused) \intersect DOMAIN sessions' = {},
           SaveSessions \/ (DoNotSave /\ UNCHANGED revoked)
    PROVE  SessionsInv'
<1>1. MapOK(sessionsFile, issued', lastUse', issuedAt')
  BY MapLater DEF SessionsInv, SessionsTypeOK
<1>2. CASE SaveSessions
  <2>1. /\ MapOK(sessionsFile', issued', lastUse', issuedAt')
        /\ saveFailed' \in BOOLEAN /\ saveFaults' \in Nat
        /\ ~saveFailed' => sessionsFile' = sessions'
    BY <1>1, <1>2, SaveKeeps
  <2> QED
    BY <2>1 DEF SessionsInv, SessionsTypeOK, VisitsFollow, RevokedStaysOut, MapOK
<1>3. CASE DoNotSave /\ UNCHANGED revoked
  BY <1>1, <1>3 DEF DoNotSave, SessionsInv, SessionsTypeOK, VisitsFollow, RevokedStaysOut, MapOK
<1> QED
  BY <1>2, <1>3

\* Steps of requests that touch no session
LEMMA VisitsChange ==
    ASSUME SessionsInv, VisitsFollow, UNCHANGED <<now, sessionStore, sessionHistory>>
    PROVE  SessionsInv'
  BY DEF SessionsInv, SessionsTypeOK, VisitsFollow, RevokedStaysOut, MapOK, sessionStore,
     sessionHistory

LEMMA LeaveFollows ==
    ASSUME SessionsInv, NEW p \in Visits, Leave(p) \/ UNCHANGED visit, issued \subseteq issued'
    PROVE  VisitsFollow
<1>1. NoVisit \in Visit
  BY DEF NoVisit, Visit
<1> QED
  BY <1>1 DEF SessionsInv, SessionsTypeOK, VisitsFollow, Leave, NoVisit

\* Sessions end and the map is written.
LEMMA EndSessions ==
    ASSUME SessionsInv, VisitsFollow, NEW T, T \subseteq issued,
           sessions' = Without(T),
           SaveSessions \/ (DoNotSave /\ UNCHANGED revoked),
           revoked' \in {revoked, revoked \union T},
           UNCHANGED <<now, issued, lastUse, issuedAt, excused>>
    PROVE  SessionsInv'
<1>1. MapOK(sessions', issued', lastUse', issuedAt')
  BY MapSmaller DEF SessionsInv, Without
<1>2. DOMAIN sessions' = DOMAIN sessions \ T
  BY DEF Without
<1>3. (revoked' \ excused) \intersect DOMAIN sessions' = {}
  BY <1>2 DEF SessionsInv, RevokedStaysOut
<1>4. /\ lastUse' \in [Tokens -> Nat] /\ issuedAt' \in [Tokens -> Nat]
      /\ \A t \in Tokens : lastUse[t] <= lastUse'[t] /\ lastUse'[t] <= now
      /\ issued \subseteq issued' /\ issued' \subseteq Tokens /\ revoked' \subseteq issued'
      /\ \A t \in issued : issuedAt'[t] = issuedAt[t]
  BY DEF SessionsInv, SessionsTypeOK
<1> QED
  BY <1>1, <1>3, <1>4, SessionsChange

LEMMA EndingSteps ==
    ASSUME SessionsInv,
           \/ \E p \in Visits : DropLegacy(p) \/ RevokeOtherSessions(p)
           \/ \E p \in Visits, t \in Tokens : RevokeSession(p, t)
           \/ \E t \in Tokens : Logout(t)
           \/ CleanupSessions
    PROVE  SessionsInv'
<1>1. ASSUME NEW p \in Visits, DropLegacy(p) PROVE SessionsInv'
  <2>1. visit[p].token \in issued
    BY <1>1 DEF DropLegacy, SessionsInv
  <2>2. VisitsFollow
    BY <1>1, LeaveFollows DEF DropLegacy
  <2> QED
    BY <1>1, <2>1, <2>2, EndSessions DEF DropLegacy, InvalidateSession
<1>2. ASSUME NEW p \in Visits, RevokeOtherSessions(p) PROVE SessionsInv'
  <2>1. OtherSessions(p) \subseteq issued
    BY DEF OtherSessions, SessionsInv, MapOK
  <2>2. VisitsFollow
    BY <1>2, LeaveFollows DEF RevokeOtherSessions
  <2>3. SaveSessions \/ (DoNotSave /\ UNCHANGED revoked)
    BY <1>2 DEF RevokeOtherSessions
  <2> QED
    BY <1>2, <2>1, <2>2, <2>3, EndSessions DEF RevokeOtherSessions
<1>3. ASSUME NEW p \in Visits, NEW t \in Tokens, RevokeSession(p, t) PROVE SessionsInv'
  <2>1. t \in issued
    BY <1>3 DEF RevokeSession, SessionsInv, MapOK
  <2>2. VisitsFollow
    BY <1>3, LeaveFollows DEF RevokeSession
  <2> QED
    BY <1>3, <2>1, <2>2, EndSessions DEF RevokeSession
<1>4. ASSUME NEW t \in Tokens, Logout(t) PROVE SessionsInv'
  <2>1. VisitsFollow
    BY <1>4 DEF Logout, SessionsInv, SessionsTypeOK, VisitsFollow
  <2> QED
    BY <1>4, <2>1, EndSessions DEF Logout, InvalidateSession
<1>5. CASE CleanupSessions
  <2>1. VisitsFollow
    BY <1>5 DEF CleanupSessions, sessionHistory, SessionsInv, SessionsTypeOK, VisitsFollow
  <2>2. Outlived \subseteq issued
    BY DEF Outlived, SessionsInv, MapOK
  <2> QED
    BY <1>5, <2>1, <2>2, EndSessions DEF CleanupSessions, sessionHistory
<1> QED
  BY <1>1, <1>2, <1>3, <1>4, <1>5

LEMMA CreateSessionStep ==
    ASSUME SessionsInv, NEW t \in Tokens, NEW who \in Identities, CreateSessionForUser(t, who)
    PROVE  SessionsInv'
<1> USE SessionConstants
<1> DEFINE s == [identity |-> who, created |-> now, expires |-> now + IdleTTL]
<1>1. /\ s \in Session /\ t \notin issued /\ sessions' = Stored(t, s) /\ SaveSessions
      /\ issued' = issued \union {t}
      /\ lastUse' = [lastUse EXCEPT ![t] = now] /\ issuedAt' = [issuedAt EXCEPT ![t] = now]
      /\ UNCHANGED <<now, visit, revoked, excused>>
  BY DEF CreateSessionForUser, Session, SessionsInv, SessionsTypeOK
<1>2. /\ lastUse' \in [Tokens -> Nat] /\ issuedAt' \in [Tokens -> Nat]
      /\ \A x \in Tokens : lastUse[x] <= lastUse'[x] /\ lastUse'[x] <= now
      /\ issued \subseteq issued' /\ issued' \subseteq Tokens /\ revoked' \subseteq issued'
      /\ \A x \in issued : issuedAt'[x] = issuedAt[x]
      /\ lastUse'[t] = now /\ issuedAt'[t] = now
  BY <1>1 DEF SessionsInv, SessionsTypeOK
<1>3. MapOK(sessions, issued', lastUse', issuedAt')
  BY <1>2, MapLater DEF SessionsInv, SessionsTypeOK
<1>4. s.created = issuedAt'[t] /\ s.expires <= lastUse'[t] + IdleTTL /\ t \in issued'
  BY <1>1, <1>2 DEF SessionsInv, SessionsTypeOK
<1> HIDE DEF s
<1>5. MapOK(sessions', issued', lastUse', issuedAt')
  BY <1>1, <1>3, <1>4, MapStored
<1>6. (revoked' \ excused) \intersect DOMAIN sessions' = {}
  BY <1>1 DEF Stored, SessionsInv, RevokedStaysOut
<1>7. VisitsFollow
  BY <1>1 DEF SessionsInv, SessionsTypeOK, VisitsFollow
<1> QED
  BY <1>1, <1>2, <1>5, <1>6, <1>7, SessionsChange

LEMMA ExtendSessionStep ==
    ASSUME SessionsInv, NEW p \in Visits, ExtendSession(p)
    PROVE  SessionsInv'
<1> USE SessionConstants
<1> DEFINE t == visit[p].token
           s == [sessions[t] EXCEPT !.expires = NewExpiry(sessions[t])]
<1>1. /\ t \in Tokens /\ t \in issued /\ now \in Nat
      /\ UNCHANGED <<now, issued, issuedAt, revoked, excused>>
  BY DEF ExtendSession, SessionsInv, SessionsTypeOK
<1>2. VisitsFollow
  BY DEF ExtendSession, SessionsInv, SessionsTypeOK, VisitsFollow, Visit
<1>3. CASE t \in DOMAIN sessions
  <2>1. sessions[t] \in Session /\ sessions[t].created = issuedAt[t]
    BY <1>3 DEF SessionsInv, MapOK, IsSessionMap
  <2>2. NewExpiry(sessions[t]) \in Nat /\ NewExpiry(sessions[t]) <= now + IdleTTL
    BY <1>1, <2>1 DEF NewExpiry, Cap, Session
  <2>3. s \in Session /\ s.created = issuedAt[t] /\ s.expires <= now + IdleTTL
    BY <2>1, <2>2 DEF Session
  <2>4. /\ sessions' = Stored(t, s)
        /\ SaveSessions \/ DoNotSave
        /\ lastUse' = [lastUse EXCEPT ![t] = now]
    BY <1>3 DEF ExtendSession
  <2> HIDE DEF s
  <2>5. /\ lastUse' \in [Tokens -> Nat] /\ lastUse'[t] = now
        /\ \A x \in Tokens : lastUse[x] <= lastUse'[x] /\ lastUse'[x] <= now
    BY <1>1, <2>4 DEF SessionsInv, SessionsTypeOK
  <2>6. MapOK(sessions, issued', lastUse', issuedAt')
    BY <1>1, <2>5, MapLater DEF SessionsInv, SessionsTypeOK
  <2>7. MapOK(sessions', issued', lastUse', issuedAt')
    BY <1>1, <2>3, <2>4, <2>5, <2>6, MapStored
  <2>8. (revoked' \ excused) \intersect DOMAIN sessions' = {}
    BY <1>1, <1>3, <2>4 DEF Stored, SessionsInv, RevokedStaysOut
  <2>9. SaveSessions \/ (DoNotSave /\ UNCHANGED revoked)
    BY <1>1, <2>4
  <2>10. /\ issuedAt' \in [Tokens -> Nat] /\ issued \subseteq issued' /\ issued' \subseteq Tokens
         /\ revoked' \subseteq issued' /\ \A x \in issued : issuedAt'[x] = issuedAt[x]
    BY <1>1 DEF SessionsInv, SessionsTypeOK
  <2> QED
    BY <1>1, <1>2, <2>5, <2>7, <2>8, <2>9, <2>10, SessionsChange
<1>4. CASE t \notin DOMAIN sessions
  BY <1>1, <1>2, <1>4, VisitsChange DEF ExtendSession, sessionHistory
<1> QED
  BY <1>3, <1>4

LEMMA VisitSteps ==
    ASSUME SessionsInv, NEW p \in Visits,
           Serve(p) \/ \E t \in Tokens : Arrive(p, t)
    PROVE  SessionsInv'
<1>1. CASE Serve(p)
  <2>1. VisitsFollow
    BY <1>1, LeaveFollows DEF Serve, sessionHistory
  <2> QED
    BY <1>1, <2>1, VisitsChange DEF Serve
<1>2. ASSUME NEW t \in Tokens, Arrive(p, t) PROVE SessionsInv'
  <2>1. t \in issued /\ sessions[t] \in Session
    BY <1>2 DEF Arrive, Valid, SessionsInv, MapOK, IsSessionMap
  <2>2. [pc |-> "known", token |-> t, identity |-> sessions[t].identity] \in Visit
    BY <2>1 DEF Visit, Session
  <2>3. VisitsFollow
    BY <1>2, <2>1, <2>2 DEF Arrive, sessionHistory, SessionsInv, SessionsTypeOK, VisitsFollow
  <2> QED
    BY <1>2, <2>3, VisitsChange DEF Arrive
<1> QED
  BY <1>1, <1>2

\* A restart has the sessions of the file. If the last write failed, it may have
\* those that were revoked since, and all of them are excused.
LEMMA LoadSessionsStep ==
    ASSUME SessionsInv, LoadSessions
    PROVE  SessionsInv'
<1> DEFINE T == {x \in DOMAIN sessionsFile : now < sessionsFile[x].expires}
<1>1. /\ sessions' = [t \in T |-> sessionsFile[t]] /\ DOMAIN sessions' = T
      /\ T \subseteq DOMAIN sessionsFile
      /\ UNCHANGED <<now, sessionsFile, saveFailed, saveFaults, issued, lastUse, issuedAt, revoked>>
      /\ excused' = IF saveFailed THEN excused \union revoked ELSE excused
      /\ visit' = [p \in Visits |-> NoVisit]
  BY DEF LoadSessions
<1>2. MapOK(sessions', issued', lastUse', issuedAt')
  BY <1>1, MapSmaller DEF SessionsInv
<1> HIDE DEF T
<1>3. RevokedStaysOut' /\ (~saveFailed' => (revoked' \ excused') \intersect DOMAIN sessionsFile' = {})
  BY <1>1 DEF SessionsInv, RevokedStaysOut
<1>4. NoVisit \in Visit
  BY DEF NoVisit, Visit
<1>5. SessionsTypeOK'
  BY <1>1, <1>2, <1>4 DEF SessionsInv, SessionsTypeOK, MapOK, NoVisit
<1> QED
  BY <1>1, <1>2, <1>3, <1>5 DEF SessionsInv, NoVisit

LEMMA SessionsKept ==
    ASSUME SessionsInv, [SessionsNext]_sessionVars
    PROVE  SessionsInv'
<1>1. CASE SessionsTick
  <2>1. /\ now' = now + 1 /\ now' \in Nat
        /\ UNCHANGED <<sessionStore, visit, sessionHistory>>
    BY <1>1 DEF SessionsTick, SessionsInv, SessionsTypeOK
  <2> QED
    BY <2>1 DEF sessionStore, sessionHistory, SessionsInv, SessionsTypeOK, RevokedStaysOut, MapOK
<1>2. CASE UNCHANGED sessionVars
  BY <1>2 DEF sessionVars, sessionStore, sessionHistory, SessionsInv, SessionsTypeOK,
     RevokedStaysOut, MapOK
<1> QED
  BY <1>1, <1>2, CreateSessionStep, ExtendSessionStep, VisitSteps, EndingSteps, LoadSessionsStep
     DEF SessionsNext

LEMMA SessionsInitially == SessionsInit => SessionsInv
<1> SUFFICES ASSUME SessionsInit PROVE SessionsInv
  OBVIOUS
<1> USE SessionConstants
<1>1. PICK T \in SUBSET Tokens :
        /\ sessions = [t \in T |-> [identity |-> Legacy, created |-> 0, expires |-> IdleTTL]]
        /\ issued = T
  BY DEF SessionsInit
<1>2. IsSessionMap(sessions)
  BY <1>1 DEF IsSessionMap, Session
<1>3. MapOK(sessions, issued, lastUse, issuedAt)
  BY <1>1, <1>2 DEF SessionsInit, MapOK
<1>4. NoVisit \in Visit
  BY DEF NoVisit, Visit
<1>5. \A p \in Visits : visit[p].pc = "idle"
  BY DEF SessionsInit, NoVisit
<1>6. SessionsTypeOK
  BY <1>1, <1>2, <1>4, <1>5 DEF SessionsInit, SessionsTypeOK
<1>7. MapOK(sessionsFile, issued, lastUse, issuedAt)
  BY <1>3 DEF SessionsInit
<1> QED
  BY <1>3, <1>5, <1>6, <1>7 DEF SessionsInit, SessionsInv, RevokedStaysOut

\* A session that was ended is not in the map again, for any number of requests that
\* had looked it up, and across restarts that follow a write that went well.
THEOREM EndedForGood == SessionsSpec => []RevokedStaysOut
<1>1. SessionsInv /\ [SessionsNext]_sessionVars => SessionsInv'
  BY SessionsKept
<1>2. SessionsInv => RevokedStaysOut
  BY DEF SessionsInv
<1> QED
  BY <1>1, <1>2, SessionsInitially, PTL DEF SessionsSpec

\* Only a valid session lets a request in, and what is valid was used and issued
\* recently enough.
LEMMA ArrivalInTime ==
    ASSUME SessionsInv, SessionsNext, NEW p \in Visits, visit[p].pc = "idle",
           visit'[p].pc = "known"
    PROVE  /\ now <= lastUse[visit'[p].token] + IdleTTL
           /\ now <= issuedAt[visit'[p].token] + AbsoluteTTL
<1> USE SessionConstants
<1>1. visit \in [Visits -> Visit]
  BY DEF SessionsInv, SessionsTypeOK
<1>2. PICK q \in Visits, t \in Tokens : Arrive(q, t)
  <2>1. ASSUME NEW q \in Visits, ExtendSession(q) PROVE FALSE
    BY <1>1, <2>1 DEF ExtendSession
  <2>2. ASSUME NEW q \in Visits, Leave(q) PROVE FALSE
    BY <1>1, <2>2 DEF Leave, NoVisit
  <2>3. visit' # visit
    OBVIOUS
  <2>4. ~LoadSessions
    BY DEF LoadSessions, NoVisit
  <2> QED
    BY <2>1, <2>2, <2>3, <2>4 DEF SessionsNext, CreateSessionForUser, DropLegacy, Serve,
       RevokeOtherSessions, RevokeSession, Logout, CleanupSessions, SessionsTick
<1>3. q = p /\ visit'[p].token = t /\ Valid(t)
  BY <1>1, <1>2 DEF Arrive
<1>4. /\ sessions[t].created = issuedAt[t] /\ sessions[t].expires <= lastUse[t] + IdleTTL
      /\ sessions[t] \in Session
  BY <1>3 DEF Valid, SessionsInv, MapOK, IsSessionMap
<1> QED
  BY <1>3, <1>4 DEF Valid, Cap, Session, SessionsInv, SessionsTypeOK

\* A request is let in only in time, whatever was written to the file when.
THEOREM LetInInTime == SessionsSpec => AdmittedInTime
<1>1. SessionsInv /\ [SessionsNext]_sessionVars => SessionsInv'
  BY SessionsKept
<1>2. SessionsInv /\ [SessionsNext]_sessionVars =>
        [\A p \in Visits : visit[p].pc = "idle" /\ visit'[p].pc = "known" =>
            LET t == visit'[p].token
            IN  now <= lastUse[t] + IdleTTL /\ now <= issuedAt[t] + AbsoluteTTL]_sessionVars
  BY ArrivalInTime
<1> QED
  BY <1>1, <1>2, SessionsInitially, PTL DEF SessionsSpec, AdmittedInTime

-----------------------------------------------------------------------------
(* The log-in. The set-up token is either live or taken by one request, or *)
(* it is spent for good. The counter of the configuration is at least as   *)
(* high as every code that was accepted.                                   *)

HoldsToken(a) == attempt[a].pc \in {"setting", "reminting"}

WizardInv ==
    /\ setups <= 1
    /\ setups # 0 => config.done /\ setupToken = 0 /\ \A a \in Attempts : ~HoldsToken(a)
    /\ \A a \in Attempts : HoldsToken(a) => setupToken = 0
    /\ \A a, b \in Attempts : HoldsToken(a) /\ HoldsToken(b) => a = b

AttemptInv(a) ==
    /\ attempt[a].pc = "granting" => attempt[a].cleared
    /\ attempt[a].pc \in LoggingIn /\ ~TOTPEnabled => attempt[a].cleared
    /\ attempt[a].pc = "enrolling" => attempt[a].code # 0 /\ attempt[a].secret # NoSecret

CodesKnown == TOTPEnabled => \A c \in usedCodes : c <= config.last /\ config.last # 0

LoginInv ==
    /\ LoginTypeOK
    /\ ~configFailed => configFile = config
    /\ WizardInv
    /\ \A a \in Attempts : AttemptInv(a)
    /\ CodesKnown

LEMMA NoAttemptTyped == NoAttempt \in Attempt /\ Blank \in Config
  BY LoginConstants DEF NoAttempt, Attempt, AttemptPCs, Blank, Config

\* A request goes on or ends, and the configuration and the wizard stay.
LEMMA AttemptStep ==
    ASSUME LoginInv, NEW a \in Attempts, NEW x \in Attempt,
           attempt' = [attempt EXCEPT ![a] = x],
           x.pc \notin {"setting", "reminting"},
           x.pc = "granting" => x.cleared,
           x.pc \in LoggingIn /\ ~TOTPEnabled => x.cleared,
           x.pc = "enrolling" => x.code # 0 /\ x.secret # NoSecret,
           forms' \subseteq Forms,
           UNCHANGED <<step, envPassword, configStore, wizard, loginHistory>>
    PROVE  LoginInv'
<1>1. /\ attempt' \in [Attempts -> Attempt] /\ attempt'[a] = x
      /\ \A b \in Attempts \ {a} : attempt'[b] = attempt[b]
  BY DEF LoginInv, LoginTypeOK
<1>2. LoginTypeOK'
  BY <1>1 DEF LoginInv, LoginTypeOK, configStore, wizard, loginHistory
<1>3. WizardInv'
  <2>1. \A b \in Attempts : HoldsToken(b)' => HoldsToken(b) /\ b # a
    BY <1>1 DEF HoldsToken
  <2> QED
    BY <2>1 DEF LoginInv, WizardInv, configStore, wizard, loginHistory
<1>4. \A b \in Attempts : AttemptInv(b)'
  BY <1>1 DEF LoginInv, AttemptInv, TOTPEnabled, configStore
<1> QED
  BY <1>2, <1>3, <1>4 DEF LoginInv, CodesKnown, TOTPEnabled, configStore, loginHistory

\* The configuration changes, but not whether the wizard is done.
LEMMA ConfigStep ==
    ASSUME LoginInv, NEW a \in Attempts, NEW x \in Attempt,
           attempt' \in [Attempts -> Attempt], attempt'[a] = x,
           \A b \in Attempts \ {a} : /\ attempt'[b].pc = attempt[b].pc
                                     /\ attempt'[b].code = attempt[b].code
                                     /\ attempt'[b].secret = attempt[b].secret
                                     /\ attempt[b].cleared => attempt'[b].cleared
                                     /\ attempt[b].pc \in LoggingIn /\ TOTPEnabled /\ ~TOTPEnabled'
                                            => attempt'[b].cleared,
           x.pc \notin {"setting", "reminting", "enrolling"}, x.pc \notin LoggingIn,
           x.pc = "granting" => x.cleared,
           config' \in Config, config'.done = config.done,
           ConfigSaved \/ ConfigNotSaved,
           usedCodes' \subseteq Nat, CodesKnown',
           forms' \subseteq Forms, UNCHANGED <<step, envPassword, wizard, setups>>
    PROVE  LoginInv'
<1>1. /\ configFile' \in Config /\ configFailed' \in BOOLEAN /\ configFaults' \in Nat
      /\ ~configFailed' => configFile' = config'
  <2>1. CASE ConfigSaved
    BY <2>1 DEF ConfigSaved, LoginInv, LoginTypeOK
  <2>2. CASE ConfigNotSaved
    BY <2>2, NoAttemptTyped DEF ConfigNotSaved, LoginInv, LoginTypeOK
  <2> QED
    BY <2>1, <2>2
<1>2. LoginTypeOK'
  BY <1>1 DEF LoginInv, LoginTypeOK, wizard
<1>3. WizardInv'
  <2>1. \A b \in Attempts : HoldsToken(b)' => HoldsToken(b)
    BY DEF HoldsToken
  <2> QED
    BY <2>1 DEF LoginInv, WizardInv, wizard
<1>4. ASSUME NEW b \in Attempts PROVE AttemptInv(b)'
  <2>1. AttemptInv(b)
    BY DEF LoginInv
  <2> QED
    BY <2>1 DEF AttemptInv, LoggingIn
<1> QED
  BY <1>1, <1>2, <1>3, <1>4 DEF LoginInv

LEMMA OpenTyped ==
    ASSUME NEW pc \in AttemptPCs, NEW secret \in Secrets \union {NoSecret}, NEW code \in Nat
    PROVE  [pc |-> pc, secret |-> secret, code |-> code,
            cleared |-> pc \in LoggingIn /\ ~TOTPEnabled] \in Attempt
<1>1. ASSUME NEW b \in BOOLEAN
      PROVE  [pc |-> pc, secret |-> secret, code |-> code, cleared |-> b] \in Attempt
  BY DEF Attempt
<1>2. (pc \in LoggingIn /\ ~TOTPEnabled) \in BOOLEAN
  OBVIOUS
<1> QED
  BY <1>1, <1>2

\* The four ways in which a request moves on without a change of the configuration
LEMMA MovingSteps ==
    ASSUME LoginInv, NEW a \in Attempts, NEW pc \in AttemptPCs,
           pc \notin {"setting", "reminting", "granting"},
           \/ Close(a)
           \/ LetIn(a, TRUE) \/ (LetIn(a, attempt[a].cleared) /\ attempt[a].cleared)
           \/ /\ MoveTo(a, pc) /\ pc # "enrolling"
              /\ pc \in LoggingIn => attempt[a].pc \in LoggingIn
           \/ \E secret \in Secrets \union {NoSecret}, code \in Nat :
                    /\ Open(a, pc, secret, code)
                    /\ pc = "enrolling" => code # 0 /\ secret # NoSecret,
           forms' \subseteq Forms,
           UNCHANGED <<step, envPassword, configStore, wizard, loginHistory>>
    PROVE  LoginInv'
<1> USE NoAttemptTyped
<1>1. attempt[a] \in Attempt
  BY DEF LoginInv, LoginTypeOK
<1>2. CASE Close(a)
  BY <1>2, AttemptStep DEF Close, NoAttempt, LoggingIn
<1>3. CASE LetIn(a, TRUE) \/ (LetIn(a, attempt[a].cleared) /\ attempt[a].cleared)
  <2>1. /\ [NoAttempt EXCEPT !.pc = "granting", !.cleared = TRUE] \in Attempt
        /\ [NoAttempt EXCEPT !.pc = "granting", !.cleared = TRUE].pc = "granting"
        /\ [NoAttempt EXCEPT !.pc = "granting", !.cleared = TRUE].cleared = TRUE
    BY DEF NoAttempt, Attempt, AttemptPCs
  <2>2. attempt' = [attempt EXCEPT ![a] = [NoAttempt EXCEPT !.pc = "granting", !.cleared = TRUE]]
    BY <1>1, <1>3 DEF LetIn, Attempt
  <2> QED
    BY <2>1, <2>2, AttemptStep DEF LoggingIn
<1>4. CASE MoveTo(a, pc) /\ pc # "enrolling" /\ (pc \in LoggingIn => attempt[a].pc \in LoggingIn)
  <2> DEFINE x == [attempt[a] EXCEPT !.pc = pc]
  <2>1. x \in Attempt /\ x.pc = pc /\ x.cleared = attempt[a].cleared
    BY <1>1 DEF Attempt
  <2>2. attempt' = [attempt EXCEPT ![a] = x]
    BY <1>1, <1>4 DEF MoveTo, Attempt, LoginInv, LoginTypeOK
  <2>3. pc \in LoggingIn /\ ~TOTPEnabled => attempt[a].cleared
    BY <1>4 DEF LoginInv, AttemptInv
  <2> HIDE DEF x
  <2> QED
    BY <1>4, <2>1, <2>2, <2>3, AttemptStep
<1>5. ASSUME NEW secret \in Secrets \union {NoSecret}, NEW code \in Nat,
             Open(a, pc, secret, code), pc = "enrolling" => code # 0 /\ secret # NoSecret
      PROVE  LoginInv'
  <2> DEFINE x == [pc |-> pc, secret |-> secret, code |-> code,
                   cleared |-> pc \in LoggingIn /\ ~TOTPEnabled]
  <2>1. x \in Attempt /\ x.pc = pc /\ x.code = code /\ x.secret = secret
    BY OpenTyped
  <2>2. attempt' = [attempt EXCEPT ![a] = x]
    BY <1>5 DEF Open
  <2>3. pc \in LoggingIn /\ ~TOTPEnabled => x.cleared
    OBVIOUS
  <2> HIDE DEF x
  <2> QED
    BY <1>5, <2>1, <2>2, <2>3, AttemptStep
<1> QED
  BY <1>2, <1>3, <1>4, <1>5

LEMMA FormsStay ==
    ASSUME LoginInv, NewForm \/ UNCHANGED forms \/ (\E f \in forms : forms' = forms \ {f})
    PROVE  forms' \subseteq Forms
  BY DEF NewForm, LoginInv, LoginTypeOK

\* A code that is accepted is higher than all that were.
LEMMA AcceptedCode ==
    ASSUME LoginInv, NEW code \in Nat, AcceptCode(code)
    PROVE  /\ config' \in Config /\ config'.done = config.done
           /\ ConfigSaved \/ ConfigNotSaved \/ UNCHANGED configStore
           /\ TOTPEnabled' = TOTPEnabled
           /\ usedCodes' \subseteq Nat /\ CodesKnown'
           /\ TOTPEnabled => /\ ConfigSaved \/ ConfigNotSaved
                             /\ usedCodes' # usedCodes
           /\ ~TOTPEnabled => UNCHANGED <<configStore, usedCodes>>
<1>1. config \in Config /\ usedCodes \subseteq Nat /\ CodesKnown
  BY DEF LoginInv, LoginTypeOK
<1>2. CASE TOTPEnabled
  <2>1. /\ code # 0 /\ (config.last # 0 => code > config.last)
        /\ config' = [config EXCEPT !.last = code] /\ usedCodes' = usedCodes \union {code}
        /\ ConfigSaved \/ ConfigNotSaved
    BY <1>2 DEF AcceptCode, CodeFresh, InWindow
  <2>2. /\ config' \in Config /\ config'.done = config.done /\ config'.secret = config.secret
        /\ config'.last = code
    BY <1>1, <2>1 DEF Config
  <2>3. TOTPEnabled' = TOTPEnabled
    BY <2>2 DEF TOTPEnabled
  <2>4. \A c \in usedCodes : c < code /\ c \in Nat
    BY <1>1, <1>2, <2>1 DEF CodesKnown, Config
  <2>5. usedCodes' # usedCodes
    BY <2>1, <2>4
  <2>6. CodesKnown'
    BY <2>1, <2>2, <2>4 DEF CodesKnown
  <2> QED
    BY <1>1, <1>2, <2>1, <2>2, <2>3, <2>5, <2>6
<1>3. CASE ~TOTPEnabled
  BY <1>1, <1>3 DEF AcceptCode, configStore, TOTPEnabled, CodesKnown
<1> QED
  BY <1>2, <1>3

LEMMA CodeSteps ==
    ASSUME LoginInv, NEW a \in Attempts, NEW code \in Nat,
           VerifyCode(a, code) \/ CheckDisableCode(a, code)
    PROVE  LoginInv'
<1> USE NoAttemptTyped
<1>1. attempt[a] \in Attempt /\ attempt \in [Attempts -> Attempt] /\ forms \subseteq Forms
  BY DEF LoginInv, LoginTypeOK
<1>2. CASE RefuseCode(code) /\ Close(a) /\ (NewForm \/ UNCHANGED forms)
  <2>1. UNCHANGED <<step, envPassword, configStore, wizard, loginHistory>>
    BY <1>2 DEF VerifyCode, CheckDisableCode, RefuseCode, loginHistory
  <2>2. "idle" \in AttemptPCs
    BY DEF AttemptPCs
  <2> QED
    BY <1>2, <2>1, <2>2, FormsStay, MovingSteps
<1>3. CASE AcceptCode(code) /\ UNCHANGED forms /\ (LetIn(a, TRUE) \/ MoveTo(a, "clearing"))
  <2>1. UNCHANGED <<step, envPassword, wizard, setups, forms>>
    BY <1>3 DEF VerifyCode, CheckDisableCode
  <2>2. CASE ~TOTPEnabled
    <3>1. UNCHANGED <<step, envPassword, configStore, wizard, loginHistory>> /\ forms' \subseteq Forms
      BY <1>1, <1>3, <2>1, <2>2, AcceptedCode DEF loginHistory
    <3>2. "clearing" \in AttemptPCs /\ "clearing" \notin LoggingIn
      BY DEF AttemptPCs, LoggingIn
    <3> QED
      BY <1>3, <3>1, <3>2, MovingSteps
  <2>3. CASE TOTPEnabled
    <3> DEFINE x == attempt'[a]
    <3>1. /\ [NoAttempt EXCEPT !.pc = "granting", !.cleared = TRUE] \in Attempt
          /\ [attempt[a] EXCEPT !.pc = "clearing"] \in Attempt
      BY <1>1 DEF NoAttempt, Attempt, AttemptPCs
    <3>2. attempt' \in [Attempts -> Attempt] /\ x \in Attempt
      BY <1>1, <1>3, <3>1 DEF LetIn, MoveTo
    <3>3. x.pc \in {"granting", "clearing"} /\ (x.pc = "granting" => x.cleared)
      <4>1. CASE LetIn(a, TRUE)
        BY <1>1, <4>1 DEF LetIn, NoAttempt
      <4>2. CASE MoveTo(a, "clearing")
        BY <1>1, <4>2 DEF MoveTo, Attempt
      <4> QED
        BY <1>3, <4>1, <4>2
    <3>4. \A b \in Attempts \ {a} : attempt'[b] = attempt[b]
      BY <1>1, <1>3 DEF LetIn, MoveTo
    <3>5. x.pc \notin {"setting", "reminting", "enrolling"} /\ x.pc \notin LoggingIn
      BY <3>3 DEF LoggingIn
    <3>6. /\ config' \in Config /\ config'.done = config.done
          /\ ConfigSaved \/ ConfigNotSaved
          /\ usedCodes' \subseteq Nat /\ CodesKnown' /\ TOTPEnabled' = TOTPEnabled
      BY <1>3, <2>3, AcceptedCode
    <3> HIDE DEF x
    <3> QED
      BY <1>1, <2>1, <2>3, <3>2, <3>3, <3>4, <3>5, <3>6, ConfigStep DEF x
  <2> QED
    BY <2>2, <2>3
<1> QED
  BY <1>2, <1>3 DEF VerifyCode, CheckDisableCode

LEMMA EnableStep ==
    ASSUME LoginInv, NEW a \in Attempts, EnableTOTP(a)
    PROVE  LoginInv'
<1> USE NoAttemptTyped, LoginConstants
<1>1. /\ attempt[a] \in Attempt /\ attempt \in [Attempts -> Attempt] /\ config \in Config
      /\ forms \subseteq Forms
  BY DEF LoginInv, LoginTypeOK
<1>2. attempt[a].code # 0 /\ attempt[a].secret # NoSecret /\ attempt[a].code \in Nat
  BY <1>1 DEF EnableTOTP, LoginInv, AttemptInv, Attempt
<1>3. /\ config' \in Config /\ config'.done = config.done
      /\ config'.secret = attempt[a].secret /\ config'.last = attempt[a].code
  BY <1>1 DEF EnableTOTP, Config, Attempt
<1>4. CodesKnown' /\ usedCodes' \subseteq Nat /\ TOTPEnabled'
  BY <1>2, <1>3 DEF EnableTOTP, CodesKnown, TOTPEnabled
<1>5. /\ attempt' = [attempt EXCEPT ![a] = NoAttempt] /\ NoAttempt.pc = "idle"
      /\ UNCHANGED <<step, envPassword, wizard, forms, setups>>
      /\ ConfigSaved \/ ConfigNotSaved
  BY DEF EnableTOTP, Close, NoAttempt
<1>6. attempt' \in [Attempts -> Attempt] /\ attempt'[a] = NoAttempt
  BY <1>1, <1>5
<1>7. \A b \in Attempts \ {a} : attempt'[b] = attempt[b]
  BY <1>1, <1>5
<1>8. NoAttempt.pc \notin LoggingIn
  BY <1>5 DEF LoggingIn
<1> QED
  BY <1>1, <1>3, <1>4, <1>5, <1>6, <1>7, <1>8, ConfigStep

LEMMA DisableStep ==
    ASSUME LoginInv, NEW a \in Attempts, DisableTOTP(a)
    PROVE  LoginInv'
<1> USE NoAttemptTyped, LoginConstants
<1>1. /\ attempt \in [Attempts -> Attempt] /\ config \in Config /\ forms \subseteq Forms
      /\ usedCodes \subseteq Nat
  BY DEF LoginInv, LoginTypeOK
<1>2. /\ config' \in Config /\ config'.done = config.done /\ config'.secret = NoSecret
      /\ UNCHANGED <<step, envPassword, wizard, forms, usedCodes, setups>>
      /\ ConfigSaved \/ ConfigNotSaved
  BY <1>1 DEF DisableTOTP, Config, loginHistory
<1>3. CodesKnown' /\ ~TOTPEnabled'
  BY <1>2 DEF CodesKnown, TOTPEnabled
<1>4. attempt' = [b \in Attempts |-> IF b = a THEN NoAttempt
                    ELSE [attempt[b] EXCEPT !.cleared = @ \/ attempt[b].pc \in LoggingIn]]
  BY DEF DisableTOTP
<1>5. ASSUME NEW b \in Attempts \ {a}
      PROVE  /\ attempt'[b] \in Attempt /\ attempt'[b].pc = attempt[b].pc
             /\ attempt'[b].code = attempt[b].code /\ attempt'[b].secret = attempt[b].secret
             /\ attempt[b].cleared \/ attempt[b].pc \in LoggingIn => attempt'[b].cleared
  <2>1. attempt[b] \in Attempt
    BY <1>1
  <2>2. attempt'[b] = [attempt[b] EXCEPT !.cleared = @ \/ attempt[b].pc \in LoggingIn]
    BY <1>4, <1>5
  <2>3. ASSUME NEW c \in BOOLEAN PROVE [attempt[b] EXCEPT !.cleared = c] \in Attempt
    BY <2>1 DEF Attempt
  <2>4. (attempt[b].cleared \/ attempt[b].pc \in LoggingIn) \in BOOLEAN
    OBVIOUS
  <2>5. attempt'[b] \in Attempt
    BY <2>2, <2>3, <2>4
  <2> QED
    BY <2>1, <2>2, <2>5 DEF Attempt
<1>6. attempt' \in [Attempts -> Attempt] /\ attempt'[a] = NoAttempt
  BY <1>4, <1>5
<1>7. NoAttempt.pc = "idle" /\ NoAttempt.pc \notin LoggingIn
  BY DEF NoAttempt, LoggingIn
<1> QED
  BY <1>1, <1>2, <1>3, <1>5, <1>6, <1>7, ConfigStep

LEMMA LogInSteps ==
    ASSUME LoginInv, NEW a \in Attempts, LogIn(a)
    PROVE  LoginInv'
<1> USE NoAttemptTyped
<1>1. {"idle", "limiting", "password", "factor", "code"} \subseteq AttemptPCs
  BY DEF AttemptPCs
<1>2. LoggingIn = {"limiting", "password", "factor", "code"}
  BY DEF LoggingIn
<1>3. CASE SubmitLogin(a) \/ SubmitJSONLogin(a)
  <2>1. forms' \subseteq Forms
    BY <1>3, FormsStay DEF SubmitLogin, SubmitJSONLogin
  <2>2. Open(a, "limiting", NoSecret, 0)
    BY <1>3 DEF SubmitLogin, SubmitJSONLogin
  <2>3. UNCHANGED <<step, envPassword, configStore, wizard, loginHistory>>
    BY <1>3 DEF SubmitLogin, SubmitJSONLogin
  <2> QED
    BY <1>1, <2>1, <2>2, <2>3, MovingSteps
<1>4. CASE Allow(a) \/ ResolveLogin(a) \/ AskFactor(a)
  <2>1. forms' \subseteq Forms
    BY <1>4, FormsStay DEF Allow, ResolveLogin, AskFactor
  <2>2. UNCHANGED <<step, envPassword, configStore, wizard, loginHistory>>
    BY <1>4 DEF Allow, ResolveLogin, AskFactor
  <2>3. \/ Close(a)
        \/ LetIn(a, TRUE) \/ (LetIn(a, attempt[a].cleared) /\ attempt[a].cleared)
        \/ \E pc \in {"password", "factor", "code"} : MoveTo(a, pc) /\ attempt[a].pc \in LoggingIn
    BY <1>2, <1>4 DEF Allow, ResolveLogin, AskFactor, AfterPassword, LoginInv, AttemptInv
  <2> QED
    BY <1>1, <1>2, <2>1, <2>2, <2>3, MovingSteps
<1>5. ASSUME NEW code \in Codes, VerifyCode(a, code) PROVE LoginInv'
  <2>1. code \in Nat
    BY LoginConstants DEF Codes
  <2> QED
    BY <1>5, <2>1, CodeSteps
<1>6. CASE Grant(a)
  <2>1. forms' \subseteq Forms
    BY <1>6, FormsStay DEF Grant
  <2> QED
    BY <1>1, <1>6, <2>1, MovingSteps DEF Grant
<1> QED
  BY <1>3, <1>4, <1>5, <1>6 DEF LogIn

LEMMA ManageSteps ==
    ASSUME LoginInv, NEW a \in Attempts, ManageTOTP(a)
    PROVE  LoginInv'
<1> USE NoAttemptTyped, LoginConstants
<1>1. \A code \in Codes : code \in Nat
  BY DEF Codes
<1>2. forms \subseteq Forms
  BY DEF LoginInv, LoginTypeOK
<1>3. ASSUME NEW secret \in Secrets, NEW code \in Codes, BeginEnable(a, secret, code)
      PROVE  LoginInv'
  <2>1. code # 0 /\ secret # NoSecret /\ "enrolling" \in AttemptPCs
    BY <1>1, <1>3 DEF BeginEnable, InWindow, AttemptPCs
  <2>2. Open(a, "enrolling", secret, code)
    BY <1>3 DEF BeginEnable
  <2> QED
    <3>1. UNCHANGED <<step, envPassword, configStore, wizard, forms, loginHistory>>
      BY <1>3 DEF BeginEnable
    <3>2. code \in Nat /\ forms' \subseteq Forms
      BY <1>1, <1>2, <3>1
    <3>3. \E s \in Secrets \union {NoSecret}, c \in Nat :
             /\ Open(a, "enrolling", s, c)
             /\ "enrolling" = "enrolling" => c # 0 /\ s # NoSecret
      BY <2>1, <2>2, <3>2
    <3>4. UNCHANGED <<step, envPassword, configStore, wizard, loginHistory>>
      BY <3>1
    <3> QED
      BY <2>1, <3>2, <3>3, <3>4, MovingSteps
<1>4. CASE BeginDisable(a)
  <2>1. "disabling" \in AttemptPCs
    BY DEF AttemptPCs
  <2>2. Open(a, "disabling", NoSecret, 0)
    BY <1>4 DEF BeginDisable
  <2> QED
    BY <1>2, <1>4, <2>1, <2>2, MovingSteps DEF BeginDisable
<1> QED
  BY <1>1, <1>3, <1>4, CodeSteps, EnableStep, DisableStep DEF ManageTOTP

LEMMA SetUpSteps ==
    ASSUME LoginInv, NEW a \in Attempts, SetUp(a)
    PROVE  LoginInv'
<1> USE NoAttemptTyped
<1>1. /\ attempt[a] \in Attempt /\ attempt \in [Attempts -> Attempt] /\ config \in Config
      /\ setupToken \in Nat /\ minted \in Nat /\ configFaults \in Nat
  BY DEF LoginInv, LoginTypeOK
<1>2. \A pc \in AttemptPCs : /\ [attempt[a] EXCEPT !.pc = pc] \in Attempt
                             /\ [attempt[a] EXCEPT !.pc = pc].pc = pc
  BY <1>1 DEF Attempt
<1>3. {"idle", "form", "token", "setting", "reminting"} \subseteq AttemptPCs
  BY DEF AttemptPCs
<1>4. "form" \notin LoggingIn /\ "token" \notin LoggingIn /\ "idle" \notin LoggingIn
      /\ "setting" \notin LoggingIn /\ "reminting" \notin LoggingIn
  BY DEF LoggingIn
<1>5. CASE BeginSetup(a)
  <2>1. forms' \subseteq Forms /\ Open(a, "form", NoSecret, 0)
    BY <1>5, FormsStay DEF BeginSetup
  <2> QED
    BY <1>3, <1>5, <2>1, MovingSteps DEF BeginSetup
<1>6. CASE CheckSetupForm(a)
  <2>1. forms' \subseteq Forms
    BY <1>6, FormsStay DEF CheckSetupForm
  <2> QED
    BY <1>3, <1>4, <1>6, <2>1, MovingSteps DEF CheckSetupForm
<1>7. ASSUME NEW token, ConsumeSetupToken(a, token) PROVE LoginInv'
  <2>1. forms' \subseteq Forms
    BY <1>7, FormsStay DEF ConsumeSetupToken
  <2>2. CASE /\ setupToken # 0 /\ setupToken' = 0 /\ MoveTo(a, "setting")
    <3>1. /\ attempt' \in [Attempts -> Attempt] /\ attempt'[a].pc = "setting"
          /\ \A b \in Attempts \ {a} : attempt'[b] = attempt[b]
      BY <1>1, <1>2, <1>3, <2>2 DEF MoveTo
    <3>2. UNCHANGED <<step, envPassword, configStore, minted, loginHistory>>
      BY <1>7 DEF ConsumeSetupToken
    <3>3. \A b \in Attempts : ~HoldsToken(b)
      BY <2>2 DEF LoginInv, WizardInv
    <3>4. WizardInv'
      BY <2>2, <3>1, <3>2, <3>3 DEF LoginInv, WizardInv, HoldsToken, configStore, loginHistory
    <3>5. \A b \in Attempts : AttemptInv(b)'
      BY <1>4, <3>1, <3>2 DEF LoginInv, AttemptInv, TOTPEnabled, configStore
    <3>6. LoginTypeOK'
      BY <2>1, <2>2, <3>1, <3>2 DEF LoginInv, LoginTypeOK, configStore, loginHistory
    <3> QED
      BY <3>2, <3>4, <3>5, <3>6 DEF LoginInv, CodesKnown, TOTPEnabled, configStore, loginHistory
  <2>3. CASE Close(a) /\ UNCHANGED setupToken
    <3>1. UNCHANGED <<step, envPassword, configStore, wizard, loginHistory>>
      BY <1>7, <2>3 DEF ConsumeSetupToken, wizard
    <3> QED
      BY <1>3, <2>1, <2>3, <3>1, MovingSteps
  <2> QED
    BY <1>7, <2>2, <2>3 DEF ConsumeSetupToken, TokenSpent
<1>8. CASE SetPassword(a)
  <2>1. /\ attempt[a].pc = "setting"
        /\ UNCHANGED <<step, envPassword, setupToken, minted, forms, usedCodes>>
    BY <1>8 DEF SetPassword, wizard
  <2>2. HoldsToken(a) /\ setups = 0 /\ setupToken = 0
        /\ \A b \in Attempts \ {a} : ~HoldsToken(b)
    BY <2>1 DEF HoldsToken, LoginInv, LoginTypeOK, WizardInv
  <2>3. \/ config' = [config EXCEPT !.done = TRUE] /\ (ConfigSaved \/ ConfigNotSaved)
        \/ UNCHANGED configStore
    BY <1>8 DEF SetPassword
  <2>4. /\ attempt' \in [Attempts -> Attempt] /\ attempt'[a].pc \in {"idle", "reminting"}
        /\ \A b \in Attempts \ {a} : attempt'[b] = attempt[b]
    <3>1. CASE Close(a)
      BY <1>1, <3>1 DEF Close, NoAttempt
    <3>2. CASE MoveTo(a, "reminting")
      BY <1>1, <1>2, <1>3, <3>2 DEF MoveTo
    <3> QED
      BY <1>8, <3>1, <3>2 DEF SetPassword
  <2>5. /\ config' \in Config /\ configFile' \in Config /\ configFailed' \in BOOLEAN
        /\ configFaults' \in Nat /\ (~configFailed' => configFile' = config')
        /\ config'.secret = config.secret /\ config'.last = config.last
    <3>1. CASE config' = [config EXCEPT !.done = TRUE] /\ ConfigSaved
      BY <1>1, <3>1 DEF ConfigSaved, Config
    <3>2. CASE config' = [config EXCEPT !.done = TRUE] /\ ConfigNotSaved
      <4>1. /\ config' \in Config
            /\ config'.secret = config.secret /\ config'.last = config.last
        BY <1>1, <3>2 DEF Config
      <4>2. configFile \in Config
        BY DEF LoginInv, LoginTypeOK
      <4>3. configFile' \in Config /\ configFailed' = TRUE /\ configFaults' \in Nat
        BY <1>1, <3>2, <4>2 DEF ConfigNotSaved
      <4> QED
        BY <4>1, <4>3
    <3>3. CASE UNCHANGED configStore
      BY <1>1, <3>3 DEF configStore, LoginInv, LoginTypeOK
    <3> QED
      BY <1>8, <3>1, <3>2, <3>3 DEF SetPassword
  <2>6. setups' = 0 \/ (setups' = 1 /\ config'.done /\ attempt'[a].pc = "idle")
    <3>1. CASE config' = [config EXCEPT !.done = TRUE] /\ setups' = setups + 1 /\ Close(a)
      BY <1>1, <2>2, <3>1 DEF Close, NoAttempt, Config
    <3>2. CASE UNCHANGED setups
      BY <2>2, <3>2
    <3> QED
      BY <1>8, <3>1, <3>2 DEF SetPassword
  <2>7. WizardInv'
    BY <2>1, <2>2, <2>4, <2>6 DEF WizardInv, HoldsToken
  <2>8. \A b \in Attempts : AttemptInv(b)'
    BY <1>4, <2>4, <2>5 DEF LoginInv, AttemptInv, TOTPEnabled
  <2>9. LoginTypeOK'
    BY <2>1, <2>4, <2>5, <2>6 DEF LoginInv, LoginTypeOK
  <2> QED
    BY <2>1, <2>5, <2>7, <2>8, <2>9 DEF LoginInv, CodesKnown, TOTPEnabled
<1>9. CASE RegenerateSetupToken(a)
  <2>1. /\ attempt[a].pc = "reminting" /\ minted' = minted + 1 /\ setupToken' = minted'
        /\ UNCHANGED <<step, envPassword, configStore, loginHistory>>
        /\ attempt' = [attempt EXCEPT ![a] = NoAttempt]
    BY <1>9 DEF RegenerateSetupToken, Close
  <2>2. forms' \subseteq Forms
    BY <1>9, FormsStay DEF RegenerateSetupToken
  <2>3. setups = 0 /\ \A b \in Attempts \ {a} : ~HoldsToken(b)
    BY <2>1 DEF HoldsToken, LoginInv, LoginTypeOK, WizardInv
  <2>4. /\ attempt' \in [Attempts -> Attempt] /\ attempt'[a].pc = "idle"
        /\ \A b \in Attempts \ {a} : attempt'[b] = attempt[b]
    BY <1>1, <2>1 DEF NoAttempt
  <2>5. WizardInv'
    BY <2>1, <2>3, <2>4 DEF WizardInv, HoldsToken, loginHistory
  <2>6. \A b \in Attempts : AttemptInv(b)'
    BY <1>4, <2>1, <2>4 DEF LoginInv, AttemptInv, TOTPEnabled, configStore
  <2>7. LoginTypeOK'
    BY <1>1, <2>1, <2>2, <2>4 DEF LoginInv, LoginTypeOK, configStore, loginHistory
  <2> QED
    BY <2>1, <2>5, <2>6, <2>7 DEF LoginInv, CodesKnown, TOTPEnabled, configStore, loginHistory
<1> QED
  BY <1>5, <1>6, <1>7, <1>8, <1>9 DEF SetUp

\* The forms, the clock and a restart
LEMMA OtherLoginSteps ==
    ASSUME LoginInv, ShowForm \/ CleanupForms \/ LoginTick \/ NewAdminAuth
    PROVE  LoginInv'
<1> USE NoAttemptTyped
<1>1. CASE ShowForm \/ CleanupForms \/ LoginTick
  <2>1. forms' \subseteq Forms /\ step' \in Nat
    BY <1>1 DEF ShowForm, CleanupForms, LoginTick, LoginInv, LoginTypeOK
  <2>2. UNCHANGED <<envPassword, configStore, wizard, attempt, loginHistory>>
    BY <1>1 DEF ShowForm, CleanupForms, LoginTick
  <2>3. LoginTypeOK'
    BY <2>1, <2>2 DEF LoginInv, LoginTypeOK, configStore, wizard, loginHistory
  <2>4. WizardInv' /\ \A a \in Attempts : AttemptInv(a)'
    BY <2>2 DEF LoginInv, WizardInv, HoldsToken, AttemptInv, TOTPEnabled, configStore, wizard,
       loginHistory
  <2> QED
    BY <2>2, <2>3, <2>4 DEF LoginInv, CodesKnown, TOTPEnabled, configStore, loginHistory
<1>2. CASE NewAdminAuth
  <2>1. /\ config' = configFile /\ forms' = {} /\ attempt' = [a \in Attempts |-> NoAttempt]
        /\ UNCHANGED <<step, envPassword, configFile, configFailed, configFaults>>
        /\ IF ~envPassword /\ ~config'.done
           THEN minted' = minted + 1 /\ setupToken' = minted'
           ELSE setupToken' = 0 /\ UNCHANGED minted
        /\ IF configFailed THEN usedCodes' = {} /\ setups' = 0
           ELSE UNCHANGED <<usedCodes, setups>>
    BY <1>2 DEF NewAdminAuth, loginHistory
  <2>2. NoAttempt.pc = "idle"
    BY DEF NoAttempt
  <2>3. LoginTypeOK'
    <3>1. minted' \in Nat /\ setupToken' \in Nat
      <4>1. minted \in Nat
        BY DEF LoginInv, LoginTypeOK
      <4>2. \/ minted' = minted + 1 /\ setupToken' = minted'
            \/ setupToken' = 0 /\ minted' = minted
        BY <2>1
      <4> QED
        BY <4>1, <4>2
    <3>2. usedCodes' \subseteq Nat /\ setups' \in Nat
      <4>1. usedCodes \subseteq Nat /\ setups \in Nat
        BY DEF LoginInv, LoginTypeOK
      <4>2. CASE configFailed
        BY <2>1, <4>2
      <4>3. CASE ~configFailed
        BY <2>1, <4>1, <4>3
      <4> QED
        BY <4>2, <4>3
    <3>3. attempt' \in [Attempts -> Attempt] /\ forms' \subseteq Forms
      BY <2>1
    <3>4. config' \in Config
      BY <2>1 DEF LoginInv, LoginTypeOK
    <3> HIDE NoAttemptTyped
    <3> QED
      BY <2>1, <3>1, <3>2, <3>3, <3>4 DEF LoginInv, LoginTypeOK
  <2>4. \A a \in Attempts : attempt'[a].pc = "idle"
    BY <2>1, <2>2
  <2>5. \A a \in Attempts : ~HoldsToken(a)' /\ AttemptInv(a)'
    BY <2>4 DEF HoldsToken, AttemptInv, LoggingIn
  <2>6. CASE configFailed
    <3>1. WizardInv' /\ CodesKnown'
      BY <2>1, <2>5, <2>6 DEF WizardInv, CodesKnown
    <3> QED
      BY <2>1, <2>3, <2>5, <2>6, <3>1 DEF LoginInv
  <2>7. CASE ~configFailed
    <3>1. config' = config /\ UNCHANGED <<usedCodes, setups>>
      BY <2>1, <2>7 DEF LoginInv
    <3>2. setups # 0 => config'.done /\ setupToken' = 0
      BY <2>1, <3>1 DEF LoginInv, WizardInv
    <3>3. WizardInv'
      BY <2>5, <3>1, <3>2 DEF LoginInv, WizardInv
    <3>4. CodesKnown'
      BY <3>1 DEF LoginInv, CodesKnown, TOTPEnabled
    <3> QED
      BY <2>1, <2>3, <2>5, <3>1, <3>3, <3>4 DEF LoginInv
  <2> QED
    BY <2>6, <2>7
<1> QED
  BY <1>1, <1>2

LEMMA LoginKept ==
    ASSUME LoginInv, [LoginNext]_loginVars
    PROVE  LoginInv'
<1>1. CASE LoginNext
  BY <1>1, OtherLoginSteps, LogInSteps, SetUpSteps, ManageSteps DEF LoginNext
<1>2. CASE UNCHANGED loginVars
  <2>1. LoginTypeOK'
    BY <1>2 DEF LoginInv, LoginTypeOK, loginVars, configStore, wizard, loginHistory
  <2>2. WizardInv' /\ \A a \in Attempts : AttemptInv(a)'
    BY <1>2 DEF LoginInv, WizardInv, HoldsToken, AttemptInv, TOTPEnabled, loginVars, configStore,
       wizard, loginHistory
  <2> QED
    BY <1>2, <2>1, <2>2 DEF LoginInv, CodesKnown, TOTPEnabled, loginVars, configStore, loginHistory
<1> QED
  BY <1>1, <1>2

LEMMA LoginInitially == LoginInit => LoginInv
<1> SUFFICES ASSUME LoginInit PROVE LoginInv
  OBVIOUS
<1> USE NoAttemptTyped
<1>1. \A a \in Attempts : attempt[a] = NoAttempt /\ NoAttempt.pc = "idle"
  BY DEF LoginInit, NoAttempt
<1>2. LoginTypeOK
  BY DEF LoginInit, LoginTypeOK
<1>3. WizardInv /\ \A a \in Attempts : AttemptInv(a)
  BY <1>1 DEF LoginInit, WizardInv, HoldsToken, AttemptInv, LoggingIn
<1> QED
  BY <1>2, <1>3 DEF LoginInv, LoginInit, CodesKnown

\* The set-up wizard succeeds at most once, for any number of requests and tokens.
THEOREM SetUpIsOnce == LoginSpec => []SetupOnce
<1>1. LoginInv /\ [LoginNext]_loginVars => LoginInv'
  BY LoginKept
<1>2. LoginInv => SetupOnce
  BY DEF LoginInv, WizardInv, SetupOnce
<1> QED
  BY <1>1, <1>2, LoginInitially, PTL DEF LoginSpec

\* The admin password alone lets nobody in while the second factor is on.
THEOREM FactorIsAsked == LoginSpec => []SecondFactorAsked
<1>1. LoginInv /\ [LoginNext]_loginVars => LoginInv'
  BY LoginKept
<1>2. LoginInv => SecondFactorAsked
  BY DEF LoginInv, AttemptInv, SecondFactorAsked
<1> QED
  BY <1>1, <1>2, LoginInitially, PTL DEF LoginSpec

\* A request that passes its code check while the second factor is on has brought a
\* code that was not accepted before.
LEMMA PassingACode ==
    ASSUME LoginInv, LoginNext, NEW a \in Attempts, TOTPEnabled,
           attempt[a].pc \in {"code", "disabling"},
           attempt'[a].pc \in {"granting", "clearing"}
    PROVE  usedCodes' # usedCodes
<1> USE LoginConstants
<1>1. attempt \in [Attempts -> Attempt] /\ NoAttempt.pc = "idle"
  BY DEF LoginInv, LoginTypeOK, NoAttempt
<1>2. attempt'[a].pc # attempt[a].pc /\ attempt'[a] # NoAttempt /\ attempt' # attempt
  BY <1>1
<1>3. PICK b \in Attempts : LogIn(b) \/ SetUp(b) \/ ManageTOTP(b)
  BY <1>1, <1>2 DEF LoginNext, ShowForm, CleanupForms, LoginTick, NewAdminAuth
<1>4. ~DisableTOTP(b)
  <2> SUFFICES ASSUME DisableTOTP(b) PROVE FALSE
    OBVIOUS
  <2>1. attempt'[a] = NoAttempt
        \/ attempt'[a] = [attempt[a] EXCEPT !.cleared = @ \/ attempt[a].pc \in LoggingIn]
    BY DEF DisableTOTP
  <2>2. attempt[a] \in Attempt
    BY <1>1
  <2> QED
    BY <1>2, <2>1, <2>2 DEF Attempt
<1>5. \E x : attempt' = [attempt EXCEPT ![b] = x]
  <2>1. ASSUME NEW pc, MoveTo(b, pc) PROVE \E x : attempt' = [attempt EXCEPT ![b] = x]
    BY <2>1, <1>1 DEF MoveTo
  <2>2. ASSUME NEW c, LetIn(b, c) PROVE \E x : attempt' = [attempt EXCEPT ![b] = x]
    BY <2>2 DEF LetIn
  <2>3. ASSUME NEW pc, NEW secret, NEW code, Open(b, pc, secret, code)
        PROVE  \E x : attempt' = [attempt EXCEPT ![b] = x]
    BY <2>3 DEF Open
  <2>4. ASSUME Close(b) PROVE \E x : attempt' = [attempt EXCEPT ![b] = x]
    BY <2>4 DEF Close
  <2>5. CASE LogIn(b)
    BY <2>1, <2>2, <2>3, <2>4, <2>5 DEF LogIn, SubmitLogin, SubmitJSONLogin, Allow, ResolveLogin,
       AfterPassword, AskFactor, VerifyCode, Grant
  <2>6. CASE SetUp(b)
    BY <2>1, <2>3, <2>4, <2>6 DEF SetUp, BeginSetup, CheckSetupForm, ConsumeSetupToken,
       SetPassword, RegenerateSetupToken
  <2>7. CASE ManageTOTP(b)
    BY <1>4, <2>1, <2>3, <2>4, <2>7 DEF ManageTOTP, BeginEnable, EnableTOTP, BeginDisable,
       CheckDisableCode
  <2> QED
    BY <1>3, <2>5, <2>6, <2>7
<1>6. a = b
  BY <1>1, <1>2, <1>5
<1>7. \A pc, secret, code : ~Open(a, pc, secret, code)
  BY <1>1 DEF Open
<1>8. ~Close(a)
  BY <1>1, <1>2 DEF Close
<1>9. PICK code \in Codes : VerifyCode(a, code) \/ CheckDisableCode(a, code)
  <2>1. CASE LogIn(b)
    BY <1>6, <1>7, <1>8, <2>1 DEF LogIn, SubmitLogin, SubmitJSONLogin, Allow, ResolveLogin,
       AskFactor, Grant
  <2>2. ~SetUp(b)
    BY <1>6, <1>7 DEF SetUp, BeginSetup, CheckSetupForm, ConsumeSetupToken, SetPassword,
       RegenerateSetupToken
  <2>3. CASE ManageTOTP(b)
    BY <1>4, <1>6, <1>7, <1>8, <2>3 DEF ManageTOTP, BeginEnable, EnableTOTP, BeginDisable
  <2> QED
    BY <1>3, <2>1, <2>2, <2>3
<1>10. code \in Nat /\ AcceptCode(code)
  <2>1. code \in Nat
    BY DEF Codes
  <2>2. AcceptCode(code)
    BY <1>8, <1>9 DEF VerifyCode, CheckDisableCode
  <2> QED
    BY <2>1, <2>2
<1> QED
  BY <1>10, AcceptedCode

\* No code passes twice, whichever of two requests that bear it comes first.
THEOREM CodesPassOnce == LoginSpec => CodesUsedOnce
<1>1. LoginInv /\ [LoginNext]_loginVars => LoginInv'
  BY LoginKept
<1>2. LoginInv /\ [LoginNext]_loginVars =>
        [\A a \in Attempts :
            /\ attempt[a].pc \in {"code", "disabling"} /\ TOTPEnabled
            /\ attempt'[a].pc \in {"granting", "clearing"}
            => usedCodes' # usedCodes]_loginVars
  BY PassingACode
<1> QED
  BY <1>1, <1>2, LoginInitially, PTL DEF LoginSpec, CodesUsedOnce
=============================================================================
