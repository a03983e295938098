---------------------------- MODULE AdminSessions ----------------------------
(***************************************************************************)
(* The sessions of the admin interface: a map in memory under one mutex,   *)
(* written to sessions.json as a whole. A request looks its session up     *)
(* under the read lock, extends it under the write lock and only then runs *)
(* its handler, so a session can expire or be revoked in between.          *)
(*                                                                         *)
(* A step is one critical section. Writing the file happens inside of it,  *)
(* may fail, and may leave a file that cannot be read; a crash during the  *)
(* write is such a failure followed by a restart.                          *)
(***************************************************************************)
EXTENDS Integers, FiniteSets

CONSTANTS
    Tokens,             \* session tokens; each is issued once
    Visits,             \* concurrent request goroutines
    NoToken,            \* a goroutine that handles no request
    Identities,         \* users, and the single admin who has no user record
    Admins,             \* the identities with the role admin
    Legacy,             \* identity of a session stored before sessions had roles
    IdleTTL,            \* SessionIdleTTL
    AbsoluteTTL,        \* SessionAbsoluteTTL
    Minute,             \* what an expiry must advance by to be written
    Horizon,            \* bound: the clock stops here
    MaxSaveFaults       \* bound: failed writes of sessions.json

ASSUME SessionConstants ==
    /\ NoToken \notin Tokens
    /\ Admins \subseteq Identities
    /\ Legacy \notin Identities
    /\ IdleTTL \in Nat /\ AbsoluteTTL \in Nat /\ Minute \in Nat /\ Horizon \in Nat
    /\ MaxSaveFaults \in Nat

VARIABLES
    now,                \* the clock
    sessions,           \* the map in memory: a Session for some of the tokens
    sessionsFile,       \* what sessions.json holds; nothing if it cannot be read
    saveFailed,         \* whether the last write of it failed
    saveFaults,         \* failed writes so far
    visit,              \* [Visits -> Visit]
    issued,             \* history: tokens handed out
    lastUse,            \* history: when a token was issued or last extended
    issuedAt,           \* history: when a token was issued
    revoked,            \* history: tokens logged out or revoked
    excused             \* history: revoked tokens a restart may have brought back,
                        \* the last write before it having failed

sessionStore == <<sessions, sessionsFile, saveFailed, saveFaults>>
sessionHistory == <<issued, lastUse, issuedAt, revoked, excused>>
sessionVars == <<now, sessionStore, visit, sessionHistory>>

Session == [identity : Identities \union {Legacy}, created : Nat, expires : Nat]
IsSessionMap(m) == DOMAIN m \subseteq Tokens /\ m \in [DOMAIN m -> Session]
NoSessions == [t \in {} |-> {}]

\* identity: what the copy of the session says that getSession returned
Visit == [pc : {"idle", "known", "serving", "dropping"}, token : Tokens \union {NoToken},
          identity : Identities \union {Legacy}]
NoVisit == [pc |-> "idle", token |-> NoToken, identity |-> Legacy]

SessionsTypeOK ==
    /\ now \in Nat
    /\ IsSessionMap(sessions) /\ IsSessionMap(sessionsFile)
    /\ saveFailed \in BOOLEAN /\ saveFaults \in Nat
    /\ visit \in [Visits -> Visit]
    /\ \A p \in Visits : visit[p].pc # "idle" => visit[p].token \in Tokens
    /\ issued \subseteq Tokens /\ revoked \subseteq Tokens /\ excused \subseteq Tokens
    /\ lastUse \in [Tokens -> Nat] /\ issuedAt \in [Tokens -> Nat]

\* A first start, or the first start after an upgrade from a version without roles
SessionsInit ==
    /\ now = 0
    /\ \E T \in SUBSET Tokens :
        /\ Cardinality(T) <= 1
        /\ sessions = [t \in T |-> [identity |-> Legacy, created |-> 0,
                                    expires |-> IdleTTL]]
        /\ issued = T
    /\ sessionsFile = sessions
    /\ saveFailed = FALSE /\ saveFaults = 0
    /\ visit = [p \in Visits |-> NoVisit]
    /\ lastUse = [t \in Tokens |-> 0] /\ issuedAt = [t \in Tokens |-> 0]
    /\ revoked = {} /\ excused = {}

-----------------------------------------------------------------------------
(* Helpers *)

Stored(t, s) == [x \in DOMAIN sessions \union {t} |-> IF x = t THEN s ELSE sessions[x]]
Without(T) == [x \in DOMAIN sessions \ T |-> sessions[x]]

\* saveSessions: an error is ignored, the file is what it was or is cut short
SaveSessions ==
    \/ sessionsFile' = sessions' /\ saveFailed' = FALSE /\ UNCHANGED saveFaults
    \/ /\ saveFaults < MaxSaveFaults
       /\ saveFaults' = saveFaults + 1
       /\ saveFailed' = TRUE
       /\ sessionsFile' \in {sessionsFile, NoSessions}

DoNotSave == UNCHANGED <<sessionsFile, saveFailed, saveFaults>>

Cap(s) == s.created + AbsoluteTTL

\* mutant: the expiry moves on from where it was
NewExpiry_Accumulates(s) ==
    IF s.expires + IdleTTL > Cap(s) THEN Cap(s) ELSE s.expires + IdleTTL

NewExpiry(s) == IF now + IdleTTL > Cap(s) THEN Cap(s) ELSE now + IdleTTL

\* getSession
Valid(t) ==
    /\ t \in DOMAIN sessions
    /\ now <= sessions[t].expires
    /\ now <= Cap(sessions[t])

SameIdentity(p, t) == sessions[t].identity = visit[p].identity
MayRevoke(p, t) == visit[p].identity \in Admins \/ SameIdentity(p, t)

Leave(p) == visit' = [visit EXCEPT ![p] = NoVisit]

-----------------------------------------------------------------------------
(* A session is made, by any of the ways to log in *)

CreateSessionForUser(t, who) ==
    /\ t \notin issued
    /\ sessions' = Stored(t, [identity |-> who, created |-> now, expires |-> now + IdleTTL])
    /\ SaveSessions
    /\ issued' = issued \union {t}
    /\ lastUse' = [lastUse EXCEPT ![t] = now]
    /\ issuedAt' = [issuedAt EXCEPT ![t] = now]
    /\ UNCHANGED <<now, visit, revoked, excused>>

(* The middleware: look up, extend, then serve or drop *)

Arrive(p, t) ==
    /\ visit[p] = NoVisit
    /\ Valid(t)
    /\ visit' = [visit EXCEPT ![p] = [pc |-> "known", token |-> t,
                                      identity |-> sessions[t].identity]]
    /\ UNCHANGED <<now, sessionStore, sessionHistory>>

\* The session may be gone by now; the request is served all the same, from its copy
ExtendSession(p) ==
    LET t == visit[p].token
    IN  /\ visit[p].pc = "known"
        /\ IF t \in DOMAIN sessions
           THEN /\ sessions' = Stored(t, [sessions[t] EXCEPT !.expires = NewExpiry(sessions[t])])
                /\ IF NewExpiry(sessions[t]) - sessions[t].expires > Minute
                   THEN SaveSessions ELSE DoNotSave
                /\ lastUse' = [lastUse EXCEPT ![t] = now]
           ELSE UNCHANGED <<sessionStore, lastUse>>
        /\ visit' = [visit EXCEPT ![p].pc =
                        IF visit[p].identity = Legacy THEN "dropping" ELSE "serving"]
        /\ UNCHANGED <<now, issued, issuedAt, revoked, excused>>

\* mutant: the file is left as it was
InvalidateSession_Unsaved(t) ==
    /\ sessions' = Without({t})
    /\ DoNotSave
    /\ revoked' = revoked \union {t}

InvalidateSession(t) ==
    /\ sessions' = Without({t})
    /\ SaveSessions
    /\ revoked' = revoked \union {t}

\* A session without a role is dropped, and the request goes to the login page
DropLegacy(p) ==
    /\ visit[p].pc = "dropping"
    /\ InvalidateSession(visit[p].token)
    /\ Leave(p)
    /\ UNCHANGED <<now, issued, lastUse, issuedAt, excused>>

\* Any handler that does not touch the sessions
Serve(p) ==
    /\ visit[p].pc = "serving"
    /\ Leave(p)
    /\ UNCHANGED <<now, sessionStore, sessionHistory>>

(* The handlers that end sessions *)

RevokeSession(p, t) ==
    /\ visit[p].pc = "serving"
    /\ t \in DOMAIN sessions
    /\ MayRevoke(p, t)
    /\ sessions' = Without({t})
    /\ SaveSessions
    /\ revoked' = revoked \union {t}
    /\ Leave(p)
    /\ UNCHANGED <<now, issued, lastUse, issuedAt, excused>>

OtherSessions(p) == {t \in DOMAIN sessions \ {visit[p].token} : SameIdentity(p, t)}

RevokeOtherSessions(p) ==
    /\ visit[p].pc = "serving"
    /\ sessions' = Without(OtherSessions(p))
    /\ IF OtherSessions(p) # {} THEN SaveSessions ELSE DoNotSave
    /\ revoked' = revoked \union OtherSessions(p)
    /\ Leave(p)
    /\ UNCHANGED <<now, issued, lastUse, issuedAt, excused>>

\* Not behind the middleware: any cookie will do, known or not
Logout(t) ==
    /\ t \in issued
    /\ InvalidateSession(t)
    /\ UNCHANGED <<now, visit, issued, lastUse, issuedAt, excused>>

-----------------------------------------------------------------------------
(* The clean-up every 15 minutes, the clock, and a crash or shutdown *)

Outlived == {t \in DOMAIN sessions : now > sessions[t].expires}

CleanupSessions ==
    /\ Outlived # {}
    /\ sessions' = Without(Outlived)
    /\ SaveSessions
    /\ UNCHANGED <<now, visit, sessionHistory>>

SessionsTick ==
    /\ now < Horizon
    /\ now' = now + 1
    /\ UNCHANGED <<sessionStore, visit, sessionHistory>>

\* A crash or a shutdown, then loadSessions
LoadSessions ==
    /\ sessions' = [t \in {x \in DOMAIN sessionsFile : now < sessionsFile[x].expires} |->
                        sessionsFile[t]]
    /\ visit' = [p \in Visits |-> NoVisit]
    /\ excused' = IF saveFailed THEN excused \union revoked ELSE excused
    /\ UNCHANGED <<now, sessionsFile, saveFailed, saveFaults, issued, lastUse, issuedAt,
                   revoked>>

-----------------------------------------------------------------------------
SessionsNext ==
    \/ \E t \in Tokens, who \in Identities : CreateSessionForUser(t, who)
    \/ \E p \in Visits :
        \/ ExtendSession(p) \/ DropLegacy(p) \/ Serve(p) \/ RevokeOtherSessions(p)
        \/ \E t \in Tokens : Arrive(p, t) \/ RevokeSession(p, t)
    \/ \E t \in Tokens : Logout(t)
    \/ CleanupSessions
    \/ SessionsTick
    \/ LoadSessions

SessionsSpec == SessionsInit /\ [][SessionsNext]_sessionVars

-----------------------------------------------------------------------------
(* What it guarantees *)

\* A session that was logged out, revoked by its owner or an admin, or ended with
\* "log out everywhere else", is not in the map again: not by a request that had
\* looked it up before, and not after a restart, unless the last write of
\* sessions.json before the restart had failed.
RevokedStaysOut == (revoked \ excused) \intersect DOMAIN sessions = {}

\* A request is let in only within IdleTTL of the last use of its session and
\* within AbsoluteTTL of its issue, whatever was written when, and across
\* restarts and failed writes.
AdmittedInTime ==
    [][\A p \in Visits : visit[p].pc = "idle" /\ visit'[p].pc = "known" =>
        LET t == visit'[p].token
        IN  now <= lastUse[t] + IdleTTL /\ now <= issuedAt[t] + AbsoluteTTL]_sessionVars
=============================================================================
