\* The components that share no state, one after the other
SPECIFICATION FocusSpec
SYMMETRY FocusSymmetry
CONSTANTS
    \* AdminSessions
    Tokens = {t1, t2}
    Visits = {v1}
    NoToken = NoToken
    Identities = {admin, user}
    Admins = {admin}
    Legacy = Legacy
    IdleTTL = 1
    AbsoluteTTL = 2
    Minute = 0
    Horizon = 3
    MaxSaveFaults = 1
    \* AdminLogin
    Attempts = {r1, r2}
    Forms = {f1}
    Secrets = {k1}
    NoSecret = NoSecret
    LastStep = 3
    MaxTokens = 2
    MaxConfigFaults = 1
    \* RateLimits
    Keys = {ip1}
    Limit = 2
    WindowLength = 1
    Guessers = {r1, r2}
    MaxGuesses = 2
    GuessWindow = 1
    LastMinute = 3
    \* ReceiveChallenges
    Challenges = {c1, c2}
    Solvers = {r1, r2}
    NoChallenge = NoChallenge
    ChallengeTTL = 1
    LastSecond = 3
    \* UserAccounts
    UserIds = {u1, u2}
    Emails = {e1}
    NoEmail = NoEmail
    Subjects = {sub1}
    NoSubject = NoSubject
    Logins = {r1, r2}
    NoUser = NoUser
    States = {x1, x2}
    Given = {"admin", "user"}
    EnvRole = "admin"
    AutoProvision = TRUE
    \* WebhookDelivery
    Notices = {n1, n2, n3}
    Slots = 2
    \* EmailTransfers
    Transfers = {m1, m2}
    MaxRestarts = 1
    \* TunnelSettings
    Editors = {r1, r2}
    CacheTTL = 2
    LastTick = 4
    MaxEdits = 3
    \* SavedSettings
    Savers = {r1, r2}
    Credentials = {y1, y2}
    NoCredential = NoCredential
    NotSent = NotSent
    MaskText = MaskText
    \* ServerRun
    OldShares = {o1, o2}
    Requests = {r1, r2}
    MaxCrashes = 1
INVARIANTS
    ServerPartsTypeOK
    RevokedStaysOut
    SetupOnce
    SecondFactorAsked
    RateHeld
    GuessesBounded
    ChallengePaysOnce
    DeactivationHolds
    AdminsAreMade
    StopDrains
    WarnedWereSent
    WarnedOnce
    CacheCatchesUp
    OmittedIsKept
    SharesMigrated
PROPERTIES
    AdmittedInTime
    CodesUsedOnce
CHECK_DEADLOCK FALSE
