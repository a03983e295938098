----------------------------- MODULE AdminLogin -----------------------------
(***************************************************************************)
(* How an admin gets in: the set-up wizard with its one-time token, the    *)
(* password, and the second factor. The configuration (password set or     *)
(* not, TOTP secret, last TOTP counter) is guarded by one mutex, the form  *)
(* tokens by another; a handler takes them one after the other. What slows *)
(* guessing down is in RateLimits.                                          *)
(*                                                                         *)
(* A step is one critical section. Time is counted in TOTP steps of 30 s;  *)
(* a TOTP code is the number of the step it was made in, 0 a wrong code.   *)
(***************************************************************************)
EXTENDS Integers

CONSTANTS
    Attempts,           \* concurrent request goroutines
    Forms,              \* CSRF tokens
    Secrets,            \* TOTP secrets
    NoSecret,           \* no second factor
    LastStep,           \* bound: the clock stops here
    MaxTokens,          \* bound: set-up tokens minted
    MaxConfigFaults     \* bound: failed writes of admin_config.json

ASSUME LoginConstants ==
    /\ NoSecret \notin Secrets
    /\ LastStep \in Nat /\ MaxTokens \in Nat /\ MaxConfigFaults \in Nat

VARIABLES
    step,               \* the clock
    envPassword,        \* whether ADMIN_PASSWORD is set
    config,             \* the configuration in memory: a Config
    configFile,         \* what admin_config.json holds; Blank if it cannot be read
    configFailed,       \* whether the last write of it failed
    configFaults,       \* failed writes so far
    setupToken,         \* the number of the live set-up token, or 0
    minted,             \* set-up tokens minted so far
    forms,              \* CSRF tokens that can be used
    attempt,            \* [Attempts -> Attempt]
    usedCodes,          \* history: codes accepted since the secret was enrolled
    setups              \* history: set-ups answered with success; this and usedCodes
                        \* start again if a restart may have lost the configuration

configStore == <<config, configFile, configFailed, configFaults>>
wizard == <<setupToken, minted>>
loginHistory == <<usedCodes, setups>>
loginVars == <<step, envPassword, configStore, wizard, forms, attempt,
               loginHistory>>

Config == [done : BOOLEAN, secret : Secrets \union {NoSecret}, last : Nat]
Blank == [done |-> FALSE, secret |-> NoSecret, last |-> 0]

AttemptPCs == {"idle", "limiting", "password", "factor", "code", "granting", "form",
               "token", "setting", "reminting", "enrolling", "disabling", "clearing"}

\* secret, code: of the enrolment asked for;
\* cleared: the second factor was off at some time since the login began, or a
\* code was accepted, or the user has none
Attempt == [pc : AttemptPCs, secret : Secrets \union {NoSecret}, code : Nat,
            cleared : BOOLEAN]
NoAttempt == [pc |-> "idle", secret |-> NoSecret, code |-> 0, cleared |-> FALSE]
LoggingIn == {"limiting", "password", "factor", "code"}

LoginTypeOK ==
    /\ step \in Nat /\ envPassword \in BOOLEAN
    /\ config \in Config /\ configFile \in Config
    /\ configFailed \in BOOLEAN /\ configFaults \in Nat
    /\ setupToken \in Nat /\ minted \in Nat
    /\ forms \subseteq Forms
    /\ attempt \in [Attempts -> Attempt]
    /\ usedCodes \subseteq Nat /\ setups \in Nat

\* IsTOTPEnabled: the flag and the secret are set and cleared together
TOTPEnabled == config.secret # NoSecret
IsEnabled == envPassword \/ config.done
NeedsSetup == ~IsEnabled

LoginInit ==
    /\ step = 1
    /\ envPassword \in BOOLEAN
    /\ config = Blank /\ configFile = Blank
    /\ configFailed = FALSE /\ configFaults = 0
    /\ setupToken = IF envPassword THEN 0 ELSE 1
    /\ minted = setupToken
    /\ forms = {}
    /\ attempt = [a \in Attempts |-> NoAttempt]
    /\ usedCodes = {} /\ setups = 0

-----------------------------------------------------------------------------
(* Helpers *)

MoveTo(a, pc) == attempt' = [attempt EXCEPT ![a].pc = pc]
Close(a) == attempt' = [attempt EXCEPT ![a] = NoAttempt]
LetIn(a, cleared) ==
    attempt' = [attempt EXCEPT ![a] = [NoAttempt EXCEPT !.pc = "granting", !.cleared = cleared]]

\* The code sent with a request, whenever it was made, or a wrong one
Codes == 0..(LastStep + 1)

Open(a, pc, secret, code) ==
    /\ attempt[a] = NoAttempt
    /\ attempt' = [attempt EXCEPT ![a] = [pc |-> pc, secret |-> secret, code |-> code,
                        cleared |-> pc \in LoggingIn /\ ~TOTPEnabled]]

\* A form that is shown, again or for the first time, has a new token; none is
\* shown to a JSON client, or when the random source fails
NewForm == \E F \in {{}} \union {{f} : f \in Forms \ forms} : forms' = forms \union F

\* saveConfig: the file is as the memory, or as it was, or cut short
ConfigSaved == configFile' = config' /\ configFailed' = FALSE /\ UNCHANGED configFaults
ConfigNotSaved ==
    /\ configFaults < MaxConfigFaults
    /\ configFaults' = configFaults + 1
    /\ configFailed' = TRUE
    /\ configFile' \in {configFile, Blank}

\* totp.ValidateWithCounter
InWindow(code) == code > 0 /\ code \in {step, step - 1, step + 1}

-----------------------------------------------------------------------------
(* LoginHandler and handleJSONLogin *)

\* GET /login, and GET /setup while it is needed
ShowForm ==
    /\ \E f \in Forms \ forms : forms' = forms \union {f}
    /\ UNCHANGED <<step, envPassword, configStore, wizard, attempt, loginHistory>>

\* POST /login, local login not being switched off: the form's token is used up
SubmitLogin(a) ==
    /\ Open(a, "limiting", NoSecret, 0)
    /\ \E f \in forms : forms' = forms \ {f}
    /\ UNCHANGED <<step, envPassword, configStore, wizard, loginHistory>>

\* The same as JSON: no form, no token
SubmitJSONLogin(a) ==
    /\ Open(a, "limiting", NoSecret, 0)
    /\ UNCHANGED <<step, envPassword, configStore, wizard, forms, loginHistory>>

\* The rate limiter, which RateLimits models, lets the attempt through or refuses it
Allow(a) ==
    /\ attempt[a].pc = "limiting"
    /\ \/ MoveTo(a, "password") /\ UNCHANGED forms
       \/ Close(a) /\ NewForm
    /\ UNCHANGED <<step, envPassword, configStore, wizard, loginHistory>>

\* mutant: the admin password is enough
AfterPassword_NoFactor(a) == LetIn(a, attempt[a].cleared)

AfterPassword(a) == MoveTo(a, "factor")

\* resolveLogin: a user of the table (who has no second factor), the admin
\* password, or neither
ResolveLogin(a) ==
    /\ attempt[a].pc = "password"
    /\ \/ LetIn(a, TRUE) /\ UNCHANGED forms
       \/ IsEnabled /\ AfterPassword(a) /\ UNCHANGED forms
       \/ Close(a) /\ NewForm
    /\ UNCHANGED <<step, envPassword, configStore, wizard, loginHistory>>

\* IsTOTPEnabled
AskFactor(a) ==
    /\ attempt[a].pc = "factor"
    /\ IF TOTPEnabled THEN MoveTo(a, "code") ELSE LetIn(a, attempt[a].cleared)
    /\ UNCHANGED <<step, envPassword, configStore, wizard, forms, loginHistory>>

\* mutant: a code may be used until its window is over
CodeFresh_Again(code) == InWindow(code) /\ (config.last # 0 => code >= config.last)

CodeFresh(code) == InWindow(code) /\ (config.last # 0 => code > config.last)

\* verifyTOTP: whether the code is right, which uses it up. An error of the save
\* is ignored. Without a second factor every code is right.
AcceptCode(code) ==
    IF TOTPEnabled
    THEN /\ CodeFresh(code)
         /\ config' = [config EXCEPT !.last = code]
         /\ ConfigSaved \/ ConfigNotSaved
         /\ usedCodes' = usedCodes \union {code}
    ELSE UNCHANGED <<configStore, usedCodes>>
RefuseCode(code) ==
    /\ TOTPEnabled /\ ~CodeFresh(code)
    /\ UNCHANGED <<configStore, usedCodes>>

VerifyCode(a, code) ==
    /\ attempt[a].pc = "code"
    /\ \/ AcceptCode(code) /\ LetIn(a, TRUE) /\ UNCHANGED forms
       \/ RefuseCode(code) /\ Close(a) /\ NewForm
    /\ UNCHANGED <<step, envPassword, wizard, setups>>

\* AdminSessions!CreateSessionForUser makes the session
Grant(a) ==
    /\ attempt[a].pc = "granting"
    /\ Close(a)
    /\ UNCHANGED <<step, envPassword, configStore, wizard, forms, loginHistory>>

-----------------------------------------------------------------------------
(* SetupHandler, POST *)

BeginSetup(a) ==
    /\ NeedsSetup
    /\ Open(a, "form", NoSecret, 0)
    /\ UNCHANGED <<step, envPassword, configStore, wizard, forms, loginHistory>>

\* The form's token is used up; then the passwords must be long enough and agree, or
\* the form is shown again, with a new token if the random source gives one
CheckSetupForm(a) ==
    /\ attempt[a].pc = "form"
    /\ \/ /\ \E f \in forms : forms' = forms \ {f}
          /\ MoveTo(a, "token")
       \/ /\ \E f \in forms : forms' \in {forms, forms \ {f}}
          /\ Close(a)
       \/ Close(a) /\ NewForm
    /\ UNCHANGED <<step, envPassword, configStore, wizard, loginHistory>>

\* mutant: the set-up token is compared, and cleared later
TokenSpent_Later == setupToken

TokenSpent == 0

ConsumeSetupToken(a, token) ==
    /\ attempt[a].pc = "token"
    /\ IF setupToken # 0 /\ token = setupToken
       THEN setupToken' = TokenSpent /\ MoveTo(a, "setting") /\ UNCHANGED forms
       ELSE Close(a) /\ NewForm /\ UNCHANGED setupToken
    /\ UNCHANGED <<step, envPassword, configStore, minted, loginHistory>>

\* SetPassword: the configuration in memory is changed even if saving it fails, but
\* not if the password is too long to be hashed
SetPassword(a) ==
    /\ attempt[a].pc = "setting"
    /\ \/ /\ config' = [config EXCEPT !.done = TRUE]
          /\ ConfigSaved /\ Close(a) /\ setups' = setups + 1
       \/ /\ config' = [config EXCEPT !.done = TRUE]
          /\ ConfigNotSaved /\ MoveTo(a, "reminting") /\ UNCHANGED setups
       \/ UNCHANGED <<configStore, setups>> /\ MoveTo(a, "reminting")
    /\ UNCHANGED <<step, envPassword, wizard, forms, usedCodes>>

\* regenerateSetupToken, then the form again
RegenerateSetupToken(a) ==
    /\ attempt[a].pc = "reminting"
    /\ minted < MaxTokens
    /\ minted' = minted + 1
    /\ setupToken' = minted'
    /\ Close(a) /\ NewForm
    /\ UNCHANGED <<step, envPassword, configStore, loginHistory>>

-----------------------------------------------------------------------------
(* The second factor is switched on and off by an admin who is logged in *)

\* TOTPEnableHandler: the code is checked against the secret it came with, before
\* the lock
BeginEnable(a, secret, code) ==
    /\ IsEnabled
    /\ InWindow(code)
    /\ Open(a, "enrolling", secret, code)
    /\ UNCHANGED <<step, envPassword, configStore, wizard, forms, loginHistory>>

EnableTOTP(a) ==
    /\ attempt[a].pc = "enrolling"
    /\ config' = [config EXCEPT !.secret = attempt[a].secret, !.last = attempt[a].code]
    /\ ConfigSaved \/ ConfigNotSaved
    /\ usedCodes' = {attempt[a].code}
    /\ Close(a)
    /\ UNCHANGED <<step, envPassword, wizard, forms, setups>>

\* TOTPDisableHandler: is it on, is the code right, off
BeginDisable(a) ==
    /\ TOTPEnabled
    /\ Open(a, "disabling", NoSecret, 0)
    /\ UNCHANGED <<step, envPassword, configStore, wizard, forms, loginHistory>>

CheckDisableCode(a, code) ==
    /\ attempt[a].pc = "disabling"
    /\ \/ AcceptCode(code) /\ MoveTo(a, "clearing")
       \/ RefuseCode(code) /\ Close(a)
    /\ UNCHANGED <<step, envPassword, wizard, forms, setups>>

DisableTOTP(a) ==
    /\ attempt[a].pc = "clearing"
    /\ config' = [config EXCEPT !.secret = NoSecret]
    /\ ConfigSaved \/ ConfigNotSaved
    /\ attempt' = [b \in Attempts |-> IF b = a THEN NoAttempt
                        ELSE [attempt[b] EXCEPT !.cleared = @ \/ attempt[b].pc \in LoggingIn]]
    /\ UNCHANGED <<step, envPassword, wizard, forms, loginHistory>>

-----------------------------------------------------------------------------
(* The clean-up every 15 minutes, the clock, and a crash or shutdown *)

\* cleanupCSRFTokens: which tokens are an hour old is left open
CleanupForms ==
    /\ forms # {}
    /\ \E F \in SUBSET forms : forms' = F
    /\ UNCHANGED <<step, envPassword, configStore, wizard, attempt, loginHistory>>

LoginTick ==
    /\ step < LastStep
    /\ step' = step + 1
    /\ UNCHANGED <<envPassword, configStore, wizard, forms, attempt, loginHistory>>

\* NewAdminAuth: loadConfig, and a set-up token if there is something to set up
NewAdminAuth ==
    /\ minted < MaxTokens
    /\ config' = configFile
    /\ IF ~envPassword /\ ~config'.done
       THEN minted' = minted + 1 /\ setupToken' = minted'
       ELSE setupToken' = 0 /\ UNCHANGED minted
    /\ forms' = {}
    /\ attempt' = [a \in Attempts |-> NoAttempt]
    /\ IF configFailed THEN usedCodes' = {} /\ setups' = 0 ELSE UNCHANGED loginHistory
    /\ UNCHANGED <<step, envPassword, configFile, configFailed, configFaults>>

-----------------------------------------------------------------------------
LogIn(a) ==
    \/ SubmitLogin(a) \/ SubmitJSONLogin(a) \/ Allow(a) \/ ResolveLogin(a)
    \/ AskFactor(a) \/ (\E code \in Codes : VerifyCode(a, code)) \/ Grant(a)

SetUp(a) ==
    \/ BeginSetup(a) \/ CheckSetupForm(a)
    \/ \E token \in 1..MaxTokens : ConsumeSetupToken(a, token)
    \/ SetPassword(a) \/ RegenerateSetupToken(a)

ManageTOTP(a) ==
    \/ \E secret \in Secrets, code \in Codes : BeginEnable(a, secret, code)
    \/ EnableTOTP(a) \/ BeginDisable(a)
    \/ (\E code \in Codes : CheckDisableCode(a, code)) \/ DisableTOTP(a)

LoginNext ==
    \/ ShowForm
    \/ \E a \in Attempts : LogIn(a) \/ SetUp(a) \/ ManageTOTP(a)
    \/ CleanupForms
    \/ LoginTick
    \/ NewAdminAuth

LoginSpec == LoginInit /\ [][LoginNext]_loginVars

-----------------------------------------------------------------------------
(* What it guarantees *)

\* The wizard is finished at most once, however many set-up requests pass
\* NeedsSetup together, also when a password could not be saved and a new token
\* was minted, and across restarts that find the configuration saved.
SetupOnce == setups <= 1

\* A TOTP code opens the door once: between two enrolments no code is accepted
\* twice, and the code of the enrolment not at all, whichever of two requests that
\* bear it comes first, and across restarts that find the counter saved. (AcceptCode
\* adds the code to usedCodes: the set grows unless it was in it.)
CodesUsedOnce ==
    [][\A a \in Attempts :
        /\ attempt[a].pc \in {"code", "disabling"} /\ TOTPEnabled
        /\ attempt'[a].pc \in {"granting", "clearing"}
        => usedCodes' # usedCodes]_loginVars

\* Nobody is let in by the admin password alone while the second factor is on,
\* unless it was off at some time during the request.
SecondFactorAsked ==
    \A a \in Attempts :
        attempt[a].pc = "granting" => attempt[a].cleared
=============================================================================
