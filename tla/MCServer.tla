------------------------------ MODULE MCServer ------------------------------
(***************************************************************************)
(* The components of the server that share no state, checked in one run: a *)
(* behaviour is about one of them, the focus, and the others stay as they  *)
(* were at the start. The state spaces add up instead of multiplying.      *)
(***************************************************************************)
EXTENDS AdminSessions, AdminLogin, RateLimits, ReceiveChallenges, UserAccounts,
        WebhookDelivery, EmailTransfers, TunnelSettings, SavedSettings, ServerRun,
        TLC

\* Requests are interchangeable, and so are the ids of accounts
FocusSymmetry == Permutations(Logins) \union Permutations(UserIds)

VARIABLE focus

focusVars == <<focus, sessionVars, loginVars, limiterVars, challengeVars, accountVars,
               webhookVars, transferVars, tunnelVars, settingsVars, serverVars>>

\* Where a component has several initial states, only its own behaviours differ in them
FocusInit ==
    /\ focus \in {"sessions", "login", "limits", "challenges", "accounts", "webhook",
                  "transfers", "tunnel", "settings", "server"}
    /\ SessionsInit /\ (focus # "sessions" => issued = {})
    /\ LoginInit /\ (focus # "login" => envPassword)
    /\ LimitsInit /\ ChallengesInit /\ AccountsInit
    /\ WebhookInit /\ (focus # "webhook" => armed)
    /\ TransfersInit /\ TunnelInit
    /\ SettingsInit /\ (focus # "settings" => store = "oidc")
    /\ ServerInit

SessionsStep ==
    /\ focus = "sessions"
    /\ SessionsNext
    /\ UNCHANGED <<focus, loginVars, limiterVars, challengeVars, accountVars,
                   webhookVars, transferVars, tunnelVars, settingsVars, serverVars>>
LoginStep ==
    /\ focus = "login"
    /\ LoginNext
    /\ UNCHANGED <<focus, sessionVars, limiterVars, challengeVars, accountVars,
                   webhookVars, transferVars, tunnelVars, settingsVars, serverVars>>
LimitsStep ==
    /\ focus = "limits"
    /\ LimitsNext
    /\ UNCHANGED <<focus, sessionVars, loginVars, challengeVars, accountVars,
                   webhookVars, transferVars, tunnelVars, settingsVars, serverVars>>
ChallengesStep ==
    /\ focus = "challenges"
    /\ ChallengesNext
    /\ UNCHANGED <<focus, sessionVars, loginVars, limiterVars, accountVars,
                   webhookVars, transferVars, tunnelVars, settingsVars, serverVars>>
AccountsStep ==
    /\ focus = "accounts"
    /\ AccountsNext
    /\ UNCHANGED <<focus, sessionVars, loginVars, limiterVars, challengeVars,
                   webhookVars, transferVars, tunnelVars, settingsVars, serverVars>>
WebhookStep ==
    /\ focus = "webhook"
    /\ WebhookNext
    /\ UNCHANGED <<focus, sessionVars, loginVars, limiterVars, challengeVars,
                   accountVars, transferVars, tunnelVars, settingsVars, serverVars>>
TransfersStep ==
    /\ focus = "transfers"
    /\ TransfersNext
    /\ UNCHANGED <<focus, sessionVars, loginVars, limiterVars, challengeVars,
                   accountVars, webhookVars, tunnelVars, settingsVars, serverVars>>
TunnelStep ==
    /\ focus = "tunnel"
    /\ TunnelNext
    /\ UNCHANGED <<focus, sessionVars, loginVars, limiterVars, challengeVars,
                   accountVars, webhookVars, transferVars, settingsVars, serverVars>>
SettingsStep ==
    /\ focus = "settings"
    /\ SettingsNext
    /\ UNCHANGED <<focus, sessionVars, loginVars, limiterVars, challengeVars,
                   accountVars, webhookVars, transferVars, tunnelVars, serverVars>>
ServerStep ==
    /\ focus = "server"
    /\ ServerNext
    /\ UNCHANGED <<focus, sessionVars, loginVars, limiterVars, challengeVars,
                   accountVars, webhookVars, transferVars, tunnelVars, settingsVars>>

FocusNext ==
    \/ SessionsStep \/ LoginStep \/ LimitsStep \/ ChallengesStep \/ AccountsStep
    \/ WebhookStep \/ TransfersStep \/ TunnelStep \/ SettingsStep \/ ServerStep

FocusSpec == FocusInit /\ [][FocusNext]_focusVars

\* The variables of all components have the types their modules give them.
ServerPartsTypeOK ==
    /\ SessionsTypeOK /\ LoginTypeOK /\ LimitsTypeOK /\ ChallengesTypeOK /\ AccountsTypeOK
    /\ WebhookTypeOK /\ TransfersTypeOK /\ TunnelTypeOK /\ SettingsTypeOK /\ ServerTypeOK
=============================================================================
