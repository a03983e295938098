---------------------------- MODULE SavedSettings ----------------------------
(***************************************************************************)
(* Three sets of settings an admin edits, each with a credential the page  *)
(* does not show: the webhook with its signing secret, the OIDC provider   *)
(* with its client secret, the mail server with its password. A form that  *)
(* leaves the credential out means "as it was".                            *)
(*                                                                         *)
(* They are stored in three ways. webhook: copied, changed, and then saved *)
(* under the lock, file first. oidc: merged and saved under one lock,      *)
(* memory first. smtp: read from the table, written to the table, and then *)
(* handed to the mailer, without any lock. They share nothing, so a        *)
(* behaviour is about one of them, the store.                              *)
(***************************************************************************)
EXTENDS Naturals

CONSTANTS
    Savers,             \* concurrent request goroutines
    Credentials,        \* what an admin types
    NoCredential,       \* the empty string
    NotSent,            \* a form without the field
    MaskText            \* maskedSecret, which stands for the client secret in a page

ASSUME SettingsConstants ==
    /\ NoCredential \notin Credentials
    /\ NotSent \notin Credentials \union {NoCredential}
    /\ MaskText \notin Credentials \union {NoCredential, NotSent}

Stores == {"webhook", "oidc", "smtp"}

VARIABLES
    store,              \* which of them
    memory,             \* the settings in use
    disk,               \* the settings in the file or the table
    provided,           \* oidc: there is a provider to save to
    exchanger,          \* oidc: the secret with which codes are exchanged
    saver,              \* [Savers -> Saver]
    typed,              \* history: the credential last saved by a form that had it
    loose               \* history: two requests overlapped, or a read or write failed

settingsVars == <<store, memory, disk, provided, exchanger, saver, typed, loose>>

Settings == [on : BOOLEAN, credential : Credentials \union {NoCredential, MaskText}]
Unset == [on |-> FALSE, credential |-> NoCredential]
Sent == Credentials \union {NoCredential, NotSent, MaskText}

\* sent: the form's credential; copy: the settings about to be saved
Saver == [pc : {"idle", "reading", "saving", "updating"}, sent : Sent, copy : Settings]
NoSaver == [pc |-> "idle", sent |-> NotSent, copy |-> Unset]

SettingsTypeOK ==
    /\ store \in Stores
    /\ memory \in Settings /\ disk \in Settings
    /\ provided \in BOOLEAN
    /\ exchanger \in Credentials \union {NoCredential, MaskText}
    /\ saver \in [Savers -> Saver]
    /\ typed \in Credentials \union {NoCredential} /\ loose \in BOOLEAN

SettingsInit ==
    /\ store \in Stores
    /\ memory = Unset /\ disk = Unset
    /\ provided = TRUE /\ exchanger = NoCredential
    /\ saver = [p \in Savers |-> NoSaver]
    /\ typed = NoCredential /\ loose = FALSE

SaverAt(p, pc, sent, copy) ==
    saver' = [saver EXCEPT ![p] = [pc |-> pc, sent |-> sent, copy |-> copy]]
SaverDone(p) == saver' = [saver EXCEPT ![p] = NoSaver]

\* Another request has read, and not yet written what it is going to write
Overlapped(p) == \E q \in Savers \ {p} : saver[q].pc \in {"saving", "updating"}

\* A file that could not be written is as it was, or cut short
WriteFails == disk' \in {disk, Unset} /\ loose' = TRUE

-----------------------------------------------------------------------------
(* Webhook: WebhookConfig, then webhook.SaveConfig *)

\* The copy of the settings, with what was sent in place; to be switched on they need
\* a URL
BeginSaveWebhook(p, on, sent) ==
    /\ store = "webhook"
    /\ saver[p] = NoSaver
    /\ SaverAt(p, "saving", sent,
               [on |-> on, credential |-> IF sent = NotSent THEN memory.credential ELSE sent])
    /\ UNCHANGED <<store, memory, disk, provided, exchanger, typed, loose>>

SaveWebhook(p) ==
    LET s == saver[p]
    IN  /\ store = "webhook"
        /\ s.pc = "saving"
        /\ \/ /\ disk' = s.copy /\ memory' = s.copy
              /\ typed' = IF s.sent = NotSent THEN typed ELSE s.sent
              /\ loose' = (loose \/ Overlapped(p))
           \/ WriteFails /\ UNCHANGED <<memory, typed>>
        /\ SaverDone(p)
        /\ UNCHANGED <<store, provided, exchanger>>

-----------------------------------------------------------------------------
(* OIDC: updateConfig, then Provider.SaveConfig *)

BeginSaveOIDC(p, on, sent) ==
    /\ store = "oidc"
    /\ provided
    /\ saver[p] = NoSaver
    /\ SaverAt(p, "saving", sent, [on |-> on, credential |-> NoCredential])
    /\ UNCHANGED <<store, memory, disk, provided, exchanger, typed, loose>>

\* mutant: a form that carries the mask is taken at its word
Merged_Masked(sent) == IF sent \in {NoCredential, NotSent} THEN memory.credential ELSE sent

Merged(sent) ==
    IF sent \in {NoCredential, NotSent, MaskText} THEN memory.credential ELSE sent

\* The provider is set up again if the settings say it is on, which may fail
SaveOIDC(p) ==
    LET s == saver[p]
        new == [on |-> s.copy.on, credential |-> Merged(s.sent)]
    IN  /\ store = "oidc"
        /\ s.pc = "saving"
        /\ memory' = new
        /\ typed' = IF s.sent \in Credentials THEN s.sent ELSE typed
        /\ \/ /\ disk' = new
              /\ exchanger' \in IF new.on /\ new.credential # NoCredential
                                THEN {exchanger, new.credential} ELSE {exchanger}
              /\ UNCHANGED loose
           \/ WriteFails /\ UNCHANGED exchanger
        /\ SaverDone(p)
        /\ UNCHANGED <<store, provided>>

-----------------------------------------------------------------------------
(* Mail: SaveSMTPConfig and TestSMTPConnection *)

BeginSaveSMTP(p, on, sent) ==
    /\ store = "smtp"
    /\ saver[p] = NoSaver
    /\ SaverAt(p, IF sent \in {NoCredential, NotSent} THEN "reading" ELSE "saving", sent,
               [on |-> on, credential |-> IF sent = NotSent THEN NoCredential ELSE sent])
    /\ UNCHANGED <<store, memory, disk, provided, exchanger, typed, loose>>

\* The password that is there; if it cannot be read, the empty one is kept
ReadPassword(p) ==
    /\ saver[p].pc = "reading"
    /\ \/ /\ saver' = [saver EXCEPT ![p].pc = "saving", ![p].copy.credential = disk.credential]
          /\ UNCHANGED loose
       \/ /\ saver' = [saver EXCEPT ![p].pc = "saving"]
          /\ loose' = TRUE
    /\ UNCHANGED <<store, memory, disk, provided, exchanger, typed>>

SaveSMTP(p) ==
    LET s == saver[p]
    IN  /\ store = "smtp"
        /\ s.pc = "saving"
        /\ \/ /\ disk' = s.copy
              /\ typed' = IF s.sent \in Credentials THEN s.sent ELSE typed
              /\ loose' = (loose \/ Overlapped(p))
              /\ SaverAt(p, "updating", s.sent, s.copy)
           \/ SaverDone(p) /\ UNCHANGED <<disk, typed, loose>>
        /\ UNCHANGED <<store, memory, provided, exchanger>>

TestSMTP(p) ==
    /\ store = "smtp"
    /\ saver[p] = NoSaver
    /\ SaverAt(p, "updating", NotSent, disk)
    /\ UNCHANGED <<store, memory, disk, provided, exchanger, typed, loose>>

UpdateMailer(p) ==
    /\ saver[p].pc = "updating"
    /\ memory' = saver[p].copy
    /\ SaverDone(p)
    /\ UNCHANGED <<store, disk, provided, exchanger, typed, loose>>

-----------------------------------------------------------------------------
NeedsProvider == store = "oidc" /\ disk.on

\* A crash or shutdown, and the next start
LoadSettings ==
    /\ saver' = [p \in Savers |-> NoSaver]
    /\ NeedsProvider => disk.credential # NoCredential
    /\ memory' = disk /\ provided' = TRUE
    /\ exchanger' = IF NeedsProvider THEN disk.credential ELSE NoCredential
    /\ UNCHANGED <<store, disk, typed, loose>>

\* A provider that is on and cannot be set up is left out until the start after
LoadWithoutProvider ==
    /\ saver' = [p \in Savers |-> NoSaver]
    /\ NeedsProvider
    /\ memory' = Unset /\ provided' = FALSE /\ exchanger' = NoCredential
    /\ UNCHANGED <<store, disk, typed, loose>>

-----------------------------------------------------------------------------
SettingsNext ==
    \/ \E p \in Savers :
        \/ \E on \in BOOLEAN, sent \in Sent \ {MaskText} :
            BeginSaveWebhook(p, on, sent) \/ BeginSaveSMTP(p, on, sent)
        \/ \E on \in BOOLEAN, sent \in Sent : BeginSaveOIDC(p, on, sent)
        \/ SaveWebhook(p) \/ SaveOIDC(p)
        \/ ReadPassword(p) \/ SaveSMTP(p) \/ TestSMTP(p) \/ UpdateMailer(p)
    \/ LoadSettings \/ LoadWithoutProvider

SettingsSpec == SettingsInit /\ [][SettingsNext]_settingsVars

-----------------------------------------------------------------------------
(* What it guarantees *)

\* "A POST that carries the mask (or omits the field) means unchanged": the credential
\* on disk and, when nobody is between the two, the one in use are what an admin last
\* typed, across restarts: unless a read or write failed, or, with the webhook and the
\* mail server, one request saved between another's read and write.
OmittedIsKept ==
    ~loose =>
        /\ disk.credential = typed
        /\ provided /\ (\A p \in Savers : saver[p].pc # "updating")
            => memory.credential = typed
=============================================================================
