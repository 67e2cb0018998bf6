----------------------------- MODULE MCAccounts -----------------------------
(***************************************************************************)
(* UserAccounts, Credentials and MailLimits for TLC: part tells which of   *)
(* them a behaviour is about and whether requests race.                    *)
(***************************************************************************)
EXTENDS UserAccounts, TLC

CONSTANTS
    Secrets, MAX_LOGIN_FAIL_ATTEMPTS, FutureSeconds, MaxTime, MaxVersion, MaxTokens,
    Limit, DaysPerMonth, CooldownDays, MaxDay

ASSUME CredentialsConstants ==
    /\ MAX_LOGIN_FAIL_ATTEMPTS \in Nat
    /\ FutureSeconds \in Nat \ {0}   \* a minute

VARIABLES
    part,
    now, user, keys, tokens, blacklist, lastMailSent, given, requests, spent, wrong, stopped,
    today, type, limit, mailRequests, sent, mailStopped

credentialVars == <<now, user, keys, tokens, blacklist, lastMailSent, given, requests, spent, wrong, stopped>>

mailVars == <<today, type, limit, mailRequests, sent, mailStopped>>

FewMails ==
    [unblock_account |-> 2, email_verification |-> 2, deactivate_user |-> 2,
     pre_create_user |-> 1, full_storage |-> 2]

AccountsTogether ==
    INSTANCE UserAccounts WITH Workspaces <- FALSE, Crashes <- FALSE, Failures <- FALSE

Cred == INSTANCE Credentials WITH PartialRecovery <- FALSE, Overlap <- FALSE

CredTogether ==
    INSTANCE Credentials WITH
        Secrets <- {}, MAX_LOGIN_FAIL_ATTEMPTS <- 1, MaxTime <- MaxTime - 1,
        PartialRecovery <- TRUE, Overlap <- TRUE, Crashes <- FALSE

MailsAlone ==
    INSTANCE MailLimits WITH
        Overlap <- FALSE, requests <- mailRequests, stopped <- mailStopped

MailsTogether ==
    INSTANCE MailLimits WITH
        MaxDay <- 1, Overlap <- TRUE, Crashes <- FALSE, Failures <- FALSE,
        requests <- mailRequests, stopped <- mailStopped

\* Some mail of each type is allowed.
ASSUME MailConstants ==
    /\ Limit \in [MailsAlone!MailTypes -> Nat \ {0}]
    /\ DaysPerMonth \in Nat \ {0} /\ CooldownDays \in Nat \ {0} /\ MaxDay \in Nat

\* The parts a behaviour is not about do not move.
AtRest ==
    /\ part \notin {"credentials alone", "credentials together"} =>
          keys = [k \in Cred!UserKeysEncryptVersions |-> 0]
    /\ part \notin {"mails alone", "mails together"} => type = "full_storage"

MCInit ==
    /\ part \in {"accounts", "credentials alone", "credentials together", "mails alone", "mails together"}
    /\ Init /\ (part # "accounts" => alone)
    /\ Cred!Init /\ MailsAlone!Init /\ AtRest

MCNext ==
    /\ UNCHANGED part
    /\ \/ part = "accounts" /\ alone /\ Next /\ UNCHANGED <<credentialVars, mailVars>>
       \/ part = "accounts" /\ ~ alone /\ AccountsTogether!Next /\ UNCHANGED <<credentialVars, mailVars>>
       \/ part = "credentials alone" /\ Cred!Next /\ UNCHANGED <<accountVars, mailVars>>
       \/ part = "credentials together" /\ CredTogether!Next /\ UNCHANGED <<accountVars, mailVars>>
       \/ part = "mails alone" /\ MailsAlone!Next /\ UNCHANGED <<accountVars, credentialVars>>
       \/ part = "mails together" /\ MailsTogether!Next /\ UNCHANGED <<accountVars, credentialVars>>

MCSpec == MCInit /\ [][MCNext]_<<accountVars, part, credentialVars, mailVars>>

Symmetry == Permutations(Emails) \cup Permutations(Secrets)

(* Requests that run one at a time may fail or stop half way.              *)

\* With requests one at a time every way to change the password leaves keys that
\* open with it, a mailed token works once and only the newest one unblocks, and
\* nobody tries more often than allowed.
CredentialsCoherentAlone ==
    part = "credentials alone" =>
        /\ Cred!KeysOpenWithPassword
        /\ Cred!MailedTokenOnce /\ Cred!OnlyNewestUnblocks
        /\ Cred!FailuresCounted

\* Whatever races, sessions of logins before a change of password end with it, and
\* the session that answers it works.
SessionsFollowPassword ==
    Cred!OldSessionsEnd /\ Cred!NewSessionWorks

\* With requests one at a time mails are refused when the limit of their day is
\* reached and only then, and those about storage keep their month and distance.
MailsWithinLimitsAlone ==
    part = "mails alone" =>
        MailsAlone!WithinDailyLimit /\ MailsAlone!RefusedOnlyAtTheLimit /\ MailsAlone!StorageMailsSpaced

=============================================================================
