------------------------------ MODULE Credentials ------------------------------
(***************************************************************************)
(* The credentials of one account: its password, the private keys that are *)
(* encrypted under it, sessions, the counter of failed logins, recovery    *)
(* and unblocking by mail, and the second factor.                          *)
(*                                                                         *)
(* A token knows the second it was issued in, the row the exact time of    *)
(* the last change: time is counted in ticks, two to a second.  A password *)
(* is a version; a key is the version it is encrypted under.  A handler is *)
(* a request in inflight with the writes it still has to do.               *)
(***************************************************************************)
EXTENDS Integers, FiniteSets, Sequences

CONSTANTS
    Secrets,                  \* secrets of a second factor
    MAX_LOGIN_FAIL_ATTEMPTS,  \* failed logins until the account is blocked
    FutureSeconds,            \* how far ahead the session after a change is dated
    MaxTime,                  \* bound: ticks
    MaxVersion,               \* bound: passwords
    MaxTokens,                \* bound: tokens
    MaxInFlight,              \* bound: requests at work
    PartialRecovery,          \* may a recovery send fewer private keys than there are?
    Overlap,                  \* may requests interleave?
    Crashes                   \* may a request stop half way?

VARIABLES
    now,           \* ticks
    user,          \* the row in table users
    keys,          \* of each kind, the password its private key is encrypted under
    tokens,        \* tokens issued: sessions, recoveries, unblockings
    blacklist,     \* numbers of the sessions logged out
    lastMailSent,  \* second of the last mail to unblock, as counted
    given,         \* the newest password a request brought
    requests,      \* requests at work
    spent,         \* history: numbers of the mailed tokens whose request was answered
    wrong,         \* history: wrong logins since a right one or an unblocking
    stopped        \* history: did a request stop half way?

credentialVars ==
    <<now, user, keys, tokens, blacklist, lastMailSent, given, requests, spent, wrong, stopped>>

----------------------------------------------------------------------------
Never == -1

None == 0

UserKeysEncryptVersions == {"ecc", "kyber"}

Second == now \div 2

UserColumns == [password : 1 .. MaxVersion, lastPasswordChangedAt : Never .. MaxTime,
                errorLoginCount : 0 .. MAX_LOGIN_FAIL_ATTEMPTS, secret_2FA : {None} \cup Secrets]

Token == [nr : 1 .. MaxTokens, kind : {"session", "newSession", "recovery", "unblock"},
          iat : Nat, at : 0 .. MaxTime]

NewRequest(todo) ==
    [nr |-> 0, todo |-> todo, password |-> None, failures |-> 0, secret |-> None, token |-> 0]

Init ==
    /\ now = 0 /\ lastMailSent = Never /\ given = 1
    /\ user = [password |-> 1, lastPasswordChangedAt |-> Never, errorLoginCount |-> 0,
               secret_2FA |-> None]
    /\ keys \in {[k \in UserKeysEncryptVersions |-> IF k \in has THEN 1 ELSE None] :
                 has \in {{}, {"ecc"}, UserKeysEncryptVersions}}
    /\ tokens = {} /\ blacklist = {} /\ requests = {}
    /\ spent = {} /\ wrong = 0 /\ stopped = FALSE

----------------------------------------------------------------------------
(* Requests and their writes.                                              *)

Quiet == Overlap \/ requests = {}

Begin(w) ==
    /\ Quiet /\ Cardinality(requests) < MaxInFlight
    /\ LET taken == {v.nr : v \in requests}
       IN  requests' = requests \cup {[w EXCEPT !.nr = CHOOSE k \in 1 .. MaxInFlight :
                                          k \notin taken /\ 1 .. k - 1 \subseteq taken]}

\* The mailed token of a request is spent when its request is answered.
Goes(w) ==
    LET left == Tail(w.todo) IN
    /\ requests' = (requests \ {w}) \cup (IF left = << >> THEN {} ELSE {[w EXCEPT !.todo = left]})
    /\ spent' = IF left = << >> /\ w.token # 0 THEN spent \cup {w.token} ELSE spent

Doing(w, op) == Head(w.todo) = op

NewPassword == given < MaxVersion /\ given' = given + 1

----------------------------------------------------------------------------
(* Tokens.                                                                 *)

getTokenDefaultIat == Second

\* So that it is not older than the change it answers.
getFutureIAT == Second + FutureSeconds

Sign(kind, iat) ==
    /\ Cardinality(tokens) < MaxTokens
    /\ tokens' = tokens \cup {[nr |-> Cardinality(tokens) + 1, kind |-> kind, iat |-> iat, at |-> now]}

\* Mutant: seconds are compared with seconds.
changedInLaterSecond(t) == user.lastPasswordChangedAt \div 2 <= t.iat

\* The date of the row is exact, that of the token its second.
issuedSinceLastPasswordChange(t) ==
    user.lastPasswordChangedAt = Never \/ user.lastPasswordChangedAt <= 2 * t.iat

isJwtBlacklisted(t) == t.nr \in blacklist

\* The strategy that guards every request of a session.
validate(t) ==
    t.kind \in {"session", "newSession"} /\ ~ isJwtBlacklisted(t) /\ issuedSinceLastPasswordChange(t)

\* A mail takes time to arrive.  That a token expires is left out.
verifyAndDecodeAccountRecoveryToken(t) ==
    t.kind = "recovery" /\ now > t.at /\ issuedSinceLastPasswordChange(t)

----------------------------------------------------------------------------
(* Login.                                                                  *)

loginAttemptsLimitReached == user.errorLoginCount >= MAX_LOGIN_FAIL_ATTEMPTS

\* right: both the password and, where there is a secret, the code.
loginAccess(right, withKeys) ==
    /\ ~ loginAttemptsLimitReached
    /\ LET w == [NewRequest(<< >>) EXCEPT !.failures = user.errorLoginCount, !.password = user.password]
       IN  IF right
             THEN /\ Sign("session", getTokenDefaultIat)
                  /\ Begin([w EXCEPT !.todo = <<"loginSucceeded">> \o
                               IF withKeys THEN <<"createEcc", "createKyber">> ELSE << >>])
                  /\ UNCHANGED wrong
             ELSE /\ Begin([w EXCEPT !.todo = <<"loginFailed">>])
                  /\ wrong' = IF wrong > MAX_LOGIN_FAIL_ATTEMPTS THEN wrong ELSE wrong + 1
                  /\ UNCHANGED tokens
    /\ UNCHANGED <<now, user, keys, blacklist, lastMailSent, given, spent, stopped>>

failuresWritten(w) == w.failures + 1

loginFailed(w) ==
    /\ \/ /\ Doing(w, "loginFailed")
          /\ user' = [user EXCEPT !.errorLoginCount = failuresWritten(w)]
          /\ UNCHANGED wrong
       \/ /\ Doing(w, "loginSucceeded")
          /\ user' = [user EXCEPT !.errorLoginCount = 0] /\ wrong' = 0
    /\ Goes(w)
    /\ UNCHANGED <<now, keys, tokens, blacklist, lastMailSent, given, stopped>>

\* The client encrypted them under the password it logged in with.
findUserKeysOrCreate(w, kind) ==
    keys' = IF keys[kind] = None THEN [keys EXCEPT ![kind] = w.password] ELSE keys

findOrCreateKeysForUser(w) ==
    /\ \/ Doing(w, "createEcc") /\ findUserKeysOrCreate(w, "ecc")
       \/ Doing(w, "createKyber") /\ findUserKeysOrCreate(w, "kyber")
    /\ Goes(w)
    /\ UNCHANGED <<now, user, tokens, blacklist, lastMailSent, given, wrong, stopped>>

postLoginAccess(right, withKeys) == loginAccess(right, withKeys)

\* The command line sends no Kyber keys.
cliLoginAccess(right) == loginAccess(right, FALSE)

logout(t) ==
    /\ Quiet /\ validate(t)
    /\ blacklist' = blacklist \cup {t.nr}
    /\ UNCHANGED <<now, user, keys, tokens, lastMailSent, given, requests, spent, wrong, stopped>>

----------------------------------------------------------------------------
(* Changes of password.                                                    *)

\* Mutant: only the older kind of keys is written.
eccOnly(kinds) == <<"ecc">>

keysToUpdate(kinds) == IF "kyber" \in kinds THEN <<"ecc", "kyber">> ELSE <<"ecc">>

\* The row first, then the keys one by one.
updatePassword(kinds) ==
    /\ keys["kyber"] # None => "kyber" \in kinds
    /\ NewPassword
    /\ Begin([NewRequest(<<"row">> \o keysToUpdate(kinds) \o <<"newSession">>) EXCEPT
                 !.password = given + 1])

patchPassword(t, kinds) ==
    /\ validate(t)
    /\ updatePassword(kinds)
    /\ UNCHANGED <<now, user, keys, tokens, blacklist, lastMailSent, spent, wrong, stopped>>

answerNewSession(w) ==
    /\ Doing(w, "newSession")
    /\ Sign("newSession", getFutureIAT)
    /\ Goes(w)
    /\ UNCHANGED <<now, user, keys, blacklist, lastMailSent, given, wrong, stopped>>

updateByUserAndEncryptVersion(kind, version) ==
    keys' = IF keys[kind] = None THEN keys ELSE [keys EXCEPT ![kind] = version]

updateKey(w) ==
    /\ \/ Doing(w, "ecc") /\ updateByUserAndEncryptVersion("ecc", w.password)
       \/ Doing(w, "kyber") /\ updateByUserAndEncryptVersion("kyber", w.password)
    /\ Goes(w)
    /\ UNCHANGED <<now, user, tokens, blacklist, lastMailSent, given, wrong, stopped>>

deleteByUserId(w) ==
    /\ Doing(w, "deleteKeys")
    /\ keys' = [k \in UserKeysEncryptVersions |-> None]
    /\ Goes(w)
    /\ UNCHANGED <<now, user, tokens, blacklist, lastMailSent, given, wrong, stopped>>

updateById(w) ==
    /\ Doing(w, "row")
    /\ user' = [user EXCEPT !.password = w.password, !.lastPasswordChangedAt = now]
    /\ Goes(w)
    /\ UNCHANGED <<now, keys, tokens, blacklist, lastMailSent, given, wrong, stopped>>

----------------------------------------------------------------------------
(* Recovery.                                                               *)

sendAccountRecoveryEmail ==
    /\ Quiet /\ Sign("recovery", Second)
    /\ UNCHANGED <<now, user, keys, blacklist, lastMailSent, given, requests, spent, wrong, stopped>>

requestAccountRecovery == sendAccountRecoveryEmail

recover(t, todo) ==
    /\ verifyAndDecodeAccountRecoveryToken(t)
    /\ NewPassword
    /\ Begin([NewRequest(todo) EXCEPT !.password = given + 1, !.token = t.nr])
    /\ UNCHANGED <<now, user, keys, tokens, blacklist, lastMailSent, spent, wrong, stopped>>

keysToRecover(kinds) ==
    (IF "ecc" \in kinds THEN <<"ecc">> ELSE << >>) \o (IF "kyber" \in kinds THEN <<"kyber">> ELSE << >>)

\* The keys first, or none when the account is reset, then the row.
updateCredentials(t, kinds, withReset) ==
    IF withReset THEN recover(t, <<"deleteKeys", "row">>)
    ELSE /\ kinds # {}
         /\ recover(t, keysToRecover(kinds) \o <<"row">>)

\* The private keys of a request are not validated one by one.
recoverAccountV2(t, kinds, reset) ==
    /\ PartialRecovery \/ {k \in UserKeysEncryptVersions : keys[k] # None} \subseteq kinds
    /\ updateCredentials(t, kinds, reset)

\* The old way forgets the keys.
updateCredentialsOld(t) == recover(t, <<"row", "deleteKeys">>)

recoverAccount(t) == updateCredentialsOld(t)

\* New keys, of which there are those there were.
recoverAccountLegacy(t) == recover(t, <<"ecc", "kyber", "row">>)

requestLegacyAccountRecovery(t) == recoverAccountLegacy(t)

----------------------------------------------------------------------------
(* Unblocking.  How many mails may be sent is the matter of MailLimits.    *)

sendAccountUnblockEmail ==
    /\ Sign("unblock", getTokenDefaultIat)
    /\ Begin([NewRequest(<<"mailed">>) EXCEPT !.failures = Second])
    /\ UNCHANGED <<now, user, keys, blacklist, lastMailSent, given, spent, wrong, stopped>>

requestAccountUnblock == sendAccountUnblockEmail

increaseTodayAttempts(w) == lastMailSent' = w.failures

unblockMailed(w) ==
    /\ Doing(w, "mailed")
    /\ increaseTodayAttempts(w)
    /\ Goes(w)
    /\ UNCHANGED <<now, user, keys, tokens, blacklist, given, wrong, stopped>>

mayUnblock(t) ==
    t.kind = "unblock" /\ now > t.at /\ lastMailSent <= t.iat /\ issuedSinceLastPasswordChange(t)

unblockAccount(t) ==
    /\ mayUnblock(t)
    /\ Begin([NewRequest(<<"unblock">>) EXCEPT !.token = t.nr])
    /\ UNCHANGED <<now, user, keys, tokens, blacklist, lastMailSent, given, spent, wrong, stopped>>

accountUnblock(t) == unblockAccount(t)

unblocks == user' = [user EXCEPT !.errorLoginCount = 0, !.lastPasswordChangedAt = now]

unblockWrites(w) ==
    /\ Doing(w, "unblock")
    /\ unblocks /\ wrong' = 0
    /\ Goes(w)
    /\ UNCHANGED <<now, keys, tokens, blacklist, lastMailSent, given, stopped>>

----------------------------------------------------------------------------
(* The second factor.                                                      *)

putTfa(t, s) ==
    /\ validate(t) /\ user.secret_2FA = None
    /\ Begin([NewRequest(<<"secret">>) EXCEPT !.secret = s])
    /\ UNCHANGED <<now, user, keys, tokens, blacklist, lastMailSent, given, spent, wrong, stopped>>

deleteTfa(t) ==
    /\ validate(t) /\ user.secret_2FA # None
    /\ Begin(NewRequest(<<"secret">>))
    /\ UNCHANGED <<now, user, keys, tokens, blacklist, lastMailSent, given, spent, wrong, stopped>>

writeSecret(w) ==
    /\ Doing(w, "secret")
    /\ user' = [user EXCEPT !.secret_2FA = w.secret]
    /\ Goes(w)
    /\ UNCHANGED <<now, keys, tokens, blacklist, lastMailSent, given, wrong, stopped>>

----------------------------------------------------------------------------
tick ==
    /\ now < MaxTime /\ now' = now + 1
    /\ UNCHANGED <<user, keys, tokens, blacklist, lastMailSent, given, requests, spent, wrong, stopped>>

requestDies(w) ==
    /\ Crashes /\ requests' = requests \ {w} /\ stopped' = TRUE
    /\ UNCHANGED <<now, user, keys, tokens, blacklist, lastMailSent, given, spent, wrong>>

Next ==
    \/ tick \/ requestAccountRecovery \/ requestAccountUnblock
    \/ \E r \in BOOLEAN : cliLoginAccess(r) \/ \E k \in BOOLEAN : postLoginAccess(r, k)
    \/ \E t \in tokens :
          \/ logout(t) \/ recoverAccount(t) \/ requestLegacyAccountRecovery(t)
          \/ accountUnblock(t) \/ deleteTfa(t)
          \/ \E s \in Secrets : putTfa(t, s)
          \/ \E kinds \in SUBSET UserKeysEncryptVersions :
                \/ patchPassword(t, kinds)
                \/ \E r \in BOOLEAN : recoverAccountV2(t, kinds, r)
    \/ \E w \in requests :
          \/ loginFailed(w) \/ findOrCreateKeysForUser(w) \/ answerNewSession(w) \/ updateKey(w)
          \/ deleteByUserId(w) \/ updateById(w) \/ unblockMailed(w) \/ unblockWrites(w)
          \/ writeSecret(w) \/ requestDies(w)

Spec == Init /\ [][Next]_credentialVars

----------------------------------------------------------------------------
(* Properties.                                                             *)

Settled == requests = {} /\ ~ stopped

\* Columns hold what they may hold; no more failures are counted than block the account.
TypeOK ==
    /\ now \in 0 .. MaxTime /\ user \in UserColumns
    /\ keys \in [UserKeysEncryptVersions -> 0 .. MaxVersion]
    /\ tokens \subseteq Token /\ blacklist \subseteq 1 .. MaxTokens
    /\ lastMailSent \in Never .. MaxTime /\ given \in 1 .. MaxVersion
    /\ Cardinality(requests) <= MaxInFlight

\* Every way to change the password leaves private keys that open with the new one.
KeysOpenWithPassword ==
    Settled => \A k \in UserKeysEncryptVersions : keys[k] \in {None, user.password}

\* A mailed token that changed the credentials or unblocked the account is not accepted again.
MailedTokenOnce ==
    Settled => \A t \in tokens : t.nr \in spent =>
                  ~ verifyAndDecodeAccountRecoveryToken(t) /\ ~ mayUnblock(t)

\* Only the newest mail unblocks the account; mails of one second are alike.
OnlyNewestUnblocks ==
    Settled => \A t, u \in tokens : t.kind = "unblock" /\ u.kind = "unblock" /\ t.iat < u.iat =>
                  ~ mayUnblock(t)

\* Nobody tries more often than allowed.
FailuresCounted == ~ stopped => wrong <= MAX_LOGIN_FAIL_ATTEMPTS

\* The session that answers a change of password works.
NewSessionWorks ==
    \A t \in tokens : t.kind = "newSession" /\ t.at >= user.lastPasswordChangedAt =>
        validate(t) \/ isJwtBlacklisted(t)

\* The sessions of logins before a change end with it.
OldSessionsEnd ==
    \A t \in tokens : t.kind = "session" /\ t.at < user.lastPasswordChangedAt => ~ validate(t)

=============================================================================
