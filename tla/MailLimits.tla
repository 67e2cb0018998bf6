------------------------------ MODULE MailLimits ------------------------------
(***************************************************************************)
(* How many mails of each type one account may cause: a row per type in    *)
(* mail_limits counts those of a day, or of a month.  The count is read,   *)
(* the mail is sent, and what was remembered is written back.              *)
(*                                                                         *)
(* Nothing keeps a type from having two rows: a row is found by account    *)
(* and type, and made when there is none.  Types do not know of each       *)
(* other: a behaviour is about one of them.                                *)
(***************************************************************************)
EXTENDS Integers, FiniteSets

CONSTANTS
    Limit,        \* of each type, how many mails it may have
    DaysPerMonth, CooldownDays,
    MaxDay,       \* bound: days
    MaxInFlight,  \* bound: requests at work
    Overlap,      \* may requests interleave?
    Crashes,      \* may a request stop half way?
    Failures      \* may sending fail?

MailTypes == {"unblock_account", "email_verification", "deactivate_user", "pre_create_user", "full_storage"}

VARIABLES
    today,    \* the day
    type,     \* the type of the mails
    limit,    \* how many rows it has, and what they hold
    requests, \* requests at work
    sent,     \* history: of each day, mails sent, up to one too many
    stopped   \* history: did a request stop half way?

mailVars == <<today, type, limit, requests, sent, stopped>>

----------------------------------------------------------------------------
\* A day long before the first.
LongAgo == -100

\* Monthly: the only type that is not counted by day.
Monthly == {"full_storage"}

MailLimitModel == [rows : 0 .. MaxInFlight, attemptsCount : Nat, lastMailSent : Int]

NoRow == [rows |-> 0, attemptsCount |-> 0, lastMailSent |-> LongAgo]

Init ==
    /\ today = 0 /\ requests = {} /\ stopped = FALSE
    /\ type \in MailTypes /\ limit = NoRow
    /\ sent = [d \in 0 .. MaxDay |-> 0]

----------------------------------------------------------------------------
isToday(d) == d = today

isThisMonth(d) == d \div DaysPerMonth = today \div DaysPerMonth

daysSince(d) == today - d

\* Where no date is given the default is that of the day the process was started.
defaults ==
    [rows |-> 1, attemptsCount |-> 0,
     lastMailSent |-> CASE type = "pre_create_user" -> today [] type = "full_storage" -> LongAgo [] OTHER -> 0]

findOrCreate == IF limit.rows = 0 THEN defaults ELSE limit

isLimitForTodayReached(row) == isToday(row.lastMailSent) /\ row.attemptsCount >= Limit[type]

isLimitForThisMonthReached(row) == isThisMonth(row.lastMailSent) /\ row.attemptsCount >= Limit[type]

\* Mutant: yesterday's count goes on.
increaseAttempts(row) == [row EXCEPT !.attemptsCount = @ + 1, !.lastMailSent = today]

increaseTodayAttempts(row) ==
    [row EXCEPT !.attemptsCount = IF isToday(row.lastMailSent) THEN @ + 1 ELSE 1, !.lastMailSent = today]

increaseMonthAttempts(row) ==
    [row EXCEPT !.attemptsCount = IF isThisMonth(row.lastMailSent) THEN @ + 1 ELSE 1, !.lastMailSent = today]

----------------------------------------------------------------------------
Quiet == Overlap \/ requests = {}

Free == CHOOSE k \in 1 .. MaxInFlight : \A w \in requests : w.nr # k

Goes(w, to) == requests' = (requests \ {w}) \cup {to}

\* Two requests that find no row both make one.
Asks(y) ==
    /\ type = y
    /\ Quiet /\ Cardinality(requests) < MaxInFlight
    /\ requests' = requests \cup {[nr |-> Free, op |-> IF limit.rows = 0 THEN "insert" ELSE "check",
                                   row |-> findOrCreate]}
    /\ UNCHANGED <<today, type, limit, sent, stopped>>

insertRow(w) ==
    /\ w.op = "insert"
    /\ limit' = [w.row EXCEPT !.rows = limit.rows + 1]
    /\ Goes(w, [w EXCEPT !.op = "check"])
    /\ UNCHANGED <<today, type, sent, stopped>>

Refuses(row) == isLimitForTodayReached(row)

checkAndNotifyStorageThreshold(row) ==
    daysSince(row.lastMailSent) < CooldownDays \/ isLimitForThisMonthReached(row)

sends(w, refused) ==
    /\ w.op = "check"
    /\ \/ refused /\ requests' = requests \ {w} /\ UNCHANGED sent
       \/ /\ ~ refused
          /\ \/ /\ sent' = [sent EXCEPT ![today] = IF @ > Limit[type] THEN @ ELSE @ + 1]
                /\ Goes(w, [w EXCEPT !.op = "write"])
             \/ Failures /\ requests' = requests \ {w} /\ UNCHANGED sent
    /\ UNCHANGED <<today, type, limit, stopped>>

sendMail(w) ==
    sends(w, IF type \in Monthly THEN checkAndNotifyStorageThreshold(w.row) ELSE Refuses(w.row))

\* What is written includes the id of the row that was found: when there are two rows the
\* write fails.
updateByUserIdAndMailType(row) == limit' = IF limit.rows > 1 THEN limit ELSE row

countMail(w) ==
    /\ w.op = "write"
    /\ updateByUserIdAndMailType(
           IF type \in Monthly THEN increaseMonthAttempts(w.row) ELSE increaseTodayAttempts(w.row))
    /\ requests' = requests \ {w}
    /\ UNCHANGED <<today, type, sent, stopped>>

----------------------------------------------------------------------------
(* Who sends mails.                                                        *)

sendAccountUnblockEmail == Asks("unblock_account")

sendAccountEmailVerification == Asks("email_verification")

sendDeactivationEmail == Asks("deactivate_user")

\* Only when the user was not known: what is counted are the users created.
getOrPreCreateUser(known) == ~ known /\ Asks("pre_create_user")

sendAccountVerifyEmail == sendAccountEmailVerification

sendUserDeactivationEmail == sendDeactivationEmail

\* The usage of an account that is nearly full.
getUserUsage(usagePercent) == usagePercent >= 80 /\ Asks("full_storage")

midnight ==
    /\ today < MaxDay /\ today' = today + 1
    /\ requests = {}
    /\ UNCHANGED <<type, limit, requests, sent, stopped>>

\* Bound: once.
requestDies(w) ==
    /\ Crashes /\ ~ stopped /\ requests' = requests \ {w} /\ stopped' = TRUE
    /\ UNCHANGED <<today, type, limit, sent>>

Next ==
    \/ midnight \/ sendAccountUnblockEmail \/ sendAccountVerifyEmail \/ sendUserDeactivationEmail
    \/ \E k \in BOOLEAN : getOrPreCreateUser(k)
    \/ \E p \in {79, 80} : getUserUsage(p)
    \/ \E w \in requests : insertRow(w) \/ sendMail(w) \/ countMail(w) \/ requestDies(w)

Spec == Init /\ [][Next]_mailVars

----------------------------------------------------------------------------
(* Properties.                                                             *)

Days == 0 .. MaxDay

\* Days with a mail, of the month of day d.
MailedIn(d) == {e \in Days : sent[e] > 0 /\ e \div DaysPerMonth = d \div DaysPerMonth}

\* Rows have the columns of the table, and no row is of the future.
TypeOK ==
    /\ today \in Days /\ Cardinality(requests) <= MaxInFlight
    /\ limit \in MailLimitModel /\ limit.lastMailSent \in {LongAgo} \cup 0 .. today
    /\ limit.rows = 0 => limit = NoRow

\* No day has more mails of a type than its limit.
WithinDailyLimit == ~ stopped /\ type \notin Monthly => \A d \in Days : sent[d] <= Limit[type]

\* A day starts afresh: mails are refused when the limit is reached that day, and only then.
RefusedOnlyAtTheLimit ==
    requests = {} /\ ~ stopped /\ type \notin Monthly =>
        (Refuses(findOrCreate) <=> sent[today] >= Limit[type])

\* No month has more mails about a full storage than the limit, and no two are closer to
\* each other than the cooldown.
StorageMailsSpaced ==
    ~ stopped /\ type \in Monthly =>
        /\ \A d \in Days : sent[d] <= 1 /\ Cardinality(MailedIn(d)) <= Limit[type]
        /\ \A d, e \in Days : d < e /\ sent[d] > 0 /\ sent[e] > 0 => e - d >= CooldownDays

=============================================================================
