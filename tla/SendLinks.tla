-------------------------------- MODULE SendLinks --------------------------------
(***************************************************************************)
(* Links by which anybody sends files.  The row of a link and those of its *)
(* items are inserted one after the other; the sender's mails go out if    *)
(* the links of a day, this one among them, are few enough.  Who opens a   *)
(* link counts as a view, written together with the rest of its row.       *)
(***************************************************************************)
EXTENDS Integers, FiniteSets, FiniteSetsExt

CONSTANTS
    Links,          \* 1, 2, ... in the order they are made
    Items,          \* ids the senders' programs give to what they send
    Folders,        \* those of Items that are folders
    parent_folder,  \* of an item, or None
    size,           \* of an item; that of a folder is the size of what is in it
    DAILY_LIMIT,
    Day,            \* length of a day on the clock
    Expires,        \* age at which a link can't be opened any more
    MaxTime,        \* bound: of the clock
    MaxOpened,      \* bound: times a link is opened
    MaxInFlight     \* bound: requests at work

VARIABLES
    now,
    links,     \* table send_links
    items,     \* table send_links_items: the link of an item
    sent,      \* history: what links were to hold, of those answered
    mailed,    \* history: links the receivers were told of
    opened,    \* history: times a link was shown, or its password was asked
    requests

linkVars == <<now, links, items, sent, mailed, opened, requests>>

----------------------------------------------------------------------------
None == -1

NoLink == [createdAt |-> None]

LinkRow ==
    [views : 0 .. MaxOpened, sender : BOOLEAN, receivers : BOOLEAN, createdAt : 0 .. MaxTime, hashedPassword : BOOLEAN]

Init ==
    /\ now = 0
    /\ links = [l \in Links |-> NoLink] /\ items = [i \in Items |-> None]
    /\ sent = [l \in Links |-> {}] /\ mailed = {} /\ opened = [l \in Links |-> 0]
    /\ requests = {}

Exists(l) == links[l] # NoLink

itemsOf(l) == {i \in Items : items[i] = l}

\* A folder is sent with what it holds.
Whole(S) == S # {} /\ \A i \in Items : parent_folder[i] # None => (i \in S <=> parent_folder[i] \in S)

findById(l) == [link |-> links[l], items |-> itemsOf(l)]

\* What a page shows, and what a mail says.
SendLinkSize(l) == MapThenSumSet(LAMBDA i : IF i \in Folders THEN 0 ELSE size[i], itemsOf(l))

totalSize(S) == MapThenSumSet(LAMBDA i : IF parent_folder[i] = None THEN size[i] ELSE 0, S)

isProtected(link) == link.hashedPassword

expired(link) == now > link.createdAt + Expires

----------------------------------------------------------------------------
NewRequest(op, l) == [nr |-> 0, op |-> op, link |-> l, items |-> {}, row |-> NoLink]

Begin(w) ==
    /\ Cardinality(requests) < MaxInFlight
    /\ requests' = requests \cup {[w EXCEPT !.nr = CHOOSE k \in 1 .. MaxInFlight : \A v \in requests : v.nr # k]}

Goes(w, to) == requests' = (requests \ {w}) \cup {to}

Done(w) == requests' = requests \ {w}

createSendLinks(l, S, sender, receivers, password) ==
    /\ ~ Exists(l) /\ \A k \in 1 .. l - 1 : Exists(k)
    /\ links' = [links EXCEPT ![l] = [views |-> 0, sender |-> sender, receivers |-> receivers, createdAt |-> now,
                                      hashedPassword |-> password]]
    /\ Begin([NewRequest("items", l) EXCEPT !.items = S])
    /\ UNCHANGED <<now, items, sent, mailed, opened>>

\* One that is there fails them all, and the link stays.
bulkCreate(w) ==
    /\ w.op = "items"
    /\ IF \A i \in w.items : items[i] = None
         THEN items' = [i \in Items |-> IF i \in w.items THEN w.link ELSE items[i]] /\ Goes(w, [w EXCEPT !.op = "mails"])
         ELSE UNCHANGED items /\ Done(w)
    /\ UNCHANGED <<now, links, sent, mailed, opened>>

\* Mutant: half a day is looked at.
countOfHalfDay == Cardinality({l \in Links : Exists(l) /\ links[l].sender /\ links[l].createdAt > now - Day \div 2})

countBySendersToday == Cardinality({l \in Links : Exists(l) /\ links[l].sender /\ links[l].createdAt > now - Day})

\* Mails go to the sender and then to the receivers, if there are both.
handleSendLinkCreated(w) ==
    /\ w.op = "mails"
    /\ mailed' = mailed \cup {l \in {w.link} : countBySendersToday < DAILY_LIMIT /\ links[l].sender /\ links[l].receivers}
    /\ sent' = [sent EXCEPT ![w.link] = w.items]
    /\ Done(w)
    /\ UNCHANGED <<now, links, items, opened>>

\* An expired link is not found.
getById(l) ==
    /\ Exists(l) /\ ~ expired(links[l])
    /\ opened[l] + Cardinality({w \in requests : w.op \in {"view", "show"} /\ w.link = l}) < MaxOpened
    /\ Begin([NewRequest("view", l) EXCEPT !.row = links[l]])
    /\ UNCHANGED <<now, links, items, sent, mailed, opened>>

addView(row) == [row EXCEPT !.views = @ + 1]

\* The whole row is written as it was read, and one view more.
update(w) ==
    /\ w.op = "view"
    /\ links' = [links EXCEPT ![w.link] = addView(w.row)]
    /\ Goes(w, [w EXCEPT !.op = "show"])
    /\ UNCHANGED <<now, items, sent, mailed, opened>>

Answers(w) ==
    /\ w.op = "show"
    /\ opened' = [opened EXCEPT ![w.link] = @ + 1]
    /\ Done(w)
    /\ UNCHANGED <<now, links, items, sent, mailed>>

getSendLink(w, password) ==
    /\ isProtected(findById(w.link).link) => password = "right"
    /\ Answers(w)

\* The view has been counted when the password turns out to be wrong, or missing.
unlockLink(w, password) ==
    /\ isProtected(findById(w.link).link) /\ password # "right"
    /\ Answers(w)

requestDies(w) == Done(w) /\ UNCHANGED <<now, links, items, sent, mailed, opened>>

\* Requests take less than the clock tells apart.
tick == now < MaxTime /\ requests = {} /\ now' = now + 1 /\ UNCHANGED <<links, items, sent, mailed, opened, requests>>

Next ==
    \/ \E l \in Links : getById(l)
    \/ \E l \in Links, S \in SUBSET Items, sender, receivers, password \in BOOLEAN :
          Whole(S) /\ createSendLinks(l, S, sender, receivers, password)
    \/ \E w \in requests :
          \/ bulkCreate(w) \/ handleSendLinkCreated(w) \/ update(w)
          \/ \E password \in {"right", "wrong", "missing"} : getSendLink(w, password) \/ unlockLink(w, password)
          \/ w.op \in {"items", "mails"} /\ requestDies(w)
    \/ tick

Spec == Init /\ [][Next]_linkVars

----------------------------------------------------------------------------
(* Properties.                                                             *)

\* Rows are those of the tables: an item is one of a link that is there.
TypeOK ==
    /\ \A l \in Links : Exists(l) => links[l] \in LinkRow
    /\ \A i \in Items : items[i] # None => Exists(items[i])
    /\ Cardinality(requests) <= MaxInFlight

\* However many links are made at once, fewer than the limit are mailed in a day.
MailsWithinDailyLimit ==
    \A t \in 0 .. MaxTime :
        Cardinality({l \in mailed : links[l].createdAt \in t - Day + 1 .. t}) < DAILY_LIMIT

\* A link the sender was given holds all that was to be sent, and no other link's items.
SentIsWhole == \A l \in Links : sent[l] # {} => itemsOf(l) = sent[l]

\* The page of a link and the mail about it agree on its size.
SizesAgree == \A l \in mailed : SendLinkSize(l) = totalSize(sent[l])

\* Every opening of a link is one view, whether or not it could be unlocked.
ViewsCounted == requests = {} => \A l \in Links : Exists(l) => links[l].views = opened[l]

=============================================================================
