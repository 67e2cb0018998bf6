----------------------------- MODULE UserAccounts -----------------------------
(***************************************************************************)
(* The rows of table users: sign-up with its rollback, people who are only *)
(* pre-created because somebody shared something with them, the root       *)
(* folder every account needs, changes of e-mail address, and the          *)
(* deactivation of an account.  The address is stored twice, in the row    *)
(* and at the network (the bridge), which is another service.              *)
(*                                                                         *)
(* A handler is a request in inflight, whose op names its next statement;  *)
(* unless a behaviour is alone, other steps may come in between.  Any call *)
(* may fail when Failures = TRUE.                                          *)
(***************************************************************************)
EXTENDS Naturals, FiniteSets, Sequences

CONSTANTS
    Emails,       \* e-mail addresses
    Ids,          \* ids of rows, 1 .. n, given out in order
    Roots,        \* ids of root folders, 1 .. n, given out in order
    MaxInFlight,  \* bound: requests at work
    MaxAttempts,  \* bound: attempts to change an address
    Workspaces,   \* may users have a seat in a workspace?
    Crashes,      \* may a request stop half way?
    Failures      \* may a call fail?

VARIABLES
    users,       \* of each id, its row
    used,        \* ids given out
    bridge,      \* of each account at the network, its address
    roots,       \* of each root folder, its owner and status
    preCreated,  \* addresses with a row in pre_created_users
    attempts,    \* of each attempt to change an address, its row
    members,     \* ids with a seat in a workspace
    inflight,    \* requests at work
    halfway,     \* history: roots of sign-ups that failed, or of requests that crashed
    crashed,     \* history: ids of whom a request crashed
    deactivated, \* history: ids whose deactivation was reported done
    alone        \* does each request wait for the one before?

accountVars ==
    <<users, used, bridge, roots, preCreated, attempts, members, inflight, halfway, crashed, deactivated, alone>>

----------------------------------------------------------------------------
NoEmail == "none"

Renamed == "DELETED"

\* No address is one of the values that stand for none and for a renamed user.
ASSUME UserAccountsConstants ==
    /\ {NoEmail, Renamed} \cap Emails = {}
    /\ IsFiniteSet(Ids) /\ Ids = 1 .. Cardinality(Ids)
    /\ IsFiniteSet(Roots) /\ Roots = 1 .. Cardinality(Roots)
    /\ MaxInFlight \in Nat /\ MaxAttempts \in Nat
    /\ Workspaces \in BOOLEAN /\ Crashes \in BOOLEAN /\ Failures \in BOOLEAN

NoRoot == 0

NoUser == [email |-> NoEmail, account |-> 0, root |-> NoRoot, keys |-> FALSE, moved |-> FALSE]

\* keys: were keys created with the account?  moved: did the address change since?
UserRow == [email : Emails \cup {NoEmail, Renamed}, account : Ids \cup {0}, root : Roots \cup {NoRoot},
            keys : BOOLEAN, moved : BOOLEAN]

FolderRow == [owner : Ids \cup {0}, live : BOOLEAN]

AttemptRow == [user : Ids, newEmail : Emails, isVerified : BOOLEAN, isExpired : BOOLEAN]

NewRequest(op, id, e) ==
    [nr |-> 0, op |-> op, id |-> id, email |-> e, root |-> NoRoot, account |-> 0,
     old |-> NoEmail, attempt |-> 0, signUp |-> FALSE, keys |-> FALSE]

Init ==
    /\ users = [i \in Ids |-> NoUser]
    /\ used = 0 /\ bridge = [i \in Ids |-> NoEmail]
    /\ roots = [f \in Roots |-> [owner |-> 0, live |-> FALSE]]
    /\ preCreated = {} /\ attempts = << >> /\ members = {}
    /\ inflight = {} /\ halfway = {} /\ crashed = {} /\ deactivated = {} /\ alone \in BOOLEAN

----------------------------------------------------------------------------
(* Queries.                                                                *)

Registered == {i \in Ids : users[i].email # NoEmail}

findByUsername(e) == {i \in Ids : users[i].email = e}

findPreCreatedByEmail(e) == e \in preCreated

getFolderByIdNoDecryption(f) == f # NoRoot /\ roots[f].owner # 0

\* Rows of tables that refer to users, keep their user from being deleted and are not
\* among those a deactivation deletes.
ReferencedElsewhere(i) == i \in members \/ \E a \in DOMAIN attempts : attempts[a].user = i

----------------------------------------------------------------------------
(* Requests.                                                               *)

Quiet == alone => inflight = {}

Numbers == {v.nr : v \in inflight}

Begin(w) ==
    /\ Quiet
    /\ \E k \in 1 .. MaxInFlight :
          /\ k \notin Numbers /\ 1 .. k - 1 \subseteq Numbers
          /\ inflight' = inflight \cup {[w EXCEPT !.nr = k]}

Goes(w, to) == inflight' = (inflight \ {w}) \cup {to}

Done(w) == inflight' = inflight \ {w}

Histories == UNCHANGED <<halfway, crashed, deactivated>>

Others == UNCHANGED <<preCreated, attempts, members>>

\* The row is gone when its user was deleted in between.
updateUser(i, row) == users' = IF users[i] = NoUser THEN users ELSE [users EXCEPT ![i] = row]

----------------------------------------------------------------------------
(* Sign-up.                                                                *)

\* An external service: one account per address, new or known.
networkAccount(e) ==
    IF \E k \in Ids : bridge[k] = e THEN {k \in Ids : bridge[k] = e}
    ELSE {k \in Ids : bridge[k] = NoEmail /\ \A i \in Ids : users[i].account # k}

\* The network is asked for an account before there is a row.
createUser(e, withKeys) ==
    /\ findByUsername(e) = {}
    /\ \E k \in networkAccount(e) :
          /\ bridge' = [bridge EXCEPT ![k] = e]
          /\ Begin([NewRequest("insertUser", 0, e) EXCEPT
                       !.account = k, !.signUp = TRUE, !.keys = withKeys])
    /\ UNCHANGED <<users, roots, used>> /\ Others /\ Histories

\* The user name is unique.
insertUser(w) ==
    /\ w.op = "insertUser"
    /\ IF findByUsername(w.email) = {}
         THEN /\ used + 1 \in Ids /\ used' = used + 1
              /\ users' = [users EXCEPT ![used + 1] =
                   [NoUser EXCEPT !.email = w.email, !.account = w.account, !.keys = w.keys]]
              /\ Goes(w, [w EXCEPT !.op = "createRoot", !.id = used + 1])
         ELSE Done(w) /\ UNCHANGED <<users, used>>
    /\ UNCHANGED <<bridge, roots>> /\ Others /\ Histories

\* Only a sign-up is undone, and its root folder only if it is known.
rollback(w, f) ==
    IF w.signUp THEN Goes(w, [w EXCEPT !.op = "deleteUser", !.root = f]) ELSE Done(w)

\* The folders inside the root are left out.
createInitialFolders(w) ==
    /\ \/ /\ w.op = "createRoot"
          /\ \/ \E f \in Roots :
                   /\ roots[f].owner = 0 /\ \A g \in Roots : g < f => roots[g].owner # 0
                   /\ roots' = [roots EXCEPT ![f] = [owner |-> w.id, live |-> TRUE]]
                   /\ Goes(w, [w EXCEPT !.op = "linkRoot", !.root = f])
             \/ Failures /\ rollback(w, NoRoot) /\ UNCHANGED roots
          /\ UNCHANGED <<users, halfway>>
       \/ /\ w.op = "linkRoot"
          /\ \/ /\ updateUser(w.id, [users[w.id] EXCEPT !.root = w.root])
                /\ Goes(w, [w EXCEPT !.op = IF w.signUp THEN "getTokens" ELSE "answer"])
                /\ UNCHANGED halfway
             \/ /\ Failures
                /\ rollback(w, NoRoot)
                /\ halfway' = halfway \cup {w.root} /\ UNCHANGED users
          /\ UNCHANGED roots
    /\ UNCHANGED <<used, bridge, crashed, deactivated>> /\ Others

getAuthTokens(w) ==
    /\ w.op = "getTokens"
    /\ \/ Goes(w, [w EXCEPT !.op = IF w.keys THEN "replacePreCreated" ELSE "answer"])
       \/ Failures /\ rollback(w, w.root)
    /\ UNCHANGED <<users, used, bridge, roots>> /\ Others /\ Histories

undoSignUp(w) ==
    /\ \/ /\ w.op = "deleteUser"
          /\ users' = [users EXCEPT ![w.id] = NoUser]
          /\ Goes(w, [w EXCEPT !.op = IF w.root = NoRoot THEN "answer" ELSE "deleteRoot"])
          /\ UNCHANGED roots
       \/ /\ w.op = "deleteRoot"
          /\ roots' = IF w.root = NoRoot THEN roots ELSE [roots EXCEPT ![w.root].live = FALSE]
          /\ Done(w) /\ UNCHANGED users
    /\ UNCHANGED <<used, bridge>> /\ Others /\ Histories

\* Only when the keys were created.  By now the account is there to stay.
replacePreCreatedUser(w) ==
    /\ w.op = "replacePreCreated"
    /\ \/ preCreated' = preCreated \ {w.email} /\ UNCHANGED crashed
       \/ Failures /\ crashed' = crashed \cup {w.id} /\ UNCHANGED preCreated
    /\ Done(w)
    /\ UNCHANGED <<users, used, bridge, roots, attempts, members, halfway, deactivated>>

answer(w) ==
    /\ w.op = "answer" /\ Done(w)
    /\ UNCHANGED <<users, used, bridge, roots>> /\ Others /\ Histories

postUser(e, withKeys) == createUser(e, withKeys)

registerPreCreatedUser(e, withKeys) == findPreCreatedByEmail(e) /\ createUser(e, withKeys)

----------------------------------------------------------------------------
(* People who have no account yet.                                         *)

preCreateUser(e) ==
    /\ findByUsername(e) = {} /\ ~ findPreCreatedByEmail(e)
    /\ Begin(NewRequest("insertPreCreated", 0, e))
    /\ UNCHANGED <<users, used, bridge, roots>> /\ Others /\ Histories

insertPreCreated(w) ==
    /\ w.op = "insertPreCreated"
    /\ preCreated' = preCreated \cup {w.email}
    /\ Done(w)
    /\ UNCHANGED <<users, used, bridge, roots, attempts, members>> /\ Histories

getOrPreCreateUser(e) == findByUsername(e) = {} /\ preCreateUser(e)

postPreCreate(e) == preCreateUser(e)

getOrPreCreatePublicKeyByEmail(e) == getOrPreCreateUser(e)

----------------------------------------------------------------------------
(* The root folder of an account that has none is made when its owner logs *)
(* in or refreshes a session.                                              *)

getOrCreateUserRootFolderAndBucket(i) ==
    /\ i \in Registered /\ users[i].email # Renamed
    /\ ~ getFolderByIdNoDecryption(users[i].root)
    /\ Begin([NewRequest("createRoot", i, users[i].email) EXCEPT !.root = NoRoot])
    /\ UNCHANGED <<users, used, bridge, roots>> /\ Others /\ Histories

getUserCredentials(i) == getOrCreateUserRootFolderAndBucket(i)

getCredentialsOf(u, i) == u = i /\ getUserCredentials(i)

refreshToken(i) == getUserCredentials(i)

\* Which tiers may use the command line is not modelled here.
cliRefresh(i) == getUserCredentials(i)

----------------------------------------------------------------------------
(* Changes of address.                                                     *)

\* The default of expires_at is seven days after the process was started, not after
\* the attempt was made: it may have passed already.
createAttemptChangeEmail(i, e) ==
    /\ i \in Registered /\ users[i].email \notin {e, Renamed} /\ findByUsername(e) = {}
    /\ Quiet /\ Len(attempts) < MaxAttempts
    /\ \E x \in BOOLEAN :
          attempts' = Append(attempts, [user |-> i, newEmail |-> e,
                                        isVerified |-> FALSE, isExpired |-> x])
    /\ UNCHANGED <<users, used, bridge, roots, preCreated, members, inflight>> /\ Histories

isAttemptChangeEmailExpired(a) == attempts[a].isExpired

acceptAttemptChangeEmail(a) ==
    /\ ~ isAttemptChangeEmailExpired(a) /\ ~ attempts[a].isVerified
    /\ attempts[a].user \in Registered
    /\ findByUsername(attempts[a].newEmail) = {}
    /\ Begin([NewRequest("changeAtBridge", attempts[a].user, attempts[a].newEmail)
                 EXCEPT !.attempt = a, !.account = users[attempts[a].user].account,
                        !.old = users[attempts[a].user].email])
    /\ UNCHANGED <<users, used, bridge, roots>> /\ Others /\ Histories

\* An external service: it refuses an address that some other account has, and to change
\* an account it has deleted.
mayHaveEmail(k, e) == k # 0 /\ bridge[k] # NoEmail /\ \A j \in Ids \ {k} : bridge[j] # e

\* Mutant: what was changed at the network stays when the row cannot be changed.
changeFails(w) == Done(w)

undoesChange(w) == Goes(w, [w EXCEPT !.op = "undoAtBridge"])

\* The network first, then the row, whose user name is unique.
changeUserEmailById(w) ==
    /\ \/ /\ w.op = "changeAtBridge"
          /\ \/ /\ mayHaveEmail(users[w.id].account, w.email)
                /\ bridge' = [bridge EXCEPT ![users[w.id].account] = w.email]
                /\ Goes(w, [w EXCEPT !.op = "changeRow"])
             \/ /\ Failures \/ ~ mayHaveEmail(users[w.id].account, w.email)
                /\ Goes(w, [w EXCEPT !.op = "undoAtBridge"]) /\ UNCHANGED bridge
          /\ UNCHANGED users
       \/ /\ w.op = "changeRow"
          /\ \/ /\ findByUsername(w.email) = {}
                /\ updateUser(w.id, [users[w.id] EXCEPT !.email = w.email, !.moved = TRUE])
                /\ Goes(w, [w EXCEPT !.op = "markVerified"])
             \/ /\ Failures \/ findByUsername(w.email) # {}
                /\ undoesChange(w) /\ UNCHANGED users
          /\ UNCHANGED bridge
       \/ /\ w.op = "undoAtBridge"
          /\ bridge' = IF bridge[w.account] = NoEmail THEN bridge
                       ELSE [bridge EXCEPT ![w.account] = w.old]
          /\ Done(w) /\ UNCHANGED users
    /\ UNCHANGED <<roots, used>> /\ Others /\ Histories

postAttemptChangeEmail(i, e) == createAttemptChangeEmail(i, e)

acceptAttemptChangeEmailRequest(a) == acceptAttemptChangeEmail(a)

markVerified(w) ==
    /\ w.op = "markVerified"
    /\ attempts' = [attempts EXCEPT ![w.attempt].isVerified = TRUE]
    /\ Done(w)
    /\ UNCHANGED <<users, bridge, roots, used, preCreated, members>> /\ Histories

----------------------------------------------------------------------------
(* Deactivation.                                                           *)

joinWorkspace(i) ==
    /\ Workspaces /\ Quiet /\ i \in Registered
    /\ members' = members \cup {i}
    /\ UNCHANGED <<users, used, bridge, roots, preCreated, attempts, inflight>> /\ Histories

\* The network deletes its account and tells whose it was.
confirmDeactivation(i) ==
    /\ i \in Registered /\ users[i].email \in Emails
    /\ bridge[users[i].account] = users[i].email
    /\ bridge' = [bridge EXCEPT ![users[i].account] = NoEmail]
    /\ Begin(NewRequest("detachRoot", i, users[i].email))
    /\ UNCHANGED <<users, roots, used>> /\ Others /\ Histories

\* Every folder without a parent, the roots among them.
removeUserOrphanFolders(i) ==
    roots' = [f \in Roots |-> IF roots[f].owner = i THEN [roots[f] EXCEPT !.live = FALSE]
                              ELSE roots[f]]

\* The rows whose foreign keys do not cascade are deleted in one step here.
deactivateUser(w) ==
    /\ \/ /\ w.op = "detachRoot"
          /\ updateUser(w.id, [users[w.id] EXCEPT !.root = NoRoot])
          /\ Goes(w, [w EXCEPT !.op = "deleteReferences"])
          /\ UNCHANGED <<roots, deactivated>>
       \/ /\ w.op = "deleteReferences"
          /\ \/ Goes(w, [w EXCEPT !.op = "deleteRow"])
             \/ Failures /\ Goes(w, [w EXCEPT !.op = "renameUser"])
          /\ UNCHANGED <<users, roots, deactivated>>
       \/ /\ w.op = "deleteRow"
          /\ IF ReferencedElsewhere(w.id)
               THEN Goes(w, [w EXCEPT !.op = "renameUser"]) /\ UNCHANGED users
               ELSE /\ users' = [users EXCEPT ![w.id] = NoUser]
                    /\ Goes(w, [w EXCEPT !.op = "removeOrphans"])
          /\ UNCHANGED <<roots, deactivated>>
       \/ /\ w.op = "removeOrphans"
          /\ removeUserOrphanFolders(w.id)
          /\ deactivated' = deactivated \cup {w.id}
          /\ Done(w) /\ UNCHANGED users
       \/ /\ w.op = "renameUser"
          /\ updateUser(w.id, [users[w.id] EXCEPT !.email = Renamed])
          /\ Done(w) /\ UNCHANGED <<roots, deactivated>>
    /\ UNCHANGED <<used, bridge, halfway, crashed>> /\ Others

----------------------------------------------------------------------------
\* Bound: only requests for one account, and once it has a row one of them, stop half way.
requestDies(w) ==
    /\ Crashes /\ crashed = {}
    /\ Done(w)
    /\ halfway' = halfway \cup ({w.root} \ {NoRoot})
    /\ crashed' = crashed \cup ({w.id} \ {0})
    /\ UNCHANGED <<users, used, bridge, roots, deactivated>> /\ Others

confirmUserDeactivation(i) == confirmDeactivation(i)

Step ==
    \/ \E e \in Emails, k \in BOOLEAN : postUser(e, k) \/ registerPreCreatedUser(e, k)
    \/ \E e \in Emails : postPreCreate(e) \/ getOrPreCreatePublicKeyByEmail(e)
    \/ \E i \in Ids : \/ refreshToken(i) \/ cliRefresh(i) \/ \E u \in Ids : getCredentialsOf(u, i)
                      \/ joinWorkspace(i) \/ confirmUserDeactivation(i)
                      \/ \E e \in Emails : postAttemptChangeEmail(i, e)
    \/ \E a \in DOMAIN attempts : acceptAttemptChangeEmailRequest(a)
    \/ \E w \in inflight :
          \/ insertUser(w) \/ createInitialFolders(w) \/ getAuthTokens(w) \/ undoSignUp(w)
          \/ replacePreCreatedUser(w) \/ answer(w) \/ insertPreCreated(w)
          \/ changeUserEmailById(w) \/ markVerified(w)
          \/ deactivateUser(w) \/ requestDies(w)

Next == Step /\ UNCHANGED alone

Spec == Init /\ [][Next]_accountVars

----------------------------------------------------------------------------
(* Properties.                                                             *)

Idle == inflight = {}

\* Rows have the columns of their tables; row ids are given out once.
TypeOK ==
    /\ users \in [Ids -> UserRow]
    /\ \A i \in Ids : users[i].email = NoEmail => users[i] = NoUser
    /\ used \in Ids \cup {0}
    /\ \A i \in Ids : i > used => users[i] = NoUser
    /\ bridge \in [Ids -> Emails \cup {NoEmail, Renamed}]
    /\ roots \in [Roots -> FolderRow]
    /\ preCreated \subseteq Emails /\ members \subseteq Ids
    /\ attempts \in Seq(AttemptRow)
    /\ Cardinality(inflight) <= MaxInFlight
    /\ halfway \subseteq Roots /\ crashed \subseteq Ids /\ deactivated \subseteq Ids
    /\ alone \in BOOLEAN

\* Whatever fails on the way, once every request has been answered, each account has a
\* root folder, unless its deactivation renamed it or a request for it stopped half way.
AccountsUsable ==
    Idle => \A i \in Registered \ crashed : users[i].email # Renamed => users[i].root # NoRoot

\* The root folder a row points to exists and is its own, at any time.
RootNeverDangles ==
    \A i \in Registered : users[i].root # NoRoot =>
        roots[users[i].root] = [owner |-> i, live |-> TRUE]

\* The row and the network have the same address for an account, unless a request of
\* somebody stopped half way who has that account: a change of address that stops between
\* the network and the row leaves an account whose address somebody else may sign up with,
\* and have the same account.
BridgeAgrees ==
    Idle => \A i \in Registered :
               users[i].email # Renamed /\ (\A c \in crashed : users[c].account # users[i].account)
                 => bridge[users[i].account] = users[i].email

\* A root folder that is not its owner's has been left by a sign-up that failed.
OneRootEach ==
    Idle => \A f \in Roots \ halfway :
               roots[f].live /\ roots[f].owner \in Registered \ crashed /\ users[roots[f].owner].email # Renamed
                 => users[roots[f].owner].root = f

\* Nothing of an account whose deactivation was reported done is left.
DeactivatedLeaveNothing ==
    Idle => \A f \in Roots : roots[f].live => roots[f].owner \notin deactivated

\* Who has an account with keys is no longer pre-created, unless the address came later.
PreCreatedReplaced ==
    Idle => \A i \in Registered \ crashed : users[i].email \in preCreated => users[i].moved \/ ~ users[i].keys

\* The root folder an account points to exists and is its own, at any time.  With
\* requests one at a time an account has one root folder, the row and the network
\* agree on its address, nothing is left of one that was deactivated, and one that
\* signed up is no longer pre-created.
AccountsCoherent ==
    /\ RootNeverDangles
    /\ alone =>
          AccountsUsable /\ OneRootEach /\ BridgeAgrees /\ DeactivatedLeaveNothing /\ PreCreatedReplaced

=============================================================================
