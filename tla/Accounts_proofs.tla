------------------------- MODULE Accounts_proofs -------------------------
(***************************************************************************)
(* Proofs about UserAccounts, for any addresses and any number of rows,    *)
(* root folders, attempts and requests, about Credentials, for any times,  *)
(* passwords and tokens, and about MailLimits, for any limits and days,    *)
(* whatever fails or stops half way.                                       *)
(*                                                                         *)
(* Accounts.  That a row points to a root folder of its own needs no order *)
(* of requests.  The rest holds where requests wait for each other;        *)
(* Doing(w) is what a request w has made sure of by the time its next      *)
(* statement comes, which is what makes stopping there harmless.           *)
(*                                                                         *)
(* Credentials.  That sessions follow the password needs only that a token *)
(* is dated by the clock (Dated).  The rest is Fits: what the writes a     *)
(* request still has to do will leave is what is promised of it.           *)
(*                                                                         *)
(* Mails.  The row a request found is still the one that is there, and     *)
(* counts the mails of its day, or month, but for one that was just sent.  *)
(***************************************************************************)
EXTENDS MCAccounts, TLAPS, FiniteSetTheorems, SequenceTheorems

----------------------------------------------------------------------------
(* Types.                                                                  *)

\* Requests that have no user yet, or none at all.
StartOps == {"insertUser", "insertPreCreated"}

ChangeOps == {"changeAtBridge", "changeRow", "undoAtBridge", "markVerified"}

\* The row is still there.
LeaveOps == {"detachRoot", "deleteReferences", "deleteRow", "renameUser"}

Ops == StartOps \cup ChangeOps \cup LeaveOps \cup
       {"createRoot", "linkRoot", "getTokens", "replacePreCreated", "deleteUser", "deleteRoot",
        "answer", "removeOrphans"}

Request == [nr : Nat, op : Ops, id : Ids \cup {0}, email : Emails, root : Roots \cup {NoRoot},
            account : Ids \cup {0}, old : Emails \cup {NoEmail, Renamed}, attempt : Nat,
            signUp : BOOLEAN, keys : BOOLEAN]

Gone(i) == users[i] = NoUser

\* What a request may count on, whatever others do.
RequestFine(w) ==
    /\ w \in Request
    /\ w.op \in StartOps => w.id = 0 /\ w.root = NoRoot
    /\ w.op \notin StartOps => w.id \in Ids /\ w.id <= used
    /\ w.op = "insertUser" => w.account \in Ids
    /\ w.root # NoRoot => roots[w.root].owner = w.id
    /\ w.op = "linkRoot" => w.root # NoRoot /\ (roots[w.root].live \/ Gone(w.id))
    /\ w.op \in {"deleteRoot", "removeOrphans"} => Gone(w.id)
    /\ w.op \in ChangeOps => w.attempt \in 1 .. Len(attempts)

UsersFine ==
    /\ users \in [Ids -> UserRow] /\ used \in Ids \cup {0}
    /\ \A i \in Ids : users[i].email = NoEmail => Gone(i)
    /\ \A i \in Ids : users[i].email # NoEmail => i <= used /\ users[i].account \in Ids

AttemptsFine ==
    /\ attempts \in Seq(AttemptRow)
    /\ \A a \in 1 .. Len(attempts) : attempts[a].user <= used

RootsFine ==
    /\ roots \in [Roots -> FolderRow]
    /\ \A f \in Roots : roots[f].owner <= used
    /\ \A i \in Ids : users[i].root # NoRoot => roots[users[i].root].owner = i /\ roots[users[i].root].live

RestFine ==
    /\ bridge \in [Ids -> Emails \cup {NoEmail, Renamed}]
    /\ preCreated \subseteq Emails /\ members \subseteq Ids /\ halfway \subseteq Roots
    /\ crashed \subseteq 1 .. used /\ deactivated \subseteq 1 .. used /\ alone \in BOOLEAN

RequestsFine ==
    /\ IsFiniteSet(inflight)
    /\ \A v, w \in inflight : v.nr = w.nr => v = w
    /\ \A w \in inflight : RequestFine(w) /\ w.nr \in 1 .. MaxInFlight

TypeInv == UsersFine /\ AttemptsFine /\ RootsFine /\ RestFine /\ RequestsFine

----------------------------------------------------------------------------
(* Requests one at a time.                                                 *)

Attempted(i) == \E a \in 1 .. Len(attempts) : attempts[a].user = i

\* Somebody tried to change the address of this account, and stopped half way.
Shaken(k) == \E c \in crashed : users[c].email # NoEmail /\ users[c].account = k /\ Attempted(c)

AddressFine(i) ==
    LET k == users[i].account
    IN  IF users[i].email = Renamed THEN bridge[k] = NoEmail
        ELSE bridge[k] = users[i].email \/ Shaken(k) \/ (i \in crashed /\ bridge[k] = NoEmail)

OnlyRoot(i) ==
    /\ users[i].root # NoRoot
    /\ \A f \in Roots \ halfway : roots[f].owner = i /\ roots[f].live => f = users[i].root

Replaced(i) == users[i].email \in preCreated => users[i].moved \/ ~ users[i].keys

Served(i) == i \in crashed \/ users[i].email = Renamed \/ (OnlyRoot(i) /\ Replaced(i))

Steady(i) == AddressFine(i) /\ Served(i)

Busy == {w.id : w \in inflight}

OthersSteady == \A i \in Ids : users[i].email # NoEmail /\ i \notin Busy => Steady(i)

\* Two users have one account only after a change of address that stopped half way.
SharedAreShaken ==
    \A i, j \in Ids : users[i].email # NoEmail /\ users[j].email # NoEmail /\ i # j
                        /\ users[i].account = users[j].account => Shaken(users[i].account)

DeactivatedGone ==
    \A i \in deactivated : Gone(i) /\ \A f \in Roots : roots[f].owner = i => ~ roots[f].live

Free(e) == \A i \in Ids : users[i].email # e

\* The row of a sign-up that has not been answered.
Fresh(w) ==
    /\ users[w.id].email = w.email /\ users[w.id].keys = w.keys
    /\ bridge[users[w.id].account] = w.email /\ ~ Attempted(w.id)

HasRoots(w, F) == \A f \in Roots : roots[f].owner = w.id => f \in F

\* A request for a root folder that an account lacks.
Mending(w) == w.id \in crashed /\ users[w.id].email # NoEmail /\ AddressFine(w.id)

Rooted(w) == Fresh(w) /\ w.signUp /\ users[w.id].root # NoRoot /\ HasRoots(w, {users[w.id].root})

Changing(w) ==
    /\ users[w.id].email # NoEmail /\ w.account = users[w.id].account /\ w.old = users[w.id].email
    /\ attempts[w.attempt].user = w.id /\ Served(w.id)

Left(w) == users[w.id].email # NoEmail /\ bridge[users[w.id].account] = NoEmail

\* What a request has made sure of by the time its next statement comes.
Doing(w) ==
    /\ w.op = "insertUser" =>
          /\ w.signUp /\ Free(w.email) /\ bridge[w.account] = w.email
          /\ \A i \in Ids : users[i].email # NoEmail /\ users[i].account = w.account => Shaken(w.account)
    /\ w.op = "insertPreCreated" => Free(w.email)
    /\ w.op = "createRoot" => IF w.signUp THEN Fresh(w) /\ HasRoots(w, {}) ELSE Mending(w)
    /\ w.op = "linkRoot" => IF w.signUp THEN Fresh(w) /\ HasRoots(w, {w.root}) ELSE Mending(w)
    /\ w.op \in {"getTokens", "replacePreCreated"} => Rooted(w)
    /\ w.op = "deleteUser" => Fresh(w)
    /\ w.op \in {"answer", "markVerified"} => Gone(w.id) \/ Steady(w.id)
    /\ w.op = "changeAtBridge" => Changing(w) /\ AddressFine(w.id)
    /\ w.op = "changeRow" => Changing(w) /\ bridge[w.account] = w.email /\ w.old # Renamed
    /\ w.op = "undoAtBridge" =>
          /\ Changing(w) /\ (w.old = Renamed => bridge[w.account] = NoEmail)
          /\ bridge[w.account] = NoEmail => AddressFine(w.id)
    /\ w.op \in LeaveOps => Left(w)

OneAtATime == \A v, w \in inflight : v = w

Calm ==
    alone =>
       /\ OneAtATime /\ OthersSteady /\ SharedAreShaken /\ DeactivatedGone
       /\ \A w \in inflight : Doing(w)

----------------------------------------------------------------------------
(* Constants and requests.                                                 *)

LEMMA Numbered ==
    /\ \A i \in Ids : i \in Nat /\ i > 0
    /\ \A f \in Roots : f \in Nat /\ f > 0
<1>1. Cardinality(Ids) \in Nat /\ Cardinality(Roots) \in Nat
  BY FS_CardinalityType, UserAccountsConstants DEF UserAccountsConstants
<1>2. Ids = 1 .. Cardinality(Ids) /\ Roots = 1 .. Cardinality(Roots)
  BY UserAccountsConstants DEF UserAccountsConstants
<1> QED BY <1>1, <1>2, SMT

LEMMA NoAddress == NoEmail # Renamed /\ NoEmail \notin Emails /\ Renamed \notin Emails
BY UserAccountsConstants DEF UserAccountsConstants, NoEmail, Renamed

\* The columns a request keeps as it goes on.
Alike(s, w) ==
    /\ s.nr = w.nr /\ s.email = w.email /\ s.account = w.account /\ s.old = w.old
    /\ s.attempt = w.attempt /\ s.signUp = w.signUp /\ s.keys = w.keys

\* The request goes on as s, with this statement.
Going(w, s, op, id, root) ==
    s \in Request /\ s.op = op /\ s.id = id /\ s.root = root /\ Alike(s, w) /\ Goes(w, s)

LEMMA GoesWithOp ==
    ASSUME NEW w \in Request, NEW op \in Ops, Goes(w, [w EXCEPT !.op = op])
    PROVE  \E s : Going(w, s, op, w.id, w.root)
<1>1. PICK s : s = [w EXCEPT !.op = op]
  OBVIOUS
<1>2. s \in Request /\ s.op = op /\ s.id = w.id /\ s.root = w.root /\ Alike(s, w)
  BY <1>1 DEF Request, Alike
<1> QED BY <1>1, <1>2 DEF Going

LEMMA GoesWithRoot ==
    ASSUME NEW w \in Request, NEW op \in Ops, NEW f \in Roots \cup {NoRoot}, Goes(w, [w EXCEPT !.op = op, !.root = f])
    PROVE  \E s : Going(w, s, op, w.id, f)
<1>1. PICK s : s = [w EXCEPT !.op = op, !.root = f]
  OBVIOUS
<1>2. s \in Request /\ s.op = op /\ s.id = w.id /\ s.root = f /\ Alike(s, w)
  BY <1>1 DEF Request, Alike
<1> QED BY <1>1, <1>2 DEF Going

LEMMA GoesWithId ==
    ASSUME NEW w \in Request, NEW op \in Ops, NEW i \in Ids, Goes(w, [w EXCEPT !.op = op, !.id = i])
    PROVE  \E s : Going(w, s, op, i, w.root)
<1>1. PICK s : s = [w EXCEPT !.op = op, !.id = i]
  OBVIOUS
<1>2. s \in Request /\ s.op = op /\ s.id = i /\ s.root = w.root /\ Alike(s, w)
  BY <1>1 DEF Request, Alike
<1> QED BY <1>1, <1>2 DEF Going

\* The request s is begun.
Joins(s) ==
    /\ s \in Request /\ Quiet /\ s.nr \in 1 .. MaxInFlight /\ (\A w \in inflight : w.nr # s.nr)
    /\ inflight' = inflight \cup {s}

LEMMA BeginsNew ==
    ASSUME NEW r \in Request, Begin(r)
    PROVE  \E s : /\ Joins(s) /\ s.op = r.op /\ s.id = r.id /\ s.root = r.root
                  /\ s.email = r.email /\ s.account = r.account /\ s.old = r.old
                  /\ s.attempt = r.attempt /\ s.signUp = r.signUp /\ s.keys = r.keys
<1>1. PICK k \in 1 .. MaxInFlight : k \notin Numbers /\ inflight' = inflight \cup {[r EXCEPT !.nr = k]}
  BY DEF Begin
<1>2. PICK s : s = [r EXCEPT !.nr = k]
  OBVIOUS
<1>3. /\ s \in Request /\ s.nr = k /\ s.op = r.op /\ s.id = r.id /\ s.root = r.root
      /\ s.email = r.email /\ s.account = r.account /\ s.old = r.old
      /\ s.attempt = r.attempt /\ s.signUp = r.signUp /\ s.keys = r.keys
  BY <1>2, UserAccountsConstants DEF Request, UserAccountsConstants
<1>4. \A w \in inflight : w.nr # k
  BY <1>1 DEF Numbers
<1>5. Joins(s)
  BY <1>1, <1>2, <1>3, <1>4 DEF Joins, Begin
<1> QED BY <1>3, <1>5

----------------------------------------------------------------------------
(* What requests count on stays true.                                      *)

Keeps ==
    /\ used' \in Nat /\ used <= used'
    /\ \A i \in Ids : i <= used /\ Gone(i) => Gone(i)'
    /\ \A f \in Roots : roots[f].owner # 0 =>
          /\ roots'[f].owner = roots[f].owner
          /\ roots[f].live => roots'[f].live \/ Gone(roots[f].owner)
    /\ Len(attempts') \in Nat /\ Len(attempts) <= Len(attempts')

LEMMA StaysFine ==
    ASSUME TypeInv, Keeps, NEW v \in inflight
    PROVE  RequestFine(v)'
<1>1. RequestFine(v) /\ v \in Request
  BY DEF TypeInv, RequestsFine, RequestFine
<1>2. used \in Nat /\ Len(attempts) \in Nat
  BY Numbered DEF TypeInv, UsersFine, AttemptsFine
<1>3. v.id \in Ids \cup {0} /\ v.root \in Roots \cup {0} /\ v.attempt \in Nat /\ v.op \in Ops
  BY <1>1 DEF Request, NoRoot
<1>4. v.op \notin StartOps => v.id \in Ids /\ v.id <= used'
  <2>1. used' \in Nat /\ used <= used'
    BY DEF Keeps
  <2>2. v.op \notin StartOps => v.id \in Ids /\ v.id <= used
    BY <1>1 DEF RequestFine
  <2> QED BY <1>2, <2>1, <2>2, Numbered
<1>5. v.root # NoRoot => roots'[v.root].owner = v.id
  <2>1. v.root # NoRoot => roots[v.root].owner = v.id /\ v.id \in Ids
    BY <1>1 DEF RequestFine
  <2> QED BY <2>1, <1>3, Numbered DEF Keeps, NoRoot
<1>6. v.op = "linkRoot" => v.root # NoRoot /\ (roots'[v.root].live \/ Gone(v.id)')
  <2>1. SUFFICES ASSUME v.op = "linkRoot" PROVE v.root # NoRoot /\ (roots'[v.root].live \/ Gone(v.id)')
    OBVIOUS
  <2>2. v.root \in Roots /\ v.id \in Ids /\ v.id <= used /\ roots[v.root].owner = v.id
    BY <1>1, <1>3, <2>1 DEF RequestFine, NoRoot, StartOps
  <2>3. roots[v.root].live \/ Gone(v.id)
    BY <1>1, <2>1 DEF RequestFine
  <2> QED BY <2>2, <2>3, Numbered DEF Keeps, NoRoot
<1>7. v.op \in {"deleteRoot", "removeOrphans"} => Gone(v.id)'
  BY <1>1 DEF RequestFine, Keeps, StartOps
<1>8. v.op \in ChangeOps => v.attempt \in 1 .. Len(attempts')
  BY <1>1, <1>2, <1>3 DEF RequestFine, Keeps
<1> QED BY <1>1, <1>4, <1>5, <1>6, <1>7, <1>8 DEF RequestFine, Request

LEMMA GoesFine ==
    ASSUME TypeInv, Keeps, NEW w \in inflight, NEW s, RequestFine(s)', s.nr = w.nr, Goes(w, s)
    PROVE  RequestsFine'
<1>1. inflight' = (inflight \ {w}) \cup {s}
  BY DEF Goes
<1>2. IsFiniteSet(inflight')
  BY <1>1, FS_AddElement, FS_RemoveElement DEF TypeInv, RequestsFine
<1>3. \A v, x \in inflight' : v.nr = x.nr => v = x
  BY <1>1 DEF TypeInv, RequestsFine
<1>4. \A v \in inflight' : RequestFine(v)' /\ v.nr \in 1 .. MaxInFlight
  <2>1. TAKE v \in inflight'
  <2>2. v = s \/ v \in inflight
    BY <1>1
  <2>3. \A x \in inflight : x.nr \in 1 .. MaxInFlight
    BY DEF TypeInv, RequestsFine
  <2> QED BY <1>1, <2>2, <2>3, StaysFine
<1> QED BY <1>2, <1>3, <1>4 DEF RequestsFine

LEMMA DoneFine ==
    ASSUME TypeInv, Keeps, NEW w \in inflight, Done(w)
    PROVE  RequestsFine'
<1>1. inflight' = inflight \ {w}
  BY DEF Done
<1>2. IsFiniteSet(inflight')
  BY <1>1, FS_RemoveElement DEF TypeInv, RequestsFine
<1>3. \A v, x \in inflight' : v.nr = x.nr => v = x
  BY <1>1 DEF TypeInv, RequestsFine
<1>4. \A v \in inflight' : RequestFine(v)' /\ v.nr \in 1 .. MaxInFlight
  <2>1. \A v \in inflight : v.nr \in 1 .. MaxInFlight
    BY DEF TypeInv, RequestsFine
  <2> QED BY <1>1, <2>1, StaysFine
<1> QED BY <1>2, <1>3, <1>4 DEF RequestsFine

LEMMA SameFine ==
    ASSUME TypeInv, Keeps, UNCHANGED inflight
    PROVE  RequestsFine'
<1>1. \A v \in inflight' : RequestFine(v)'
  BY StaysFine
<1> QED BY <1>1 DEF TypeInv, RequestsFine

LEMMA JoinsFine ==
    ASSUME TypeInv, Keeps, NEW s, Joins(s), RequestFine(s)'
    PROVE  RequestsFine'
<1>1. inflight' = inflight \cup {s} /\ s.nr \in 1 .. MaxInFlight /\ \A w \in inflight : w.nr # s.nr
  BY DEF Joins
<1>2. IsFiniteSet(inflight')
  BY <1>1, FS_AddElement DEF TypeInv, RequestsFine
<1>3. \A v, x \in inflight' : v.nr = x.nr => v = x
  BY <1>1 DEF TypeInv, RequestsFine
<1>4. \A v \in inflight' : RequestFine(v)' /\ v.nr \in 1 .. MaxInFlight
  <2>1. TAKE v \in inflight'
  <2>2. v = s \/ v \in inflight
    BY <1>1
  <2>3. \A x \in inflight : x.nr \in 1 .. MaxInFlight
    BY DEF TypeInv, RequestsFine
  <2> QED BY <1>1, <2>2, <2>3, StaysFine
<1> QED BY <1>2, <1>3, <1>4 DEF RequestsFine

LEMMA RequestTypes ==
    ASSUME TypeInv, NEW w \in inflight
    PROVE  /\ RequestFine(w) /\ w \in Request /\ w.op \in Ops /\ w.id \in Ids \cup {0}
           /\ w.root \in Roots \cup {NoRoot} /\ w.email \in Emails
           /\ w.op \notin StartOps => w.id \in Ids /\ w.id <= used
BY DEF TypeInv, RequestsFine, RequestFine, Request

LEMMA TableTypes ==
    ASSUME TypeInv
    PROVE  /\ users \in [Ids -> UserRow] /\ used \in Nat /\ used \in Ids \cup {0}
           /\ roots \in [Roots -> FolderRow] /\ Len(attempts) \in Nat
           /\ bridge \in [Ids -> Emails \cup {NoEmail, Renamed}]
           /\ \A i \in Ids : users[i].email = NoEmail <=> Gone(i)
           /\ \A i \in Ids : ~ Gone(i) => i <= used /\ users[i].account \in Ids
<1>1. UsersFine /\ RootsFine /\ AttemptsFine /\ RestFine
  BY DEF TypeInv
<1>2. used \in Nat
  BY <1>1, Numbered DEF UsersFine
<1>3. \A i \in Ids : users[i].email = NoEmail <=> Gone(i)
  BY <1>1 DEF UsersFine, Gone, NoUser
<1> QED BY <1>1, <1>2, <1>3 DEF UsersFine, RootsFine, AttemptsFine, RestFine

LEMMA AttemptTypes ==
    ASSUME TypeInv, NEW a \in 1 .. Len(attempts)
    PROVE  /\ attempts[a] \in AttemptRow /\ attempts[a].user \in Ids /\ attempts[a].newEmail \in Emails
           /\ attempts[a].user <= used
<1>1. attempts \in Seq(AttemptRow) /\ attempts[a].user <= used
  BY DEF TypeInv, AttemptsFine
<1>2. attempts[a] \in AttemptRow
  BY <1>1
<1> QED BY <1>1, <1>2 DEF AttemptRow

----------------------------------------------------------------------------
(* What a step does to the tables.                                         *)

Sound == UsersFine' /\ RootsFine' /\ AttemptsFine' /\ Keeps

\* Of table users at most the row i changes.
Touches(i) == users' \in [Ids -> UserRow] /\ \A j \in Ids : j # i => users'[j] = users[j]

Owned(i, f) == f # NoRoot => roots[f].owner = i /\ roots[f].live

LEMMA NothingTouched ==
    ASSUME TypeInv, UNCHANGED <<users, used, roots, attempts>>
    PROVE  Sound
<1>1. used \in Nat /\ Len(attempts) \in Nat
  BY TableTypes
<1>2. UsersFine /\ RootsFine /\ AttemptsFine
  BY DEF TypeInv
<1>3. UsersFine' /\ RootsFine' /\ AttemptsFine'
  BY <1>2 DEF UsersFine, RootsFine, AttemptsFine, Gone
<1>4. Keeps
  BY <1>1 DEF Keeps, Gone
<1> QED BY <1>3, <1>4 DEF Sound

LEMMA RowTouched ==
    ASSUME TypeInv, NEW i \in Ids, Touches(i), UNCHANGED <<used, roots, attempts>>,
           \/ Gone(i)'
           \/ /\ ~ Gone(i) /\ users'[i].email # NoEmail /\ users'[i].account = users[i].account
              /\ Owned(i, users'[i].root)
    PROVE  Sound
<1>1. used \in Nat /\ Len(attempts) \in Nat /\ users \in [Ids -> UserRow]
  BY TableTypes
<1>2. UsersFine /\ RootsFine /\ AttemptsFine
  BY DEF TypeInv
<1>3. \A j \in Ids : j # i => users'[j] = users[j]
  BY DEF Touches
<1>4. UsersFine'
  <2>1. users' \in [Ids -> UserRow] /\ used' \in Ids \cup {0}
    BY <1>2 DEF Touches, UsersFine
  <2>2. ASSUME NEW j \in Ids
        PROVE  /\ users'[j].email = NoEmail => Gone(j)'
               /\ users'[j].email # NoEmail => j <= used' /\ users'[j].account \in Ids
    <3>1. CASE j # i
      BY <1>2, <1>3, <3>1 DEF UsersFine, Gone
    <3>2. CASE j = i /\ Gone(i)'
      BY <3>2 DEF Gone, NoUser
    <3>3. CASE j = i /\ ~ Gone(i)'
      <4>1. i <= used /\ users[i].account \in Ids
        BY <3>3, TableTypes
      <4> QED BY <3>3, <4>1
    <3> QED BY <3>1, <3>2, <3>3
  <2> QED BY <2>1, <2>2 DEF UsersFine
<1>5. RootsFine'
  <2>1. ASSUME NEW j \in Ids, users'[j].root # NoRoot
        PROVE  roots[users'[j].root].owner = j /\ roots[users'[j].root].live
    <3>1. CASE j # i
      BY <1>2, <1>3, <2>1, <3>1 DEF RootsFine
    <3>2. CASE j = i /\ Gone(i)'
      BY <2>1, <3>2 DEF Gone, NoUser
    <3>3. CASE j = i /\ ~ Gone(i)'
      BY <2>1, <3>3 DEF Owned
    <3> QED BY <3>1, <3>2, <3>3
  <2> QED BY <1>2, <2>1 DEF RootsFine
<1>6. AttemptsFine'
  BY <1>2 DEF AttemptsFine
<1>7. Keeps
  <2>1. \A j \in Ids : Gone(j) => Gone(j)'
    BY <1>3 DEF Gone
  <2> QED BY <1>1, <2>1 DEF Keeps
<1> QED BY <1>4, <1>5, <1>6, <1>7 DEF Sound

LEMMA RootTouched ==
    ASSUME TypeInv, UNCHANGED <<users, used, attempts>>, roots' \in [Roots -> FolderRow],
           \A f \in Roots :
              /\ roots'[f].owner <= used
              /\ roots[f].owner # 0 =>
                    /\ roots'[f].owner = roots[f].owner
                    /\ roots[f].live => roots'[f].live \/ Gone(roots[f].owner)
    PROVE  Sound
<1>1. used \in Nat /\ Len(attempts) \in Nat
  BY TableTypes
<1>2. UsersFine /\ RootsFine /\ AttemptsFine
  BY DEF TypeInv
<1>3. UsersFine' /\ AttemptsFine'
  BY <1>2 DEF UsersFine, AttemptsFine, Gone
<1>4. RootsFine'
  <2>1. ASSUME NEW i \in Ids, users[i].root # NoRoot
        PROVE  roots'[users[i].root].owner = i /\ roots'[users[i].root].live
    <3>1. PICK f : f = users[i].root
      OBVIOUS
    <3>2. f \in Roots /\ roots[f].owner = i /\ roots[f].live
      BY <1>2, <2>1, <3>1 DEF UsersFine, RootsFine, UserRow
    <3>3. ~ Gone(i)
      BY <2>1 DEF Gone, NoUser
    <3>4. roots'[f].owner = i /\ roots'[f].live
      BY <3>2, <3>3, Numbered
    <3> QED BY <3>1, <3>4
  <2> QED BY <2>1 DEF RootsFine
<1>5. Keeps
  BY <1>1 DEF Keeps, Gone
<1> QED BY <1>3, <1>4, <1>5 DEF Sound

LEMMA UserInserted ==
    ASSUME TypeInv, UNCHANGED <<roots, attempts>>, used + 1 \in Ids, used' = used + 1,
           Touches(used + 1), users'[used + 1].email # NoEmail, users'[used + 1].account \in Ids,
           users'[used + 1].root = NoRoot
    PROVE  Sound
<1>1. used \in Nat /\ Len(attempts) \in Nat /\ used' \in Nat
  BY TableTypes
<1>2. UsersFine /\ RootsFine /\ AttemptsFine
  BY DEF TypeInv
<1>3. \A j \in Ids : j # used + 1 => users'[j] = users[j]
  BY DEF Touches
<1>4. UsersFine'
  <2>1. ASSUME NEW j \in Ids
        PROVE  /\ users'[j].email = NoEmail => Gone(j)'
               /\ users'[j].email # NoEmail => j <= used' /\ users'[j].account \in Ids
    <3>1. CASE j = used + 1
      BY <1>1, <3>1
    <3>2. CASE j # used + 1
      <4>1. j \in Nat
        BY Numbered
      <4> QED BY <1>1, <1>2, <1>3, <3>2, <4>1 DEF UsersFine, Gone
    <3> QED BY <3>1, <3>2
  <2>2. users' \in [Ids -> UserRow]
    BY DEF Touches
  <2> QED BY <2>1, <2>2 DEF UsersFine
<1>5. RootsFine'
  <2>1. \A f \in Roots : roots[f].owner <= used'
    <3>1. TAKE f \in Roots
    <3>2. roots[f].owner \in Nat /\ roots[f].owner <= used
      BY <1>2, Numbered DEF RootsFine, FolderRow
    <3> QED BY <1>1, <3>2
  <2>2. \A j \in Ids : users'[j].root # NoRoot => users'[j] = users[j]
    BY <1>3
  <2> QED BY <1>2, <2>1, <2>2 DEF RootsFine
<1>6. AttemptsFine'
  <2>1. \A a \in 1 .. Len(attempts) : attempts[a].user \in Nat /\ attempts[a].user <= used
    BY AttemptTypes, Numbered
  <2>2. ASSUME NEW a \in 1 .. Len(attempts) PROVE attempts[a].user <= used'
    <3>1. PICK i \in Nat : i = attempts[a].user /\ i <= used
      BY <2>1
    <3> QED BY <1>1, <3>1
  <2> QED BY <1>2, <2>2 DEF AttemptsFine
<1>7. Keeps
  <2>1. \A j \in Ids : j <= used => users'[j] = users[j]
    BY <1>1, <1>3, Numbered
  <2> QED BY <1>1, <2>1 DEF Keeps, Gone
<1> QED BY <1>4, <1>5, <1>6, <1>7 DEF Sound

\* What happens to an attempt leaves its user as it was.
LEMMA AttemptsTouched ==
    ASSUME TypeInv, UNCHANGED <<users, used, roots>>, attempts' \in Seq(AttemptRow),
           Len(attempts') \in Nat, Len(attempts) <= Len(attempts'),
           \A a \in 1 .. Len(attempts') : attempts'[a].user <= used
    PROVE  Sound
<1>1. used \in Nat
  BY TableTypes
<1>2. UsersFine /\ RootsFine
  BY DEF TypeInv
<1>3. UsersFine' /\ RootsFine' /\ AttemptsFine'
  BY <1>2 DEF UsersFine, RootsFine, AttemptsFine, Gone
<1>4. Keeps
  BY <1>1 DEF Keeps, Gone
<1> QED BY <1>3, <1>4 DEF Sound

\* The rest of the tables, where the request w takes a step.
LEMMA TypeAfter ==
    ASSUME TypeInv, Sound, RequestsFine', UNCHANGED <<alone, members>>, NEW w \in inflight,
           bridge' \in [Ids -> Emails \cup {NoEmail, Renamed}], preCreated' \subseteq Emails,
           halfway' \subseteq Roots, crashed' \subseteq crashed \cup ({w.id} \ {0}),
           deactivated' \subseteq deactivated \cup ({w.id} \ {0})
    PROVE  TypeInv'
<1>1. RestFine /\ used \in Nat
  BY TableTypes DEF TypeInv
<1>2. used' \in Nat /\ used <= used'
  BY DEF Sound, Keeps
<1>3. crashed \subseteq 1 .. used' /\ deactivated \subseteq 1 .. used'
  BY <1>1, <1>2 DEF RestFine
<1>4. w.id # 0 => w.id \in Ids /\ w.id <= used
  BY RequestTypes DEF RequestFine
<1>5. w.id # 0 => w.id \in 1 .. used'
  BY <1>1, <1>2, <1>4, Numbered
<1>6. RestFine'
  BY <1>1, <1>3, <1>5 DEF RestFine
<1> QED BY <1>6 DEF Sound, TypeInv

\* The user i, if it is still there, gets this row.
LEMMA Updated ==
    ASSUME TypeInv, NEW i \in Ids, NEW row \in UserRow, updateUser(i, row)
    PROVE  Touches(i) /\ (Gone(i) => Gone(i)') /\ (~ Gone(i) => users'[i] = row)
<1>1. users \in [Ids -> UserRow]
  BY TableTypes
<1> QED BY <1>1 DEF updateUser, Touches, Gone

LEMMA Deleted ==
    ASSUME TypeInv, NEW i \in Ids, users' = [users EXCEPT ![i] = NoUser]
    PROVE  Touches(i) /\ Gone(i)'
<1>1. users \in [Ids -> UserRow]
  BY TableTypes
<1>2. NoUser \in UserRow
  BY DEF NoUser, UserRow
<1> QED BY <1>1, <1>2 DEF Touches, Gone

\* A request that goes on with no more than a statement of this kind counts on no more.
LEMMA PlainFine ==
    ASSUME TypeInv, Sound, NEW w \in inflight, w.op \notin StartOps, NEW op \in Ops,
           op \notin StartOps, op # "linkRoot", op \in {"deleteRoot", "removeOrphans"} => Gone(w.id)',
           op \in ChangeOps => w.op \in ChangeOps,
           NEW f \in {w.root, NoRoot}, NEW s, Going(w, s, op, w.id, f)
    PROVE  RequestsFine'
<1>1. RequestFine(w)'
  BY StaysFine DEF Sound
<1>2. RequestFine(w) /\ s \in Request /\ s.op = op /\ s.id = w.id /\ s.root = f /\ Alike(s, w)
  BY RequestTypes DEF Going
<1>3. op # "insertUser"
  BY DEF StartOps
<1>4. RequestFine(s)'
  BY <1>1, <1>2, <1>3 DEF RequestFine, Alike
<1> QED BY <1>2, <1>4, GoesFine DEF Sound, Going, Alike

----------------------------------------------------------------------------
(* The requests that are begun.                                            *)

rows == <<users, used, roots, attempts>>

others == <<preCreated, members, halfway, crashed, deactivated>>

LEMMA SignUpBegins ==
    ASSUME NEW e \in Emails, NEW b \in BOOLEAN, createUser(e, b)
    PROVE  \E k \in networkAccount(e) : \E s :
              /\ Free(e) /\ bridge' = [bridge EXCEPT ![k] = e] /\ UNCHANGED <<rows, others>>
              /\ Joins(s) /\ s.op = "insertUser" /\ s.id = 0 /\ s.root = NoRoot
              /\ s.email = e /\ s.account = k /\ s.signUp
<1> DEFINE R(k) == [NewRequest("insertUser", 0, e) EXCEPT !.account = k, !.signUp = TRUE, !.keys = b]
<1>1. PICK k \in networkAccount(e) : bridge' = [bridge EXCEPT ![k] = e] /\ Begin(R(k))
  BY DEF createUser
<1>2. k \in Ids
  BY DEF networkAccount
<1>3. PICK r : r = R(k)
  OBVIOUS
<1>4. /\ r \in Request /\ r.op = "insertUser" /\ r.id = 0 /\ r.root = NoRoot
      /\ r.email = e /\ r.account = k /\ r.signUp
  BY <1>2, <1>3 DEF NewRequest, Request, Ops, StartOps
<1>5. Begin(r)
  BY <1>1, <1>3
<1>6. PICK s : Joins(s) /\ s.op = r.op /\ s.id = r.id /\ s.root = r.root /\ s.email = r.email
               /\ s.account = r.account /\ s.signUp = r.signUp
  BY <1>4, <1>5, BeginsNew
<1>7. Free(e) /\ UNCHANGED <<rows, others>>
  BY DEF createUser, findByUsername, Free, Others, Histories, rows, others
<1> QED BY <1>1, <1>4, <1>6, <1>7

LEMMA PreCreatingBegins ==
    ASSUME NEW e \in Emails, preCreateUser(e)
    PROVE  \E s : /\ Free(e) /\ UNCHANGED <<rows, others, bridge>>
                  /\ Joins(s) /\ s.op = "insertPreCreated" /\ s.id = 0 /\ s.root = NoRoot /\ s.email = e
<1>1. PICK r : r = NewRequest("insertPreCreated", 0, e)
  OBVIOUS
<1>2. r \in Request /\ r.op = "insertPreCreated" /\ r.id = 0 /\ r.root = NoRoot /\ r.email = e
  BY <1>1 DEF NewRequest, Request, Ops, StartOps
<1>3. Begin(r)
  BY <1>1 DEF preCreateUser
<1>4. PICK s : Joins(s) /\ s.op = r.op /\ s.id = r.id /\ s.root = r.root /\ s.email = r.email
  BY <1>2, <1>3, BeginsNew
<1>5. Free(e) /\ UNCHANGED <<rows, others, bridge>>
  BY DEF preCreateUser, findByUsername, Free, Others, Histories, rows, others
<1> QED BY <1>2, <1>4, <1>5

LEMMA MendingBegins ==
    ASSUME TypeInv, NEW i \in Ids, getOrCreateUserRootFolderAndBucket(i)
    PROVE  \E s : /\ ~ Gone(i) /\ users[i].email # Renamed /\ users[i].root = NoRoot
                  /\ UNCHANGED <<rows, others, bridge>>
                  /\ Joins(s) /\ s.op = "createRoot" /\ s.id = i /\ s.root = NoRoot /\ ~ s.signUp
<1>1. /\ users \in [Ids -> UserRow] /\ users[i].email # NoEmail /\ users[i].email # Renamed
      /\ ~ Gone(i) /\ users[i].root \in Roots \cup {NoRoot}
  BY TableTypes DEF getOrCreateUserRootFolderAndBucket, Registered, UserRow
<1>2. users[i].email \in Emails
  BY <1>1 DEF UserRow
<1>3. PICK r : r = [NewRequest("createRoot", i, users[i].email) EXCEPT !.root = NoRoot]
  OBVIOUS
<1>4. r \in Request /\ r.op = "createRoot" /\ r.id = i /\ r.root = NoRoot /\ ~ r.signUp
  BY <1>2, <1>3 DEF NewRequest, Request, Ops
<1>5. Begin(r)
  BY <1>3 DEF getOrCreateUserRootFolderAndBucket
<1>6. PICK s : Joins(s) /\ s.op = r.op /\ s.id = r.id /\ s.root = r.root /\ s.signUp = r.signUp
  BY <1>4, <1>5, BeginsNew
<1>7. users[i].root = NoRoot
  <2>1. SUFFICES ASSUME users[i].root # NoRoot PROVE FALSE
    OBVIOUS
  <2>2. roots[users[i].root].owner = i
    BY <2>1 DEF TypeInv, RootsFine
  <2>3. roots[users[i].root].owner = 0
    BY <2>1 DEF getOrCreateUserRootFolderAndBucket, getFolderByIdNoDecryption
  <2> QED BY <2>2, <2>3, Numbered
<1>8. UNCHANGED <<rows, others, bridge>>
  BY DEF getOrCreateUserRootFolderAndBucket, Others, Histories, rows, others
<1> QED BY <1>1, <1>4, <1>6, <1>7, <1>8

LEMMA ChangeBegins ==
    ASSUME TypeInv, NEW a \in DOMAIN attempts, acceptAttemptChangeEmail(a)
    PROVE  \E i \in Ids : \E s :
              /\ i = attempts[a].user /\ a \in 1 .. Len(attempts) /\ ~ Gone(i) /\ UNCHANGED <<rows, others, bridge>>
              /\ Joins(s) /\ s.op = "changeAtBridge" /\ s.id = i /\ s.root = NoRoot
              /\ s.attempt = a /\ s.account = users[i].account /\ s.old = users[i].email
<1>1. attempts \in Seq(AttemptRow) /\ a \in 1 .. Len(attempts) /\ Len(attempts) \in Nat
  BY TableTypes DEF TypeInv, AttemptsFine
<1>2. PICK i \in Ids : i = attempts[a].user
  BY <1>1, AttemptTypes
<1>3. attempts[a].newEmail \in Emails
  BY <1>1, AttemptTypes
<1>4. /\ users \in [Ids -> UserRow] /\ ~ Gone(i) /\ users[i].account \in Ids
      /\ users[i].email \in Emails \cup {NoEmail, Renamed}
  BY <1>2, TableTypes DEF acceptAttemptChangeEmail, Registered, UserRow
<1>5. PICK e \in Emails, k \in Ids, o \in Emails \cup {NoEmail, Renamed} :
         e = attempts[a].newEmail /\ k = users[i].account /\ o = users[i].email
  BY <1>3, <1>4
<1>6. PICK r : r = [NewRequest("changeAtBridge", i, e) EXCEPT !.attempt = a, !.account = k, !.old = o]
  OBVIOUS
<1>7. r \in Request /\ r.op = "changeAtBridge" /\ r.id = i /\ r.root = NoRoot
      /\ r.attempt = a /\ r.account = k /\ r.old = o
  <2>1. a \in Nat
    BY <1>1
  <2> QED BY <2>1, <1>6 DEF NewRequest, Request, Ops, ChangeOps
<1>8. Begin(r)
  BY <1>2, <1>5, <1>6 DEF acceptAttemptChangeEmail
<1>9. PICK s : Joins(s) /\ s.op = r.op /\ s.id = r.id /\ s.root = r.root /\ s.attempt = r.attempt
               /\ s.account = r.account /\ s.old = r.old
  BY <1>7, <1>8, BeginsNew
<1>10. /\ s.op = "changeAtBridge" /\ s.id = i /\ s.root = NoRoot
       /\ s.attempt = a /\ s.account = users[i].account /\ s.old = users[i].email
  BY <1>5, <1>7, <1>9
<1>11. UNCHANGED <<rows, others, bridge>>
  BY DEF acceptAttemptChangeEmail, Others, Histories, rows, others
<1>12. a \in 1 .. Len(attempts) /\ Joins(s)
  BY <1>1, <1>9
<1> QED BY <1>2, <1>4, <1>10, <1>11, <1>12

LEMMA LeavingBegins ==
    ASSUME TypeInv, NEW i \in Ids, confirmDeactivation(i)
    PROVE  \E s : /\ ~ Gone(i) /\ users[i].email \in Emails /\ bridge[users[i].account] = users[i].email
                  /\ bridge' = [bridge EXCEPT ![users[i].account] = NoEmail] /\ UNCHANGED <<rows, others>>
                  /\ Joins(s) /\ s.op = "detachRoot" /\ s.id = i /\ s.root = NoRoot
<1>1. ~ Gone(i) /\ users[i].email \in Emails /\ bridge[users[i].account] = users[i].email
      /\ bridge' = [bridge EXCEPT ![users[i].account] = NoEmail]
  BY TableTypes DEF confirmDeactivation, Registered
<1>2. PICK r : r = NewRequest("detachRoot", i, users[i].email)
  OBVIOUS
<1>3. r \in Request /\ r.op = "detachRoot" /\ r.id = i /\ r.root = NoRoot
  BY <1>1, <1>2 DEF NewRequest, Request, Ops, LeaveOps
<1>4. Begin(r)
  BY <1>2 DEF confirmDeactivation
<1>5. PICK s : Joins(s) /\ s.op = r.op /\ s.id = r.id /\ s.root = r.root
  BY <1>3, <1>4, BeginsNew
<1>6. UNCHANGED <<rows, others>>
  BY DEF confirmDeactivation, Others, Histories, rows, others
<1> QED BY <1>1, <1>3, <1>5, <1>6

\* None of them changes more than the address at the network.
LEMMA BegunType ==
    ASSUME TypeInv, UNCHANGED alone, UNCHANGED <<rows, others>>, NEW s, Joins(s), RequestFine(s),
           bridge' \in [Ids -> Emails \cup {NoEmail, Renamed}]
    PROVE  TypeInv'
<1>1. Sound
  BY NothingTouched DEF rows
<1>2. RequestFine(s)'
  BY DEF RequestFine, rows, Gone
<1>3. RequestsFine'
  BY <1>1, <1>2, JoinsFine DEF Sound
<1>4. RestFine'
  BY <1>1, TableTypes DEF TypeInv, RestFine, others, rows
<1> QED BY <1>1, <1>3, <1>4 DEF Sound, TypeInv

LEMMA SignUpBegunType ==
    ASSUME TypeInv, UNCHANGED alone, NEW e \in Emails, NEW b \in BOOLEAN, createUser(e, b)
    PROVE  TypeInv'
<1>0. PICK k \in networkAccount(e) : \E s :
              /\ bridge' = [bridge EXCEPT ![k] = e] /\ UNCHANGED <<rows, others>>
              /\ Joins(s) /\ s.op = "insertUser" /\ s.id = 0 /\ s.root = NoRoot /\ s.account = k
  BY SignUpBegins
<1>1. PICK s :
              /\ bridge' = [bridge EXCEPT ![k] = e] /\ UNCHANGED <<rows, others>>
              /\ Joins(s) /\ s.op = "insertUser" /\ s.id = 0 /\ s.root = NoRoot /\ s.account = k
  BY <1>0
<1>2. k \in Ids
  BY DEF networkAccount
<1>3. bridge' \in [Ids -> Emails \cup {NoEmail, Renamed}]
  BY <1>1, <1>2, TableTypes
<1>4. RequestFine(s)
  BY <1>1, <1>2 DEF RequestFine, Joins, StartOps, ChangeOps
<1> QED BY <1>1, <1>3, <1>4, BegunType

LEMMA BegunTypes ==
    ASSUME TypeInv, UNCHANGED alone,
           \/ \E e \in Emails : preCreateUser(e)
           \/ \E i \in Ids : getOrCreateUserRootFolderAndBucket(i) \/ confirmDeactivation(i)
           \/ \E a \in DOMAIN attempts : acceptAttemptChangeEmail(a)
    PROVE  TypeInv'
<1>0. bridge \in [Ids -> Emails \cup {NoEmail, Renamed}]
  BY TableTypes
<1>1. ASSUME NEW e \in Emails, preCreateUser(e) PROVE TypeInv'
  <2>1. PICK s : UNCHANGED <<rows, others, bridge>> /\ Joins(s) /\ s.op = "insertPreCreated" /\ s.id = 0 /\ s.root = NoRoot
    BY <1>1, PreCreatingBegins
  <2>2. RequestFine(s)
    BY <2>1 DEF RequestFine, Joins, StartOps, ChangeOps
  <2> QED BY <1>0, <2>1, <2>2, BegunType
<1>2. ASSUME NEW i \in Ids, getOrCreateUserRootFolderAndBucket(i) PROVE TypeInv'
  <2>1. PICK s : /\ ~ Gone(i) /\ UNCHANGED <<rows, others, bridge>>
                 /\ Joins(s) /\ s.op = "createRoot" /\ s.id = i /\ s.root = NoRoot
    BY <1>2, MendingBegins
  <2>2. i <= used
    BY <2>1, TableTypes
  <2>3. RequestFine(s)
    BY <2>1, <2>2 DEF RequestFine, Joins, StartOps, ChangeOps
  <2> QED BY <1>0, <2>1, <2>3, BegunType
<1>3. ASSUME NEW a \in DOMAIN attempts, acceptAttemptChangeEmail(a) PROVE TypeInv'
  <2>0. PICK i \in Ids : \E s : /\ a \in 1 .. Len(attempts) /\ ~ Gone(i) /\ UNCHANGED <<rows, others, bridge>>
                                /\ Joins(s) /\ s.op = "changeAtBridge" /\ s.id = i /\ s.root = NoRoot /\ s.attempt = a
    BY <1>3, ChangeBegins
  <2>1. PICK s : /\ a \in 1 .. Len(attempts) /\ ~ Gone(i) /\ UNCHANGED <<rows, others, bridge>>
                 /\ Joins(s) /\ s.op = "changeAtBridge" /\ s.id = i /\ s.root = NoRoot /\ s.attempt = a
    BY <2>0
  <2>2. i <= used
    BY <2>1, TableTypes
  <2>3. RequestFine(s)
    BY <2>1, <2>2 DEF RequestFine, Joins, StartOps, ChangeOps
  <2> QED BY <1>0, <2>1, <2>3, BegunType
<1>4. ASSUME NEW i \in Ids, confirmDeactivation(i) PROVE TypeInv'
  <2>1. PICK s : /\ ~ Gone(i) /\ bridge' = [bridge EXCEPT ![users[i].account] = NoEmail] /\ UNCHANGED <<rows, others>>
                 /\ Joins(s) /\ s.op = "detachRoot" /\ s.id = i /\ s.root = NoRoot
    BY <1>4, LeavingBegins
  <2>2. i <= used
    BY <2>1, TableTypes
  <2>3. RequestFine(s)
    BY <2>1, <2>2 DEF RequestFine, Joins, StartOps, ChangeOps
  <2>4. bridge' \in [Ids -> Emails \cup {NoEmail, Renamed}]
    BY <1>0, <2>1
  <2> QED BY <2>1, <2>3, <2>4, BegunType
<1> QED BY <1>1, <1>2, <1>3, <1>4

----------------------------------------------------------------------------
(* Types: the statements of a sign-up.                                     *)

LEMMA InsertDoes ==
    ASSUME TypeInv, NEW w \in inflight, insertUser(w)
    PROVE  /\ w.op = "insertUser" /\ w.id = 0 /\ w.account \in Ids /\ UNCHANGED <<bridge, roots, attempts, others>>
           /\ \/ /\ Free(w.email) /\ used + 1 \in Ids /\ used' = used + 1 /\ Touches(used + 1)
                 /\ users'[used + 1].email = w.email /\ users'[used + 1].account = w.account
                 /\ users'[used + 1].root = NoRoot /\ users'[used + 1].keys = w.keys
                 /\ \E s : Going(w, s, "createRoot", used + 1, NoRoot)
              \/ ~ Free(w.email) /\ Done(w) /\ UNCHANGED rows
<1>1. /\ w.op = "insertUser" /\ w \in Request /\ w.id = 0 /\ w.root = NoRoot /\ w.account \in Ids
      /\ users \in [Ids -> UserRow]
  BY RequestTypes, TableTypes DEF insertUser, RequestFine, StartOps
<1>2. UNCHANGED <<bridge, roots, attempts, others>>
  BY DEF insertUser, Others, Histories, others
<1>3. CASE Free(w.email)
  <2>1. /\ used + 1 \in Ids /\ used' = used + 1
        /\ users' = [users EXCEPT ![used + 1] =
               [NoUser EXCEPT !.email = w.email, !.account = w.account, !.keys = w.keys]]
        /\ Goes(w, [w EXCEPT !.op = "createRoot", !.id = used + 1])
    BY <1>3 DEF insertUser, findByUsername, Free
  <2>2. PICK row : row = [NoUser EXCEPT !.email = w.email, !.account = w.account, !.keys = w.keys]
    OBVIOUS
  <2>3. /\ row \in UserRow /\ row.email = w.email /\ row.account = w.account /\ row.root = NoRoot /\ row.keys = w.keys
    BY <1>1, <2>2 DEF NoUser, UserRow, Request
  <2>4. Touches(used + 1) /\ users'[used + 1] = row
    BY <1>1, <2>1, <2>2, <2>3 DEF Touches
  <2>5. \E s : Going(w, s, "createRoot", used + 1, w.root)
    <3>1. PICK i \in Ids : i = used + 1
      BY <2>1
    <3>2. Goes(w, [w EXCEPT !.op = "createRoot", !.id = i])
      BY <2>1, <3>1
    <3>3. "createRoot" \in Ops
      BY DEF Ops
    <3> QED BY <1>1, <3>1, <3>2, <3>3, GoesWithId
  <2> QED BY <1>1, <1>2, <1>3, <2>1, <2>3, <2>4, <2>5
<1>4. CASE ~ Free(w.email)
  <2>1. findByUsername(w.email) # {}
    BY <1>4 DEF findByUsername, Free
  <2>2. Done(w) /\ UNCHANGED <<users, used>>
    BY <2>1 DEF insertUser
  <2> QED BY <1>1, <1>2, <1>4, <2>2 DEF rows
<1> QED BY <1>3, <1>4

LEMMA InsertType ==
    ASSUME TypeInv, UNCHANGED alone, NEW w \in inflight, insertUser(w)
    PROVE  TypeInv'
<1>1. /\ w.op = "insertUser" /\ w.id = 0 /\ w.account \in Ids /\ UNCHANGED <<bridge, roots, attempts, others>>
  BY InsertDoes
<1>2. CASE /\ used + 1 \in Ids /\ used' = used + 1 /\ Touches(used + 1)
           /\ users'[used + 1].email = w.email /\ users'[used + 1].account = w.account
           /\ users'[used + 1].root = NoRoot /\ \E s : Going(w, s, "createRoot", used + 1, NoRoot)
  <2>1. w.email # NoEmail
    BY RequestTypes, NoAddress
  <2>2. Sound
    BY <1>1, <1>2, <2>1, UserInserted
  <2>3. PICK s : Going(w, s, "createRoot", used + 1, NoRoot)
    BY <1>2
  <2>4. RequestFine(s)'
    <3>1. s \in Request /\ s.op = "createRoot" /\ s.id = used' /\ s.id \in Ids /\ s.root = NoRoot
      BY <1>2, <2>3 DEF Going
    <3>2. used' \in Nat
      BY <2>2 DEF Sound, Keeps
    <3> QED BY <3>1, <3>2 DEF RequestFine, StartOps, ChangeOps
  <2>5. RequestsFine'
    BY <2>2, <2>3, <2>4, GoesFine DEF Sound, Going, Alike
  <2> QED BY <1>1, <2>2, <2>5, TypeAfter, TableTypes DEF others, TypeInv, RestFine
<1>3. CASE Done(w) /\ UNCHANGED rows
  <2>1. Sound
    BY <1>3, NothingTouched DEF rows
  <2>2. RequestsFine'
    BY <1>3, <2>1, DoneFine DEF Sound
  <2> QED BY <1>1, <2>1, <2>2, TypeAfter, TableTypes DEF others, TypeInv, RestFine
<1> QED BY <1>2, <1>3, InsertDoes

LEMMA RollbackGoes ==
    ASSUME NEW w \in Request, NEW f \in Roots \cup {NoRoot}, rollback(w, f)
    PROVE  (w.signUp /\ \E s : Going(w, s, "deleteUser", w.id, f)) \/ (~ w.signUp /\ Done(w))
<1>1. "deleteUser" \in Ops
  BY DEF Ops
<1> QED BY <1>1, GoesWithRoot DEF rollback

LEMMA RootsDoes ==
    ASSUME TypeInv, NEW w \in inflight, createInitialFolders(w)
    PROVE  /\ w.id \in Ids /\ w.id <= used
           /\ UNCHANGED <<used, bridge, attempts, preCreated, members, crashed, deactivated>>
           /\ \/ /\ w.op = "createRoot" /\ UNCHANGED <<users, halfway>>
                 /\ \E f \in Roots : /\ roots[f].owner = 0 /\ roots' = [roots EXCEPT ![f] = [owner |-> w.id, live |-> TRUE]]
                                     /\ \E s : Going(w, s, "linkRoot", w.id, f)
              \/ /\ w.op = "createRoot" /\ UNCHANGED <<users, halfway, roots>>
                 /\ (w.signUp /\ \E s : Going(w, s, "deleteUser", w.id, NoRoot)) \/ (~ w.signUp /\ Done(w))
              \/ /\ w.op = "linkRoot" /\ UNCHANGED <<roots, halfway>>
                 /\ Touches(w.id) /\ (Gone(w.id) => Gone(w.id)')
                 /\ ~ Gone(w.id) => users'[w.id] = [users[w.id] EXCEPT !.root = w.root]
                 /\ \E s : Going(w, s, IF w.signUp THEN "getTokens" ELSE "answer", w.id, w.root)
              \/ /\ w.op = "linkRoot" /\ UNCHANGED <<roots, users>> /\ halfway' = halfway \cup {w.root}
                 /\ (w.signUp /\ \E s : Going(w, s, "deleteUser", w.id, NoRoot)) \/ (~ w.signUp /\ Done(w))
<1>1. w \in Request /\ w.id \in Ids /\ w.id <= used /\ users \in [Ids -> UserRow] /\ w.root \in Roots \cup {NoRoot}
  BY RequestTypes, TableTypes DEF createInitialFolders, StartOps
<1>2. UNCHANGED <<used, bridge, attempts, preCreated, members, crashed, deactivated>>
  BY DEF createInitialFolders, Others
<1>3. CASE w.op = "createRoot"
  <2>1. UNCHANGED <<users, halfway>>
    BY <1>3 DEF createInitialFolders
  <2>2. CASE \E f \in Roots : /\ roots[f].owner = 0 /\ roots' = [roots EXCEPT ![f] = [owner |-> w.id, live |-> TRUE]]
                              /\ Goes(w, [w EXCEPT !.op = "linkRoot", !.root = f])
    <3>1. PICK f \in Roots : /\ roots[f].owner = 0 /\ roots' = [roots EXCEPT ![f] = [owner |-> w.id, live |-> TRUE]]
                             /\ Goes(w, [w EXCEPT !.op = "linkRoot", !.root = f])
      BY <2>2
    <3>2. "linkRoot" \in Ops
      BY DEF Ops
    <3>3. \E s : Going(w, s, "linkRoot", w.id, f)
      BY <1>1, <3>1, <3>2, GoesWithRoot
    <3> QED BY <1>1, <1>2, <1>3, <2>1, <3>1, <3>3
  <2>3. CASE rollback(w, NoRoot) /\ UNCHANGED roots
    BY <1>1, <1>2, <1>3, <2>1, <2>3, RollbackGoes
  <2> QED BY <1>3, <2>2, <2>3 DEF createInitialFolders
<1>4. CASE w.op = "linkRoot"
  <2>1. UNCHANGED roots
    BY <1>4 DEF createInitialFolders
  <2>2. CASE /\ updateUser(w.id, [users[w.id] EXCEPT !.root = w.root])
             /\ Goes(w, [w EXCEPT !.op = IF w.signUp THEN "getTokens" ELSE "answer"])
             /\ UNCHANGED halfway
    <3>1. PICK row : row = [users[w.id] EXCEPT !.root = w.root]
      OBVIOUS
    <3>2. row \in UserRow
      BY <1>1, <3>1 DEF UserRow
    <3>3. Touches(w.id) /\ (Gone(w.id) => Gone(w.id)') /\ (~ Gone(w.id) => users'[w.id] = row)
      BY <1>1, <2>2, <3>1, <3>2, Updated
    <3>4. (IF w.signUp THEN "getTokens" ELSE "answer") \in Ops
      BY DEF Ops
    <3>5. \E s : Going(w, s, IF w.signUp THEN "getTokens" ELSE "answer", w.id, w.root)
      BY <1>1, <2>2, <3>4, GoesWithOp
    <3> QED BY <1>1, <1>2, <1>4, <2>1, <2>2, <3>1, <3>3, <3>5
  <2>3. CASE rollback(w, NoRoot) /\ halfway' = halfway \cup {w.root} /\ UNCHANGED users
    BY <1>1, <1>2, <1>4, <2>1, <2>3, RollbackGoes
  <2> QED BY <1>4, <2>2, <2>3 DEF createInitialFolders
<1> QED BY <1>3, <1>4 DEF createInitialFolders

LEMMA RollbackFine ==
    ASSUME TypeInv, Sound, NEW w \in inflight, w.op \notin StartOps, NEW f \in {w.root, NoRoot},
           (w.signUp /\ \E s : Going(w, s, "deleteUser", w.id, f)) \/ (~ w.signUp /\ Done(w))
    PROVE  RequestsFine'
<1>1. CASE Done(w)
  BY <1>1, DoneFine DEF Sound
<1>2. CASE \E s : Going(w, s, "deleteUser", w.id, f)
  <2>1. "deleteUser" \in Ops /\ "deleteUser" \notin StartOps /\ "deleteUser" \notin ChangeOps
    BY DEF Ops, StartOps, ChangeOps
  <2> QED BY <1>2, <2>1, PlainFine
<1> QED BY <1>1, <1>2

LEMMA RootsType ==
    ASSUME TypeInv, UNCHANGED alone, NEW w \in inflight, createInitialFolders(w)
    PROVE  TypeInv'
<1>0. /\ w.id \in Ids /\ w.id <= used /\ w.op \notin StartOps /\ RestFine
      /\ UNCHANGED <<used, bridge, attempts, preCreated, members, crashed, deactivated>>
  BY RootsDoes, RequestTypes DEF createInitialFolders, StartOps, TypeInv
<1>1. /\ RequestFine(w) /\ w.root \in Roots \cup {NoRoot} /\ users \in [Ids -> UserRow]
      /\ roots \in [Roots -> FolderRow]
  BY RequestTypes, TableTypes
<1>2. ASSUME Sound, RequestsFine', halfway' \subseteq Roots PROVE TypeInv'
  BY <1>0, <1>2, TypeAfter DEF RestFine
<1>3. ASSUME UNCHANGED <<users, halfway>>, w.op = "createRoot", NEW f \in Roots, roots[f].owner = 0,
             roots' = [roots EXCEPT ![f] = [owner |-> w.id, live |-> TRUE]],
             \E s : Going(w, s, "linkRoot", w.id, f)
      PROVE  TypeInv'
  <2>1. roots' \in [Roots -> FolderRow] /\ roots'[f].owner = w.id /\ roots'[f].live
    BY <1>0, <1>1, <1>3 DEF FolderRow
  <2>2. \A g \in Roots : g # f => roots'[g] = roots[g]
    BY <1>1, <1>3
  <2>3. \A g \in Roots : roots[g].owner <= used
    BY DEF TypeInv, RootsFine
  <2>4. Sound
    BY <1>0, <1>3, <2>1, <2>2, <2>3, RootTouched
  <2>5. PICK s : Going(w, s, "linkRoot", w.id, f)
    BY <1>3
  <2>6. RequestFine(s)'
    <3>1. s \in Request /\ s.op = "linkRoot" /\ s.id = w.id /\ s.root = f
      BY <2>5 DEF Going
    <3>2. f # NoRoot
      BY Numbered DEF NoRoot
    <3> QED BY <1>0, <2>1, <3>1, <3>2 DEF RequestFine, StartOps, ChangeOps
  <2>7. RequestsFine'
    BY <2>4, <2>5, <2>6, GoesFine DEF Sound, Going, Alike
  <2> QED BY <1>0, <1>2, <1>3, <2>4, <2>7 DEF RestFine
<1>4. ASSUME UNCHANGED <<users, roots>>, halfway' \subseteq Roots,
             (w.signUp /\ \E s : Going(w, s, "deleteUser", w.id, NoRoot)) \/ (~ w.signUp /\ Done(w))
      PROVE  TypeInv'
  <2>1. Sound
    BY <1>0, <1>4, NothingTouched
  <2>2. RequestsFine'
    BY <1>0, <1>4, <2>1, RollbackFine
  <2> QED BY <1>2, <1>4, <2>1, <2>2
<1>5. ASSUME w.op = "linkRoot", UNCHANGED <<roots, halfway>>, Touches(w.id), Gone(w.id) => Gone(w.id)',
             ~ Gone(w.id) => users'[w.id] = [users[w.id] EXCEPT !.root = w.root],
             \E s : Going(w, s, IF w.signUp THEN "getTokens" ELSE "answer", w.id, w.root)
      PROVE  TypeInv'
  <2>3. Sound
    <3>1. CASE Gone(w.id)
      BY <1>0, <1>5, <3>1, RowTouched
    <3>2. CASE ~ Gone(w.id)
      <4>1. w.root # NoRoot /\ roots[w.root].owner = w.id /\ roots[w.root].live
        BY <1>1, <1>5, <3>2 DEF RequestFine
      <4>2. users[w.id] \in UserRow /\ users[w.id].email # NoEmail
        BY <1>0, <1>1, <3>2, TableTypes
      <4>3. /\ users'[w.id].email = users[w.id].email /\ users'[w.id].account = users[w.id].account
            /\ users'[w.id].root = w.root
        BY <1>5, <3>2, <4>2 DEF UserRow
      <4>4. Owned(w.id, users'[w.id].root)
        BY <4>1, <4>3 DEF Owned
      <4> QED BY <1>0, <1>5, <3>2, <4>2, <4>3, <4>4, RowTouched
    <3> QED BY <3>1, <3>2
  <2>4. /\ {"getTokens", "answer"} \subseteq Ops /\ {"getTokens", "answer"} \cap StartOps = {}
        /\ {"getTokens", "answer"} \cap ChangeOps = {}
    BY DEF Ops, StartOps, ChangeOps
  <2>5. PICK op \in {"getTokens", "answer"} : \E s : Going(w, s, op, w.id, w.root)
    BY <1>5
  <2>6. RequestsFine'
    BY <1>0, <2>3, <2>4, <2>5, PlainFine
  <2> QED BY <1>0, <1>2, <1>5, <2>3, <2>6 DEF RestFine
<1>6. halfway' = halfway \cup {w.root} /\ w.op = "linkRoot" => halfway' \subseteq Roots
  BY <1>0, <1>1 DEF RequestFine, RestFine
<1>7. UNCHANGED halfway => halfway' \subseteq Roots
  BY <1>0 DEF RestFine
<1> QED BY <1>3, <1>4, <1>5, <1>6, <1>7, RootsDoes

LEMMA SigningUpType ==
    ASSUME TypeInv, UNCHANGED alone, NEW w \in inflight,
           getAuthTokens(w) \/ replacePreCreatedUser(w) \/ answer(w) \/ insertPreCreated(w)
    PROVE  TypeInv'
<1>0. /\ w \in Request /\ RequestFine(w) /\ w.root \in Roots \cup {NoRoot} /\ w.email \in Emails /\ RestFine
      /\ bridge \in [Ids -> Emails \cup {NoEmail, Renamed}]
  BY RequestTypes, TableTypes DEF TypeInv
<1>1. Sound
  <2>1. UNCHANGED <<users, used, roots, attempts>>
    BY DEF getAuthTokens, replacePreCreatedUser, answer, insertPreCreated, Others
  <2> QED BY <2>1, NothingTouched
<1>2. /\ UNCHANGED <<bridge, members, halfway, deactivated>> /\ preCreated' \subseteq Emails
      /\ crashed' \subseteq crashed \cup ({w.id} \ {0})
  <2>1. CASE getAuthTokens(w) \/ answer(w) \/ insertPreCreated(w)
    BY <1>0, <2>1 DEF getAuthTokens, answer, insertPreCreated, Others, Histories, RestFine
  <2>2. CASE replacePreCreatedUser(w)
    <3>1. w.id # 0
      BY <1>0, <2>2, Numbered DEF replacePreCreatedUser, RequestFine, StartOps
    <3> QED BY <1>0, <2>2, <3>1 DEF replacePreCreatedUser, RestFine
  <2> QED BY <2>1, <2>2
<1>3. RequestsFine'
  <2>1. CASE Done(w)
    BY <1>1, <2>1, DoneFine DEF Sound
  <2>2. CASE getAuthTokens(w)
    <3>0. w.op \notin StartOps
      BY <2>2 DEF getAuthTokens, StartOps
    <3>1. CASE Goes(w, [w EXCEPT !.op = IF w.keys THEN "replacePreCreated" ELSE "answer"])
      <4>1. PICK op \in {"replacePreCreated", "answer"} : Goes(w, [w EXCEPT !.op = op])
        BY <3>1
      <4>2. op \in Ops /\ op \notin StartOps /\ op \notin ChangeOps
        BY DEF Ops, StartOps, ChangeOps
      <4>3. PICK s : Going(w, s, op, w.id, w.root)
        BY <1>0, <4>1, <4>2, GoesWithOp
      <4> QED BY <1>1, <3>0, <4>2, <4>3, PlainFine
    <3>2. CASE rollback(w, w.root)
      BY <1>0, <1>1, <3>0, <3>2, RollbackGoes, RollbackFine
    <3> QED BY <2>2, <3>1, <3>2 DEF getAuthTokens
  <2> QED BY <2>1, <2>2 DEF replacePreCreatedUser, answer, insertPreCreated
<1> QED BY <1>0, <1>1, <1>2, <1>3, TypeAfter DEF RestFine

LEMMA UndoDoes ==
    ASSUME TypeInv, NEW w \in inflight, undoSignUp(w)
    PROVE  /\ w.id \in Ids /\ w.id <= used /\ UNCHANGED <<used, bridge, attempts, others>>
           /\ \/ /\ w.op = "deleteUser" /\ Touches(w.id) /\ Gone(w.id)' /\ UNCHANGED roots
                 /\ \E s : Going(w, s, IF w.root = NoRoot THEN "answer" ELSE "deleteRoot", w.id, w.root)
              \/ /\ w.op = "deleteRoot" /\ Done(w) /\ UNCHANGED users /\ roots' \in [Roots -> FolderRow]
                 /\ \A f \in Roots : /\ roots'[f].owner = roots[f].owner
                                     /\ f # w.root => roots'[f] = roots[f]
                                     /\ roots'[f].live => roots[f].live
<1>1. w \in Request /\ w.id \in Ids /\ w.id <= used /\ w.root \in Roots \cup {NoRoot} /\ roots \in [Roots -> FolderRow]
  BY RequestTypes, TableTypes DEF undoSignUp, StartOps
<1>2. UNCHANGED <<used, bridge, attempts, others>>
  BY DEF undoSignUp, Others, Histories, others
<1>3. CASE w.op = "deleteUser"
  <2>1. users' = [users EXCEPT ![w.id] = NoUser] /\ UNCHANGED roots
        /\ Goes(w, [w EXCEPT !.op = IF w.root = NoRoot THEN "answer" ELSE "deleteRoot"])
    BY <1>3 DEF undoSignUp
  <2>2. (IF w.root = NoRoot THEN "answer" ELSE "deleteRoot") \in Ops
    BY DEF Ops
  <2>3. \E s : Going(w, s, IF w.root = NoRoot THEN "answer" ELSE "deleteRoot", w.id, w.root)
    BY <1>1, <2>1, <2>2, GoesWithOp
  <2> QED BY <1>1, <1>2, <1>3, <2>1, <2>3, Deleted
<1>4. CASE w.op = "deleteRoot"
  <2>1. /\ roots' = IF w.root = NoRoot THEN roots ELSE [roots EXCEPT ![w.root].live = FALSE]
        /\ Done(w) /\ UNCHANGED users
    BY <1>4 DEF undoSignUp
  <2>2. CASE w.root = NoRoot
    BY <1>1, <1>2, <1>4, <2>1, <2>2
  <2>3. CASE w.root # NoRoot
    <3>1. w.root \in Roots /\ roots' = [roots EXCEPT ![w.root].live = FALSE]
      BY <1>1, <2>1, <2>3
    <3>2. roots' \in [Roots -> FolderRow]
      BY <1>1, <3>1 DEF FolderRow
    <3>3. \A f \in Roots : /\ roots'[f].owner = roots[f].owner
                           /\ f # w.root => roots'[f] = roots[f]
                           /\ roots'[f].live => roots[f].live
      BY <1>1, <3>1 DEF FolderRow
    <3> QED BY <1>1, <1>2, <1>4, <2>1, <3>2, <3>3
  <2> QED BY <2>2, <2>3
<1> QED BY <1>3, <1>4 DEF undoSignUp

LEMMA UndoType ==
    ASSUME TypeInv, UNCHANGED alone, NEW w \in inflight, undoSignUp(w)
    PROVE  TypeInv'
<1>0. /\ w.id \in Ids /\ w.id <= used /\ RequestFine(w) /\ UNCHANGED <<used, bridge, attempts, others>>
      /\ w.op \notin StartOps /\ RestFine
  BY UndoDoes, RequestTypes DEF undoSignUp, StartOps, TypeInv
<1>1. CASE /\ w.op = "deleteUser" /\ Touches(w.id) /\ Gone(w.id)' /\ UNCHANGED roots
           /\ \E s : Going(w, s, IF w.root = NoRoot THEN "answer" ELSE "deleteRoot", w.id, w.root)
  <2>1. Sound
    BY <1>0, <1>1, RowTouched
  <2>2. PICK op \in {"answer", "deleteRoot"} : \E s : Going(w, s, op, w.id, w.root)
    BY <1>1
  <2>3. op \in Ops /\ op \notin StartOps /\ op \notin ChangeOps /\ op # "linkRoot"
    BY DEF Ops, StartOps, ChangeOps
  <2>4. RequestsFine'
    BY <1>0, <1>1, <2>1, <2>2, <2>3, PlainFine
  <2> QED BY <1>0, <2>1, <2>4, TypeAfter DEF others, RestFine
<1>2. CASE /\ w.op = "deleteRoot" /\ Done(w) /\ UNCHANGED users /\ roots' \in [Roots -> FolderRow]
           /\ \A f \in Roots : roots'[f].owner = roots[f].owner /\ (f # w.root => roots'[f] = roots[f])
  <2>1. Gone(w.id) /\ (w.root # NoRoot => roots[w.root].owner = w.id)
    BY <1>0, <1>2 DEF RequestFine
  <2>2. \A f \in Roots : f # NoRoot
    BY Numbered DEF NoRoot
  <2>3. \A f \in Roots : roots[f].live => roots'[f].live \/ Gone(roots[f].owner)
    BY <1>2, <2>1, <2>2
  <2>4. \A f \in Roots : roots'[f].owner <= used
    BY <1>2 DEF TypeInv, RootsFine
  <2>5. Sound
    BY <1>0, <1>2, <2>3, <2>4, RootTouched
  <2>6. RequestsFine'
    BY <1>2, <2>5, DoneFine DEF Sound
  <2> QED BY <1>0, <2>5, <2>6, TypeAfter DEF others, RestFine
<1> QED BY <1>1, <1>2, UndoDoes

----------------------------------------------------------------------------
(* Types: the statements of a change of address.                           *)

LEMMA ChangeDoes ==
    ASSUME TypeInv, NEW w \in inflight, changeUserEmailById(w)
    PROVE  /\ w.id \in Ids /\ w.id <= used /\ w.op \in ChangeOps /\ UNCHANGED <<used, roots, attempts, others>>
           /\ \/ /\ w.op = "changeAtBridge" /\ mayHaveEmail(users[w.id].account, w.email) /\ UNCHANGED users
                 /\ bridge' = [bridge EXCEPT ![users[w.id].account] = w.email]
                 /\ \E s : Going(w, s, "changeRow", w.id, w.root)
              \/ /\ w.op = "changeRow" /\ Free(w.email) /\ UNCHANGED bridge
                 /\ Touches(w.id) /\ (Gone(w.id) => Gone(w.id)')
                 /\ ~ Gone(w.id) => users'[w.id] = [users[w.id] EXCEPT !.email = w.email, !.moved = TRUE]
                 /\ \E s : Going(w, s, "markVerified", w.id, w.root)
              \/ /\ w.op \in {"changeAtBridge", "changeRow"} /\ UNCHANGED <<users, bridge>>
                 /\ \E s : Going(w, s, "undoAtBridge", w.id, w.root)
              \/ /\ w.op = "undoAtBridge" /\ UNCHANGED users /\ Done(w)
                 /\ bridge' = IF bridge[w.account] = NoEmail THEN bridge ELSE [bridge EXCEPT ![w.account] = w.old]
<1>1. w \in Request /\ w.id \in Ids /\ w.id <= used /\ w.op \in ChangeOps /\ users \in [Ids -> UserRow] /\ w.email \in Emails
  BY RequestTypes, TableTypes DEF changeUserEmailById, StartOps, ChangeOps
<1>2. UNCHANGED <<used, roots, attempts, others>>
  BY DEF changeUserEmailById, Others, Histories, others
<1>3. {"changeRow", "undoAtBridge", "markVerified"} \subseteq Ops
  BY DEF Ops, ChangeOps
<1>4. CASE /\ w.op = "changeAtBridge" /\ mayHaveEmail(users[w.id].account, w.email) /\ UNCHANGED users
           /\ bridge' = [bridge EXCEPT ![users[w.id].account] = w.email]
           /\ Goes(w, [w EXCEPT !.op = "changeRow"])
  <2>1. \E s : Going(w, s, "changeRow", w.id, w.root)
    BY <1>1, <1>3, <1>4, GoesWithOp
  <2> QED BY <1>1, <1>2, <1>4, <2>1
<1>5. CASE w.op \in {"changeAtBridge", "changeRow"} /\ UNCHANGED <<users, bridge>> /\ Goes(w, [w EXCEPT !.op = "undoAtBridge"])
  <2>1. \E s : Going(w, s, "undoAtBridge", w.id, w.root)
    BY <1>1, <1>3, <1>5, GoesWithOp
  <2> QED BY <1>1, <1>2, <1>5, <2>1
<1>6. CASE /\ w.op = "changeRow" /\ findByUsername(w.email) = {} /\ UNCHANGED bridge
           /\ updateUser(w.id, [users[w.id] EXCEPT !.email = w.email, !.moved = TRUE])
           /\ Goes(w, [w EXCEPT !.op = "markVerified"])
  <2>1. PICK row : row = [users[w.id] EXCEPT !.email = w.email, !.moved = TRUE]
    OBVIOUS
  <2>2. row \in UserRow
    BY <1>1, <2>1 DEF UserRow
  <2>3. Touches(w.id) /\ (Gone(w.id) => Gone(w.id)') /\ (~ Gone(w.id) => users'[w.id] = row)
    BY <1>1, <1>6, <2>1, <2>2, Updated
  <2>4. \E s : Going(w, s, "markVerified", w.id, w.root)
    BY <1>1, <1>3, <1>6, GoesWithOp
  <2>5. Free(w.email)
    BY <1>6 DEF Free, findByUsername
  <2> QED BY <1>1, <1>2, <1>6, <2>1, <2>3, <2>4, <2>5
<1>7. CASE /\ w.op = "undoAtBridge" /\ UNCHANGED users /\ Done(w)
           /\ bridge' = IF bridge[w.account] = NoEmail THEN bridge ELSE [bridge EXCEPT ![w.account] = w.old]
  BY <1>1, <1>2, <1>7
<1> QED BY <1>4, <1>5, <1>6, <1>7 DEF changeUserEmailById, undoesChange

LEMMA ChangeType ==
    ASSUME TypeInv, UNCHANGED alone, NEW w \in inflight, changeUserEmailById(w)
    PROVE  TypeInv'
<1>0. /\ w.id \in Ids /\ w.id <= used /\ RequestFine(w) /\ UNCHANGED <<used, roots, attempts, others>>
      /\ w.op \in ChangeOps /\ w.op \notin StartOps /\ RestFine /\ w.email \in Emails
      /\ bridge \in [Ids -> Emails \cup {NoEmail, Renamed}]
  BY ChangeDoes, RequestTypes, TableTypes DEF ChangeOps, StartOps, TypeInv
<1>1. w.account \in Ids \cup {0} /\ w.old \in Emails \cup {NoEmail, Renamed}
  BY RequestTypes DEF Request
<1>2. bridge' \in [Ids -> Emails \cup {NoEmail, Renamed}]
  BY <1>0, <1>1, ChangeDoes
<1>3. {"changeRow", "undoAtBridge", "markVerified"} \subseteq Ops \ (StartOps \cup {"linkRoot", "deleteRoot", "removeOrphans"})
  BY DEF Ops, ChangeOps, StartOps
<1>4. ASSUME Sound PROVE RequestsFine'
  <2>1. CASE Done(w)
    BY <1>4, <2>1, DoneFine DEF Sound
  <2>2. CASE \E op \in {"changeRow", "undoAtBridge", "markVerified"} : \E s : Going(w, s, op, w.id, w.root)
    BY <1>0, <1>3, <1>4, <2>2, PlainFine
  <2> QED BY <2>1, <2>2, ChangeDoes
<1>5. Sound
  <2>1. CASE UNCHANGED users
    BY <1>0, <2>1, NothingTouched
  <2>2. CASE /\ Touches(w.id) /\ (Gone(w.id) => Gone(w.id)')
             /\ ~ Gone(w.id) => users'[w.id] = [users[w.id] EXCEPT !.email = w.email, !.moved = TRUE]
    <3>1. CASE Gone(w.id)
      BY <1>0, <2>2, <3>1, RowTouched
    <3>2. CASE ~ Gone(w.id)
      <4>1. users[w.id] \in UserRow
        BY <1>0, TableTypes
      <4>2. /\ users'[w.id].email = w.email /\ users'[w.id].account = users[w.id].account
            /\ users'[w.id].root = users[w.id].root
        BY <2>2, <3>2, <4>1 DEF UserRow
      <4>3. w.email # NoEmail
        BY <1>0, NoAddress
      <4>4. Owned(w.id, users'[w.id].root)
        BY <1>0, <4>2 DEF Owned, TypeInv, RootsFine
      <4> QED BY <1>0, <2>2, <3>2, <4>2, <4>3, <4>4, RowTouched
    <3> QED BY <3>1, <3>2
  <2> QED BY <2>1, <2>2, ChangeDoes
<1> QED BY <1>0, <1>2, <1>4, <1>5, TypeAfter DEF others, RestFine

\* A verified attempt is of the same user.
LEMMA MarkDoes ==
    ASSUME TypeInv, NEW w \in inflight, markVerified(w)
    PROVE  /\ w.op = "markVerified" /\ Done(w) /\ UNCHANGED <<users, used, roots, bridge, others>>
           /\ attempts' \in Seq(AttemptRow) /\ Len(attempts') = Len(attempts)
           /\ \A a \in 1 .. Len(attempts) : attempts'[a].user = attempts[a].user
<1>1. w.op = "markVerified" /\ Done(w) /\ UNCHANGED <<users, used, roots, bridge, others>>
  BY DEF markVerified, Histories, others
<1>2. w.attempt \in 1 .. Len(attempts) /\ Len(attempts) \in Nat /\ attempts \in Seq(AttemptRow)
  BY <1>1, RequestTypes, TableTypes DEF RequestFine, ChangeOps, TypeInv, AttemptsFine
<1>3. PICK row : row = [attempts[w.attempt] EXCEPT !.isVerified = TRUE]
  OBVIOUS
<1>4. row \in AttemptRow /\ row.user = attempts[w.attempt].user
  <2>1. attempts[w.attempt] \in AttemptRow
    BY <1>2, AttemptTypes
  <2> QED BY <1>3, <2>1 DEF AttemptRow
<1>5. attempts' = [attempts EXCEPT ![w.attempt] = row]
  BY <1>1, <1>3 DEF markVerified
<1>6. attempts' \in Seq(AttemptRow) /\ Len(attempts') = Len(attempts)
  BY <1>2, <1>4, <1>5
<1>7. \A a \in 1 .. Len(attempts) : attempts'[a] = IF a = w.attempt THEN row ELSE attempts[a]
  BY <1>2, <1>5
<1>8. \A a \in 1 .. Len(attempts) : attempts'[a].user = attempts[a].user
  BY <1>4, <1>7
<1> QED BY <1>1, <1>6, <1>8

LEMMA AttemptDoes ==
    ASSUME TypeInv, NEW i \in Ids, NEW e \in Emails, createAttemptChangeEmail(i, e)
    PROVE  /\ UNCHANGED <<users, used, roots, bridge, others, inflight>> /\ (alone => inflight = {}) /\ ~ Gone(i)
           /\ attempts' \in Seq(AttemptRow) /\ Len(attempts') = Len(attempts) + 1
           /\ \A a \in 1 .. Len(attempts) : attempts'[a].user = attempts[a].user
           /\ attempts'[Len(attempts) + 1].user = i
<1>1. UNCHANGED <<users, used, roots, bridge, others, inflight>> /\ (alone => inflight = {}) /\ ~ Gone(i)
  BY TableTypes DEF createAttemptChangeEmail, Registered, Histories, Quiet, others
<1>2. PICK x \in BOOLEAN :
        attempts' = Append(attempts, [user |-> i, newEmail |-> e, isVerified |-> FALSE, isExpired |-> x])
  BY DEF createAttemptChangeEmail
<1>3. PICK row : row = [user |-> i, newEmail |-> e, isVerified |-> FALSE, isExpired |-> x]
  OBVIOUS
<1>4. row \in AttemptRow /\ row.user = i
  BY <1>3 DEF AttemptRow
<1>5. attempts \in Seq(AttemptRow) /\ attempts' = Append(attempts, row)
  BY <1>2, <1>3 DEF TypeInv, AttemptsFine
<1>6. attempts' \in Seq(AttemptRow) /\ Len(attempts') = Len(attempts) + 1
  BY <1>4, <1>5
<1>7. (\A a \in 1 .. Len(attempts) : attempts'[a] = attempts[a]) /\ attempts'[Len(attempts) + 1] = row
  BY <1>5
<1>8. \A a \in 1 .. Len(attempts) : attempts'[a].user = attempts[a].user
  BY <1>7
<1> QED BY <1>1, <1>4, <1>6, <1>7, <1>8

LEMMA AttemptsType ==
    ASSUME TypeInv, UNCHANGED alone,
           (\E w \in inflight : markVerified(w)) \/ \E i \in Ids, e \in Emails : createAttemptChangeEmail(i, e)
    PROVE  TypeInv'
<1>0. RestFine /\ used \in Nat /\ Len(attempts) \in Nat
  BY TableTypes DEF TypeInv
<1>1. ASSUME NEW w \in inflight, markVerified(w) PROVE TypeInv'
  <2>1. /\ Done(w) /\ UNCHANGED <<users, used, roots, bridge, others>>
        /\ attempts' \in Seq(AttemptRow) /\ Len(attempts') = Len(attempts)
        /\ \A a \in 1 .. Len(attempts) : attempts'[a].user = attempts[a].user
    BY <1>1, MarkDoes
  <2>2. \A a \in 1 .. Len(attempts') : attempts'[a].user <= used
    BY <2>1 DEF TypeInv, AttemptsFine
  <2>3. Sound
    BY <1>0, <2>1, <2>2, AttemptsTouched
  <2>4. RequestsFine'
    BY <2>1, <2>3, DoneFine DEF Sound
  <2> QED BY <1>0, <2>1, <2>3, <2>4, TypeAfter DEF others, RestFine
<1>2. ASSUME NEW i \in Ids, NEW e \in Emails, createAttemptChangeEmail(i, e) PROVE TypeInv'
  <2>1. /\ UNCHANGED <<users, used, roots, bridge, others, inflight>> /\ ~ Gone(i)
        /\ attempts' \in Seq(AttemptRow) /\ Len(attempts') = Len(attempts) + 1
        /\ \A a \in 1 .. Len(attempts) : attempts'[a].user = attempts[a].user
        /\ attempts'[Len(attempts) + 1].user = i
    BY <1>2, AttemptDoes
  <2>2. \A a \in 1 .. Len(attempts') : attempts'[a].user <= used
    <3>1. TAKE a \in 1 .. Len(attempts')
    <3>2. a \in 1 .. Len(attempts) \/ a = Len(attempts) + 1
      BY <1>0, <2>1
    <3>3. i <= used
      BY <2>1, TableTypes
    <3>4. \A b \in 1 .. Len(attempts) : attempts[b].user <= used
      BY DEF TypeInv, AttemptsFine
    <3> QED BY <2>1, <3>2, <3>3, <3>4
  <2>3. Len(attempts') \in Nat /\ Len(attempts) <= Len(attempts')
    BY <1>0, <2>1
  <2>4. Sound
    BY <2>1, <2>2, <2>3, AttemptsTouched
  <2>5. RequestsFine'
    BY <2>1, <2>4, SameFine DEF Sound
  <2>6. RestFine'
    BY <1>0, <2>1 DEF RestFine, others
  <2> QED BY <2>4, <2>5, <2>6 DEF Sound, TypeInv
<1> QED BY <1>1, <1>2

----------------------------------------------------------------------------
(* Types: the statements of a deactivation.                                *)

LEMMA DeactivationDoes ==
    ASSUME TypeInv, NEW w \in inflight, deactivateUser(w)
    PROVE  /\ w.id \in Ids /\ w.id <= used
           /\ UNCHANGED <<used, bridge, attempts, preCreated, members, halfway, crashed>>
           /\ \/ /\ w.op = "detachRoot" /\ UNCHANGED <<roots, deactivated>>
                 /\ Touches(w.id) /\ (Gone(w.id) => Gone(w.id)')
                 /\ ~ Gone(w.id) => users'[w.id] = [users[w.id] EXCEPT !.root = NoRoot]
                 /\ \E s : Going(w, s, "deleteReferences", w.id, w.root)
              \/ /\ w.op \in {"deleteReferences", "deleteRow"} /\ UNCHANGED <<users, roots, deactivated>>
                 /\ \E op \in {"deleteRow", "renameUser"} : \E s : Going(w, s, op, w.id, w.root)
              \/ /\ w.op = "deleteRow" /\ ~ Attempted(w.id) /\ UNCHANGED <<roots, deactivated>>
                 /\ Touches(w.id) /\ Gone(w.id)'
                 /\ \E s : Going(w, s, "removeOrphans", w.id, w.root)
              \/ /\ w.op = "removeOrphans" /\ Done(w) /\ UNCHANGED users /\ deactivated' = deactivated \cup {w.id}
                 /\ roots' \in [Roots -> FolderRow]
                 /\ \A f \in Roots : /\ roots'[f].owner = roots[f].owner
                                     /\ IF roots[f].owner = w.id THEN ~ roots'[f].live ELSE roots'[f] = roots[f]
              \/ /\ w.op = "renameUser" /\ Done(w) /\ UNCHANGED <<roots, deactivated>>
                 /\ Touches(w.id) /\ (Gone(w.id) => Gone(w.id)')
                 /\ ~ Gone(w.id) => users'[w.id] = [users[w.id] EXCEPT !.email = Renamed]
<1>1. /\ w \in Request /\ w.id \in Ids /\ w.id <= used /\ users \in [Ids -> UserRow] /\ roots \in [Roots -> FolderRow]
      /\ Len(attempts) \in Nat /\ attempts \in Seq(AttemptRow)
  BY RequestTypes, TableTypes DEF deactivateUser, StartOps, TypeInv, AttemptsFine
<1>2. UNCHANGED <<used, bridge, attempts, preCreated, members, halfway, crashed>>
  BY DEF deactivateUser, Others
<1>3. {"deleteReferences", "deleteRow", "renameUser", "removeOrphans"} \subseteq Ops
  BY DEF Ops, LeaveOps
<1>4. CASE /\ w.op = "detachRoot" /\ UNCHANGED <<roots, deactivated>>
           /\ updateUser(w.id, [users[w.id] EXCEPT !.root = NoRoot])
           /\ Goes(w, [w EXCEPT !.op = "deleteReferences"])
  <2>1. PICK row : row = [users[w.id] EXCEPT !.root = NoRoot]
    OBVIOUS
  <2>2. row \in UserRow
    BY <1>1, <2>1 DEF UserRow
  <2>3. Touches(w.id) /\ (Gone(w.id) => Gone(w.id)') /\ (~ Gone(w.id) => users'[w.id] = row)
    BY <1>1, <1>4, <2>1, <2>2, Updated
  <2>4. \E s : Going(w, s, "deleteReferences", w.id, w.root)
    BY <1>1, <1>3, <1>4, GoesWithOp
  <2> QED BY <1>1, <1>2, <1>4, <2>1, <2>3, <2>4
<1>5. ASSUME w.op \in {"deleteReferences", "deleteRow"}, UNCHANGED <<users, roots, deactivated>>,
             NEW op \in {"deleteRow", "renameUser"}, Goes(w, [w EXCEPT !.op = op])
      PROVE  \E s : Going(w, s, op, w.id, w.root)
  BY <1>1, <1>3, <1>5, GoesWithOp
<1>6. CASE /\ w.op = "deleteRow" /\ ~ ReferencedElsewhere(w.id) /\ UNCHANGED <<roots, deactivated>>
           /\ users' = [users EXCEPT ![w.id] = NoUser] /\ Goes(w, [w EXCEPT !.op = "removeOrphans"])
  <2>1. Touches(w.id) /\ Gone(w.id)'
    BY <1>1, <1>6, Deleted
  <2>2. \E s : Going(w, s, "removeOrphans", w.id, w.root)
    BY <1>1, <1>3, <1>6, GoesWithOp
  <2>3. ~ Attempted(w.id)
    BY <1>1, <1>6 DEF ReferencedElsewhere, Attempted
  <2> QED BY <1>1, <1>2, <1>6, <2>1, <2>2, <2>3
<1>7. CASE /\ w.op = "removeOrphans" /\ removeUserOrphanFolders(w.id)
           /\ deactivated' = deactivated \cup {w.id} /\ Done(w) /\ UNCHANGED users
  <2>1. \A f \in Roots : roots'[f] = IF roots[f].owner = w.id THEN [roots[f] EXCEPT !.live = FALSE] ELSE roots[f]
    BY <1>7 DEF removeUserOrphanFolders
  <2>2. ASSUME NEW f \in Roots
        PROVE  /\ roots'[f] \in FolderRow /\ roots'[f].owner = roots[f].owner
               /\ IF roots[f].owner = w.id THEN ~ roots'[f].live ELSE roots'[f] = roots[f]
    <3>1. roots[f] \in FolderRow
      BY <1>1
    <3>2. [roots[f] EXCEPT !.live = FALSE] \in FolderRow /\ [roots[f] EXCEPT !.live = FALSE].owner = roots[f].owner
          /\ ~ [roots[f] EXCEPT !.live = FALSE].live
      BY <3>1 DEF FolderRow
    <3> QED BY <2>1, <3>1, <3>2
  <2>3. roots' \in [Roots -> FolderRow]
    BY <1>7, <2>2 DEF removeUserOrphanFolders
  <2> QED BY <1>1, <1>2, <1>7, <2>2, <2>3
<1>8. CASE /\ w.op = "renameUser" /\ Done(w) /\ UNCHANGED <<roots, deactivated>>
           /\ updateUser(w.id, [users[w.id] EXCEPT !.email = Renamed])
  <2>1. PICK row : row = [users[w.id] EXCEPT !.email = Renamed]
    OBVIOUS
  <2>2. row \in UserRow
    BY <1>1, <2>1 DEF UserRow
  <2>3. Touches(w.id) /\ (Gone(w.id) => Gone(w.id)') /\ (~ Gone(w.id) => users'[w.id] = row)
    BY <1>1, <1>8, <2>1, <2>2, Updated
  <2> QED BY <1>1, <1>2, <1>8, <2>1, <2>3
<1>9. CASE w.op = "deleteReferences"
  <2>1. UNCHANGED <<users, roots, deactivated>> /\ \E op \in {"deleteRow", "renameUser"} : Goes(w, [w EXCEPT !.op = op])
    BY <1>9 DEF deactivateUser
  <2> QED BY <1>1, <1>2, <1>5, <1>9, <2>1
<1>10. CASE w.op = "deleteRow" /\ ReferencedElsewhere(w.id)
  <2>1. UNCHANGED <<users, roots, deactivated>> /\ Goes(w, [w EXCEPT !.op = "renameUser"])
    BY <1>10 DEF deactivateUser
  <2> QED BY <1>1, <1>2, <1>5, <1>10, <2>1
<1>11. CASE w.op = "deleteRow" /\ ~ ReferencedElsewhere(w.id)
  BY <1>6, <1>11 DEF deactivateUser
<1>12. CASE w.op \in {"detachRoot", "removeOrphans", "renameUser"}
  BY <1>4, <1>7, <1>8, <1>12 DEF deactivateUser
<1> QED BY <1>9, <1>10, <1>11, <1>12 DEF deactivateUser

LEMMA DeactivationType ==
    ASSUME TypeInv, UNCHANGED alone, NEW w \in inflight, deactivateUser(w)
    PROVE  TypeInv'
<1>0. /\ w.id \in Ids /\ w.id <= used /\ RequestFine(w)
      /\ UNCHANGED <<used, bridge, attempts, preCreated, members, halfway, crashed>>
      /\ w.op \notin StartOps /\ RestFine /\ w.id # 0
  BY DeactivationDoes, RequestTypes, Numbered DEF StartOps, TypeInv, deactivateUser
<1>1. ASSUME Sound, RequestsFine', deactivated' \subseteq deactivated \cup {w.id} PROVE TypeInv'
  BY <1>0, <1>1, TypeAfter DEF RestFine
<1>2. {"deleteReferences", "deleteRow", "renameUser"} \subseteq Ops \ (StartOps \cup ChangeOps)
      /\ "removeOrphans" \in Ops \ (StartOps \cup ChangeOps)
  BY DEF Ops, LeaveOps, StartOps, ChangeOps
<1>3. ASSUME UNCHANGED <<roots, deactivated>>, Touches(w.id), Gone(w.id) => Gone(w.id)',
             NEW r \in {users[w.id].root, NoRoot}, NEW e, e # NoEmail \/ Gone(w.id),
             ~ Gone(w.id) => users'[w.id].email = e /\ users'[w.id].account = users[w.id].account /\ users'[w.id].root = r
      PROVE  Sound
  <2>1. CASE Gone(w.id)
    BY <1>0, <1>3, <2>1, RowTouched
  <2>2. CASE ~ Gone(w.id)
    <3>1. Owned(w.id, users'[w.id].root)
      BY <1>0, <1>3, <2>2 DEF Owned, TypeInv, RootsFine
    <3> QED BY <1>0, <1>3, <2>2, <3>1, RowTouched
  <2> QED BY <2>1, <2>2
<1>4. ASSUME Sound, NEW op \in {"deleteReferences", "deleteRow", "renameUser"}, \E s : Going(w, s, op, w.id, w.root)
      PROVE  RequestsFine'
  BY <1>0, <1>2, <1>4, PlainFine
<1>5. users[w.id] \in UserRow
  BY <1>0, TableTypes
<1>6. CASE /\ w.op = "detachRoot" /\ UNCHANGED <<roots, deactivated>>
           /\ Touches(w.id) /\ (Gone(w.id) => Gone(w.id)')
           /\ ~ Gone(w.id) => users'[w.id] = [users[w.id] EXCEPT !.root = NoRoot]
           /\ \E s : Going(w, s, "deleteReferences", w.id, w.root)
  <2>1. ~ Gone(w.id) => /\ users'[w.id].email = users[w.id].email /\ users'[w.id].account = users[w.id].account
                        /\ users'[w.id].root = NoRoot
    BY <1>5, <1>6 DEF UserRow
  <2>2. users[w.id].email # NoEmail \/ Gone(w.id)
    BY <1>0, TableTypes
  <2>3. Sound
    BY <1>3, <1>6, <2>1, <2>2
  <2> QED BY <1>1, <1>4, <1>6, <2>3
<1>7. CASE /\ UNCHANGED <<users, roots, deactivated>>
           /\ \E op \in {"deleteRow", "renameUser"} : \E s : Going(w, s, op, w.id, w.root)
  <2>1. Sound
    BY <1>0, <1>7, NothingTouched
  <2> QED BY <1>1, <1>4, <1>7, <2>1
<1>8. CASE /\ UNCHANGED <<roots, deactivated>> /\ Touches(w.id) /\ Gone(w.id)'
           /\ \E s : Going(w, s, "removeOrphans", w.id, w.root)
  <2>1. Sound
    BY <1>0, <1>8, RowTouched
  <2>2. RequestsFine'
    BY <1>0, <1>2, <1>8, <2>1, PlainFine
  <2> QED BY <1>1, <1>8, <2>1, <2>2
<1>9. CASE /\ w.op = "removeOrphans" /\ Done(w) /\ UNCHANGED users /\ deactivated' = deactivated \cup {w.id}
           /\ roots' \in [Roots -> FolderRow]
           /\ \A f \in Roots : roots'[f].owner = roots[f].owner /\ (roots[f].owner # w.id => roots'[f] = roots[f])
  <2>1. Gone(w.id)
    BY <1>0, <1>9 DEF RequestFine
  <2>2. \A f \in Roots : roots[f].live => roots'[f].live \/ Gone(roots[f].owner)
    BY <1>9, <2>1
  <2>3. \A f \in Roots : roots'[f].owner <= used
    BY <1>9 DEF TypeInv, RootsFine
  <2>4. Sound
    BY <1>0, <1>9, <2>2, <2>3, RootTouched
  <2>5. RequestsFine'
    BY <1>9, <2>4, DoneFine DEF Sound
  <2> QED BY <1>1, <1>9, <2>4, <2>5
<1>10. CASE /\ Done(w) /\ UNCHANGED <<roots, deactivated>>
            /\ Touches(w.id) /\ (Gone(w.id) => Gone(w.id)')
            /\ ~ Gone(w.id) => users'[w.id] = [users[w.id] EXCEPT !.email = Renamed]
  <2>1. ~ Gone(w.id) => /\ users'[w.id].email = Renamed /\ users'[w.id].account = users[w.id].account
                        /\ users'[w.id].root = users[w.id].root
    BY <1>5, <1>10 DEF UserRow
  <2>2. Renamed # NoEmail
    BY NoAddress
  <2>3. Sound
    BY <1>3, <1>10, <2>1, <2>2
  <2>4. RequestsFine'
    BY <1>10, <2>3, DoneFine DEF Sound
  <2> QED BY <1>1, <1>10, <2>3, <2>4
<1> QED BY <1>6, <1>7, <1>8, <1>9, <1>10, DeactivationDoes

LEMMA DiesType ==
    ASSUME TypeInv, UNCHANGED alone, NEW w \in inflight, requestDies(w)
    PROVE  TypeInv'
<1>1. /\ Done(w) /\ halfway' = halfway \cup ({w.root} \ {NoRoot}) /\ crashed' = crashed \cup ({w.id} \ {0})
      /\ UNCHANGED <<users, used, bridge, roots, deactivated, preCreated, attempts, members>>
  BY DEF requestDies, Others
<1>2. Sound
  BY <1>1, NothingTouched
<1>3. RequestsFine'
  BY <1>1, <1>2, DoneFine DEF Sound
<1>4. RestFine /\ w.root \in Roots \cup {NoRoot}
  BY RequestTypes DEF TypeInv
<1> QED BY <1>1, <1>2, <1>3, <1>4, TypeAfter DEF RestFine

LEMMA JoinType ==
    ASSUME TypeInv, UNCHANGED alone, NEW i \in Ids, joinWorkspace(i)
    PROVE  TypeInv'
<1>1. /\ UNCHANGED <<users, used, bridge, roots, preCreated, attempts, inflight, halfway, crashed, deactivated>>
      /\ members' = members \cup {i}
  BY DEF joinWorkspace, Histories
<1>2. Sound
  BY <1>1, NothingTouched
<1>3. RequestsFine'
  BY <1>1, <1>2, SameFine DEF Sound
<1>4. RestFine'
  BY <1>1 DEF TypeInv, RestFine
<1> QED BY <1>2, <1>3, <1>4 DEF Sound, TypeInv

LEMMA TypeInit == Init => TypeInv
<1>1. SUFFICES ASSUME Init PROVE TypeInv
  OBVIOUS
<1>2. NoUser \in UserRow /\ NoUser.email = NoEmail /\ NoUser.root = NoRoot
  BY DEF NoUser, UserRow
<1>3. UsersFine
  BY <1>1, <1>2 DEF Init, UsersFine, Gone
<1>4. AttemptsFine
  BY <1>1 DEF Init, AttemptsFine
<1>5. RootsFine
  BY <1>1, <1>2 DEF Init, RootsFine, FolderRow
<1>6. RestFine
  BY <1>1 DEF Init, RestFine
<1>7. RequestsFine
  BY <1>1, FS_EmptySet DEF Init, RequestsFine
<1> QED BY <1>3, <1>4, <1>5, <1>6, <1>7 DEF TypeInv

\* The statements of the requests at work.
RequestStep(w) ==
    \/ insertUser(w) \/ createInitialFolders(w) \/ getAuthTokens(w) \/ undoSignUp(w)
    \/ replacePreCreatedUser(w) \/ answer(w) \/ insertPreCreated(w)
    \/ changeUserEmailById(w) \/ markVerified(w)
    \/ deactivateUser(w) \/ requestDies(w)

LEMMA StepKinds ==
    ASSUME Step
    PROVE  \/ \E e \in Emails, b \in BOOLEAN : createUser(e, b)
           \/ \E e \in Emails : preCreateUser(e)
           \/ \E i \in Ids : getOrCreateUserRootFolderAndBucket(i) \/ confirmDeactivation(i) \/ joinWorkspace(i)
           \/ \E i \in Ids, e \in Emails : createAttemptChangeEmail(i, e)
           \/ \E a \in DOMAIN attempts : acceptAttemptChangeEmail(a)
           \/ \E w \in inflight : RequestStep(w)
<1>1. CASE \E e \in Emails, k \in BOOLEAN : postUser(e, k) \/ registerPreCreatedUser(e, k)
  BY <1>1 DEF postUser, registerPreCreatedUser
<1>2. CASE \E e \in Emails : postPreCreate(e) \/ getOrPreCreatePublicKeyByEmail(e)
  BY <1>2 DEF postPreCreate, getOrPreCreatePublicKeyByEmail, getOrPreCreateUser
<1>3. CASE \E i \in Ids : \/ refreshToken(i) \/ cliRefresh(i) \/ \E u \in Ids : getCredentialsOf(u, i)
                          \/ joinWorkspace(i) \/ confirmUserDeactivation(i)
                          \/ \E e \in Emails : postAttemptChangeEmail(i, e)
  BY <1>3 DEF refreshToken, cliRefresh, getCredentialsOf, getUserCredentials, confirmUserDeactivation,
      postAttemptChangeEmail
<1>4. CASE \E a \in DOMAIN attempts : acceptAttemptChangeEmailRequest(a)
  BY <1>4 DEF acceptAttemptChangeEmailRequest
<1>5. CASE \E w \in inflight : RequestStep(w)
  BY <1>5
<1> QED BY <1>1, <1>2, <1>3, <1>4, <1>5 DEF Step, RequestStep

LEMMA TypeStep == TypeInv /\ [Next]_accountVars => TypeInv'
<1>1. ASSUME TypeInv, Next PROVE TypeInv'
  <2>1. UNCHANGED alone /\ Step
    BY <1>1 DEF Next
  <2>2. ASSUME NEW w \in inflight, RequestStep(w) PROVE TypeInv'
    BY <1>1, <2>1, <2>2, InsertType, RootsType, SigningUpType, UndoType, ChangeType, AttemptsType,
       DeactivationType, DiesType DEF RequestStep
  <2> QED BY <1>1, <2>1, <2>2, StepKinds, SignUpBegunType, BegunTypes, AttemptsType, JoinType
<1>2. ASSUME TypeInv, UNCHANGED accountVars PROVE TypeInv'
  <2>1. Sound /\ UNCHANGED <<inflight, bridge, preCreated, members, halfway, crashed, deactivated, alone>>
    BY <1>2, NothingTouched DEF accountVars
  <2>2. RequestsFine'
    BY <1>2, <2>1, SameFine DEF Sound
  <2>3. RestFine'
    BY <1>2, <2>1 DEF TypeInv, RestFine, Sound, accountVars
  <2> QED BY <2>1, <2>2, <2>3 DEF Sound, TypeInv
<1> QED BY <1>1, <1>2

----------------------------------------------------------------------------
(* A step for the user i leaves the others as they were.                   *)

SameAttempts ==
    /\ Len(attempts) \in Nat /\ Len(attempts') \in Nat /\ Len(attempts) <= Len(attempts')
    /\ \A a \in 1 .. Len(attempts) : attempts'[a].user = attempts[a].user

LocalRest(i) ==
    /\ \A k \in Ids : \/ bridge'[k] = bridge[k] \/ \A j \in Ids : users[j].account # k
                      \/ bridge[k] # NoEmail /\ i \in Ids /\ ~ Gone(i) /\ users[i].account = k
    /\ \A f \in Roots : roots'[f].live =>
                      \/ roots[f].live /\ roots'[f].owner = roots[f].owner
                      \/ roots'[f].owner = i /\ ~ Gone(i)
    /\ \A j \in Ids : users[j].email \in preCreated' => users[j].email \in preCreated
    /\ crashed \subseteq crashed' /\ halfway \subseteq halfway' /\ SameAttempts

Local(i) ==
    /\ \A j \in Ids : \/ users'[j] = users[j]
                      \/ j = i /\ Gone(j)' /\ ~ Attempted(j)
                      \/ j = i /\ ~ Gone(j) /\ ~ Gone(j)' /\ users'[j].account = users[j].account
    /\ LocalRest(i)

ShakenStays == \A k \in Ids : Shaken(k) => Shaken(k)'

Apart(i) == \A j \in Ids : j # i /\ ~ Gone(j) => Steady(j)

LEMMA GoneIs ==
    ASSUME TypeInv, NEW i \in Ids
    PROVE  Gone(i) <=> users[i].email = NoEmail
BY TableTypes

LEMMA GoneNext ==
    ASSUME TypeInv', NEW i \in Ids
    PROVE  Gone(i)' <=> users'[i].email = NoEmail
BY DEF TypeInv, UsersFine, Gone, NoUser

LEMMA HistoryIds ==
    ASSUME TypeInv
    PROVE  crashed \subseteq Ids /\ deactivated \subseteq Ids
<1>1. used \in Ids \cup {0} /\ used \in Nat
  BY TableTypes
<1>2. Ids = 1 .. Cardinality(Ids) /\ Cardinality(Ids) \in Nat
  BY FS_CardinalityType, UserAccountsConstants DEF UserAccountsConstants
<1>3. 1 .. used \subseteq Ids
  BY <1>1, <1>2
<1> QED BY <1>3 DEF TypeInv, RestFine

LEMMA AttemptedStays ==
    ASSUME SameAttempts, NEW i, Attempted(i)
    PROVE  Attempted(i)'
<1>1. PICK a \in 1 .. Len(attempts) : attempts[a].user = i
  BY DEF Attempted
<1>2. a \in 1 .. Len(attempts') /\ attempts'[a].user = i
  BY <1>1 DEF SameAttempts
<1> QED BY <1>2 DEF Attempted

LEMMA ShakenLasts ==
    ASSUME TypeInv, TypeInv', crashed \subseteq crashed', SameAttempts,
           \A c \in Ids : ~ Gone(c) /\ Attempted(c) => ~ Gone(c)' /\ users'[c].account = users[c].account
    PROVE  ShakenStays
<1>1. SUFFICES ASSUME NEW k \in Ids, Shaken(k) PROVE Shaken(k)'
  BY DEF ShakenStays
<1>2. PICK c \in crashed : users[c].email # NoEmail /\ users[c].account = k /\ Attempted(c)
  BY <1>1 DEF Shaken
<1>3. c \in Ids /\ ~ Gone(c)
  BY <1>2, HistoryIds, GoneIs
<1>4. users'[c].email # NoEmail /\ users'[c].account = k
  BY <1>2, <1>3, GoneNext
<1>5. Attempted(c)'
  BY <1>2, AttemptedStays
<1> QED BY <1>4, <1>5 DEF Shaken

LEMMA LocalShaken ==
    ASSUME TypeInv, TypeInv', NEW i, Local(i)
    PROVE  ShakenStays
<1>1. \A c \in Ids : ~ Gone(c) /\ Attempted(c) => ~ Gone(c)' /\ users'[c].account = users[c].account
  BY DEF Local, Gone
<1> QED BY <1>1, ShakenLasts DEF Local, LocalRest

LEMMA AddressStays ==
    ASSUME ShakenStays, crashed \subseteq crashed', NEW i \in Ids, users[i].account \in Ids, AddressFine(i),
           users'[i].email = users[i].email, users'[i].account = users[i].account,
           bridge'[users[i].account] = bridge[users[i].account]
    PROVE  AddressFine(i)'
<1>1. PICK k \in Ids : k = users[i].account
  OBVIOUS
<1>2. Shaken(k) => Shaken(k)'
  BY DEF ShakenStays
<1>3. IF users[i].email = Renamed THEN bridge[k] = NoEmail
      ELSE bridge[k] = users[i].email \/ Shaken(k) \/ (i \in crashed /\ bridge[k] = NoEmail)
  BY <1>1 DEF AddressFine
<1>4. IF users'[i].email = Renamed THEN bridge'[k] = NoEmail
      ELSE bridge'[k] = users'[i].email \/ Shaken(k)' \/ (i \in crashed' /\ bridge'[k] = NoEmail)
  BY <1>1, <1>2, <1>3
<1>5. users'[i].account = k
  BY <1>1
<1> QED BY <1>4, <1>5 DEF AddressFine

LEMMA ServedStays ==
    ASSUME crashed \subseteq crashed', halfway \subseteq halfway', NEW i \in Ids, Served(i),
           users'[i] = users[i],
           \A f \in Roots : roots'[f].owner = i /\ roots'[f].live => roots[f].owner = i /\ roots[f].live,
           users[i].email \in preCreated' => users[i].email \in preCreated
    PROVE  Served(i)'
<1>1. CASE i \in crashed \/ users[i].email = Renamed
  BY <1>1 DEF Served
<1>2. CASE OnlyRoot(i) /\ Replaced(i)
  <2>1. OnlyRoot(i)'
    BY <1>2 DEF OnlyRoot
  <2>2. Replaced(i)'
    BY <1>2 DEF Replaced
  <2> QED BY <2>1, <2>2 DEF Served
<1> QED BY <1>1, <1>2 DEF Served

\* An account whose address changes and that somebody else has is one that was shaken.
LEMMA LocalApart ==
    ASSUME TypeInv, NEW i, LocalRest(i), ShakenStays, SharedAreShaken, NEW j \in Ids, j # i, users'[j] = users[j],
           ~ Gone(j), Steady(j)
    PROVE  Steady(j)'
<1>1. crashed \subseteq crashed' /\ halfway \subseteq halfway'
  BY DEF LocalRest
<1>2. PICK k \in Ids : k = users[j].account
  BY TableTypes
<1>3. Served(j)'
  <2>1. \A f \in Roots : roots'[f].owner = j /\ roots'[f].live => roots[f].owner = j /\ roots[f].live
    BY DEF LocalRest
  <2>2. users[j].email \in preCreated' => users[j].email \in preCreated
    BY DEF LocalRest
  <2> QED BY <1>1, <2>1, <2>2, ServedStays DEF Steady
<1>4. CASE bridge'[k] = bridge[k]
  <2>1. AddressFine(j)'
    BY <1>1, <1>2, <1>4, AddressStays DEF Steady
  <2> QED BY <1>3, <2>1 DEF Steady
<1>5. CASE bridge'[k] # bridge[k]
  <2>1. bridge[k] # NoEmail /\ i \in Ids /\ ~ Gone(i) /\ users[i].account = k
    BY <1>2, <1>5 DEF LocalRest
  <2>2. Shaken(k)
    BY <1>2, <2>1, GoneIs DEF SharedAreShaken
  <2>3. Shaken(k)'
    BY <1>1, <2>2 DEF ShakenStays
  <2>4. users[j].email # Renamed
    BY <1>2, <2>1 DEF Steady, AddressFine
  <2>5. AddressFine(j)'
    BY <1>2, <2>3, <2>4 DEF AddressFine
  <2> QED BY <1>3, <2>5 DEF Steady
<1> QED BY <1>4, <1>5

LEMMA LocalCalm ==
    ASSUME TypeInv, TypeInv', NEW i, Local(i), SharedAreShaken, Apart(i)
    PROVE  Apart(i)' /\ SharedAreShaken' /\ ShakenStays
<1>1. ShakenStays
  BY LocalShaken
<1>2. Apart(i)'
  <2>1. SUFFICES ASSUME NEW j \in Ids, j # i, ~ Gone(j)' PROVE Steady(j)'
    BY DEF Apart
  <2>2. users'[j] = users[j]
    BY <2>1 DEF Local
  <2>3. ~ Gone(j)
    BY <2>1, <2>2 DEF Gone
  <2> QED BY <1>1, <2>1, <2>2, <2>3, LocalApart DEF Apart, Local
<1>3. SharedAreShaken'
  <2>1. SUFFICES ASSUME NEW j \in Ids, NEW h \in Ids, users'[j].email # NoEmail, users'[h].email # NoEmail, j # h,
                        users'[j].account = users'[h].account
                 PROVE  Shaken(users[j].account)'
    BY DEF SharedAreShaken
  <2>2. \A l \in {j, h} : users'[l].account = users[l].account /\ users[l].email # NoEmail
    <3>1. TAKE l \in {j, h}
    <3>2. ~ Gone(l)'
      BY <2>1, GoneNext
    <3>3. users'[l].account = users[l].account /\ (users'[l] = users[l] \/ ~ Gone(l))
      BY <3>2 DEF Local
    <3>4. ~ Gone(l)
      BY <3>2, <3>3 DEF Gone
    <3> QED BY <3>3, <3>4, GoneIs
  <2>3. PICK k \in Ids : k = users[j].account
    BY <2>2, GoneIs, TableTypes
  <2>4. Shaken(k)
    BY <2>1, <2>2, <2>3 DEF SharedAreShaken
  <2>5. Shaken(k)' /\ users'[j].account = k
    BY <1>1, <2>2, <2>3, <2>4 DEF ShakenStays
  <2> QED BY <2>5 DEF Shaken
<1> QED BY <1>1, <1>2, <1>3

LEMMA LocalDeactivated ==
    ASSUME TypeInv, NEW i, Local(i), DeactivatedGone, UNCHANGED deactivated
    PROVE  DeactivatedGone'
<1>1. SUFFICES ASSUME NEW j \in deactivated PROVE Gone(j)' /\ \A f \in Roots : roots'[f].owner = j => ~ roots'[f].live
  BY DEF DeactivatedGone
<1>2. j \in Ids /\ Gone(j) /\ \A f \in Roots : roots[f].owner = j => ~ roots[f].live
  BY HistoryIds DEF DeactivatedGone
<1>3. Gone(j)'
  BY <1>2 DEF Local, Gone
<1>4. ASSUME NEW f \in Roots, roots'[f].owner = j PROVE ~ roots'[f].live
  BY <1>2, <1>4 DEF Local, LocalRest
<1> QED BY <1>3, <1>4

----------------------------------------------------------------------------
(* What is to be shown of a step.                                          *)

Alone == TypeInv /\ TypeInv' /\ alone /\ UNCHANGED alone /\ Calm

LEMMA BeginCalm ==
    ASSUME Alone, NEW s, Joins(s), Local(s.id), UNCHANGED deactivated, Doing(s)'
    PROVE  Calm'
<1>1. inflight = {} /\ inflight' = {s}
  BY DEF Alone, Joins, Quiet
<1>2. Apart(s.id) /\ SharedAreShaken /\ DeactivatedGone
  BY <1>1, GoneIs DEF Alone, Calm, OthersSteady, Busy, Apart
<1>3. Apart(s.id)' /\ SharedAreShaken' /\ DeactivatedGone'
  BY <1>2, LocalCalm, LocalDeactivated DEF Alone
<1>4. OthersSteady'
  <2>1. SUFFICES ASSUME NEW j \in Ids, users'[j].email # NoEmail, j \notin Busy' PROVE Steady(j)'
    BY DEF OthersSteady
  <2>2. j # s.id
    BY <1>1, <2>1 DEF Busy
  <2>3. ~ Gone(j)'
    BY <2>1, GoneNext DEF Alone
  <2> QED BY <1>3, <2>2, <2>3 DEF Apart
<1>5. OneAtATime' /\ \A v \in inflight' : Doing(v)'
  BY <1>1 DEF OneAtATime
<1> QED BY <1>3, <1>4, <1>5 DEF Calm

LEMMA AtWork ==
    ASSUME Alone, NEW w \in inflight
    PROVE  /\ inflight = {w} /\ Doing(w) /\ SharedAreShaken /\ DeactivatedGone /\ Apart(w.id)
           /\ RequestFine(w) /\ w \in Request /\ TypeInv /\ TypeInv'
<1>1. inflight = {w} /\ Doing(w) /\ SharedAreShaken /\ DeactivatedGone /\ OthersSteady
  BY DEF Alone, Calm, OneAtATime
<1>2. Apart(w.id)
  BY <1>1, GoneIs DEF Alone, OthersSteady, Busy, Apart
<1> QED BY <1>1, <1>2, RequestTypes DEF Alone

LEMMA GoesCalm ==
    ASSUME Alone, NEW w \in inflight, NEW s, Goes(w, s), s.id = w.id, Local(w.id), UNCHANGED deactivated, Doing(s)'
    PROVE  Calm'
<1>1. inflight' = {s}
  BY AtWork DEF Goes
<1>2. Apart(w.id)' /\ SharedAreShaken' /\ DeactivatedGone'
  BY AtWork, LocalCalm, LocalDeactivated
<1>3. OthersSteady'
  <2>1. SUFFICES ASSUME NEW j \in Ids, users'[j].email # NoEmail, j \notin Busy' PROVE Steady(j)'
    BY DEF OthersSteady
  <2>2. j # w.id
    BY <1>1, <2>1 DEF Busy
  <2>3. ~ Gone(j)'
    BY <2>1, GoneNext DEF Alone
  <2> QED BY <1>2, <2>2, <2>3 DEF Apart
<1>4. OneAtATime' /\ \A v \in inflight' : Doing(v)'
  BY <1>1 DEF OneAtATime
<1> QED BY <1>2, <1>3, <1>4 DEF Calm

LEMMA DoneCalm ==
    ASSUME Alone, NEW w \in inflight, Done(w), Local(w.id), DeactivatedGone',
           w.id \in Ids => Gone(w.id)' \/ Steady(w.id)'
    PROVE  Calm'
<1>1. inflight' = {}
  BY AtWork DEF Done
<1>2. Apart(w.id)' /\ SharedAreShaken'
  BY AtWork, LocalCalm
<1>3. OthersSteady'
  <2>1. SUFFICES ASSUME NEW j \in Ids, users'[j].email # NoEmail PROVE Steady(j)'
    BY DEF OthersSteady
  <2>2. ~ Gone(j)'
    BY <2>1, GoneNext DEF Alone
  <2> QED BY <1>2, <2>2 DEF Apart
<1>4. OneAtATime' /\ \A v \in inflight' : Doing(v)'
  BY <1>1 DEF OneAtATime
<1> QED BY <1>2, <1>3, <1>4 DEF Calm

----------------------------------------------------------------------------
(* Requests one at a time: the requests that are begun.                    *)

LEMMA AttemptsSame ==
    ASSUME TypeInv, UNCHANGED attempts
    PROVE  SameAttempts
BY TableTypes DEF SameAttempts

LEMMA NothingLocal ==
    ASSUME TypeInv, NEW i, UNCHANGED <<users, roots, bridge>>, SameAttempts,
           preCreated' \subseteq preCreated, crashed \subseteq crashed', halfway \subseteq halfway'
    PROVE  Local(i)
BY DEF Local, LocalRest

\* What a step that changes no table keeps.
LEMMA SteadyStays ==
    ASSUME TypeInv, ShakenStays, NEW i \in Ids, ~ Gone(i), Steady(i), users'[i] = users[i],
           UNCHANGED <<roots, bridge>>, preCreated' \subseteq preCreated, crashed \subseteq crashed', halfway \subseteq halfway'
    PROVE  Steady(i)'
<1>1. users[i].account \in Ids
  BY TableTypes
<1>2. AddressFine(i)'
  BY <1>1, AddressStays DEF Steady
<1>3. Served(i)'
  BY ServedStays DEF Steady
<1> QED BY <1>2, <1>3 DEF Steady

LEMMA IdleSteady ==
    ASSUME Alone, NEW s, Joins(s), NEW i \in Ids, ~ Gone(i)
    PROVE  Steady(i)
<1>1. inflight = {}
  BY DEF Alone, Joins, Quiet
<1> QED BY <1>1, GoneIs DEF Alone, Calm, OthersSteady, Busy

LEMMA SignUpBegunCalm ==
    ASSUME Alone, NEW e \in Emails, NEW b \in BOOLEAN, createUser(e, b)
    PROVE  Calm'
<1>1. PICK k \in networkAccount(e) : \E s :
              /\ Free(e) /\ bridge' = [bridge EXCEPT ![k] = e] /\ UNCHANGED <<rows, others>>
              /\ Joins(s) /\ s.op = "insertUser" /\ s.id = 0 /\ s.root = NoRoot
              /\ s.email = e /\ s.account = k /\ s.signUp
  BY SignUpBegins
<1>2. PICK s : /\ Free(e) /\ bridge' = [bridge EXCEPT ![k] = e] /\ UNCHANGED <<rows, others>>
               /\ Joins(s) /\ s.op = "insertUser" /\ s.id = 0 /\ s.root = NoRoot
               /\ s.email = e /\ s.account = k /\ s.signUp
  BY <1>1
<1>3. TypeInv /\ TypeInv' /\ UNCHANGED <<users, used, roots, attempts>> /\ UNCHANGED others
  BY <1>2 DEF Alone, rows
<1>4. k \in Ids /\ (bridge[k] = e \/ (bridge[k] = NoEmail /\ \A i \in Ids : users[i].account # k))
  <2>1. CASE \E j \in Ids : bridge[j] = e
    BY <2>1 DEF networkAccount
  <2>2. CASE ~ \E j \in Ids : bridge[j] = e
    BY <2>2 DEF networkAccount
  <2> QED BY <2>1, <2>2
<1>5. \A j \in Ids : bridge'[j] = IF j = k THEN e ELSE bridge[j]
  BY <1>2, <1>3, <1>4, TableTypes
<1>6. Local(s.id)
  <2>1. SameAttempts
    BY <1>3, AttemptsSame
  <2>2. \A j \in Ids : bridge'[j] = bridge[j] \/ \A i \in Ids : users[i].account # j
    BY <1>4, <1>5
  <2> QED BY <1>3, <2>1, <2>2 DEF Local, LocalRest, others
<1>7. ShakenStays
  BY <1>3, <1>6, LocalShaken
<1>8. \A i \in Ids : users[i].email # NoEmail /\ users[i].account = k => Shaken(k)'
  <2>1. SUFFICES ASSUME NEW i \in Ids, users[i].email # NoEmail, users[i].account = k PROVE Shaken(k)'
    OBVIOUS
  <2>2. bridge[k] = e /\ users[i].email # e /\ e # NoEmail
    BY <1>2, <1>4, <2>1, NoAddress DEF Free
  <2>3. AddressFine(i)
    BY <1>2, <1>3, <2>1, IdleSteady, GoneIs DEF Steady
  <2>4. Shaken(k)
    BY <2>1, <2>2, <2>3 DEF AddressFine
  <2> QED BY <1>4, <1>7, <2>4 DEF ShakenStays
<1>9. Doing(s)'
  <2>1. Free(s.email)' /\ bridge'[s.account] = s.email
    BY <1>2, <1>3, <1>4, <1>5 DEF Free
  <2>2. \A i \in Ids : users'[i].email # NoEmail /\ users'[i].account = s.account => Shaken(s.account)'
    BY <1>2, <1>3, <1>8 DEF Shaken
  <2> QED BY <1>2, <2>1, <2>2 DEF Doing, LeaveOps
<1> QED BY <1>2, <1>3, <1>6, <1>9, BeginCalm DEF others

LEMMA PreCreatingBegunCalm ==
    ASSUME Alone, NEW e \in Emails, preCreateUser(e)
    PROVE  Calm'
<1>1. PICK s : /\ Free(e) /\ UNCHANGED <<rows, others, bridge>>
               /\ Joins(s) /\ s.op = "insertPreCreated" /\ s.email = e
  BY PreCreatingBegins
<1>2. TypeInv /\ UNCHANGED <<users, used, roots, attempts, bridge>> /\ UNCHANGED others
  BY <1>1 DEF Alone, rows
<1>3. Local(s.id)
  BY <1>2, AttemptsSame, NothingLocal DEF others
<1>4. Doing(s)'
  BY <1>1, <1>2 DEF Doing, LeaveOps, Free
<1> QED BY <1>1, <1>2, <1>3, <1>4, BeginCalm DEF others

LEMMA MendingBegunCalm ==
    ASSUME Alone, NEW i \in Ids, getOrCreateUserRootFolderAndBucket(i)
    PROVE  Calm'
<1>0. TypeInv
  BY DEF Alone
<1>1. PICK s : /\ ~ Gone(i) /\ users[i].email # Renamed /\ users[i].root = NoRoot
               /\ UNCHANGED <<rows, others, bridge>>
               /\ Joins(s) /\ s.op = "createRoot" /\ s.id = i /\ s.root = NoRoot /\ ~ s.signUp
  BY <1>0, MendingBegins
<1>2. TypeInv /\ TypeInv' /\ UNCHANGED <<users, used, roots, attempts, bridge>> /\ UNCHANGED others
  BY <1>1 DEF Alone, rows
<1>3. Local(s.id)
  BY <1>2, AttemptsSame, NothingLocal DEF others
<1>4. Steady(i)
  BY <1>1, IdleSteady
<1>5. i \in crashed /\ users[i].email # NoEmail
  BY <1>1, <1>2, <1>4, GoneIs DEF Steady, Served, OnlyRoot
<1>6. AddressFine(i)'
  <2>1. ShakenStays
    BY <1>2, <1>3, LocalShaken
  <2> QED BY <1>1, <1>2, <1>4, <2>1, TableTypes, AddressStays DEF Steady, others
<1>7. Mending(s)'
  BY <1>1, <1>2, <1>5, <1>6 DEF Mending, others
<1>8. Doing(s)'
  BY <1>1, <1>7 DEF Doing, LeaveOps
<1> QED BY <1>1, <1>2, <1>3, <1>8, BeginCalm DEF others

LEMMA ChangeBegunCalm ==
    ASSUME Alone, NEW a \in DOMAIN attempts, acceptAttemptChangeEmail(a)
    PROVE  Calm'
<1>0. TypeInv
  BY DEF Alone
<1>1. PICK i \in Ids : \E s :
              /\ i = attempts[a].user /\ a \in 1 .. Len(attempts) /\ ~ Gone(i) /\ UNCHANGED <<rows, others, bridge>>
              /\ Joins(s) /\ s.op = "changeAtBridge" /\ s.id = i /\ s.root = NoRoot
              /\ s.attempt = a /\ s.account = users[i].account /\ s.old = users[i].email
  BY <1>0, ChangeBegins
<1>2. PICK s : /\ i = attempts[a].user /\ a \in 1 .. Len(attempts) /\ ~ Gone(i) /\ UNCHANGED <<rows, others, bridge>>
               /\ Joins(s) /\ s.op = "changeAtBridge" /\ s.id = i /\ s.root = NoRoot
               /\ s.attempt = a /\ s.account = users[i].account /\ s.old = users[i].email
  BY <1>1
<1>3. TypeInv /\ TypeInv' /\ UNCHANGED <<users, used, roots, attempts, bridge>> /\ UNCHANGED others
  BY <1>2 DEF Alone, rows
<1>4. Local(s.id)
  BY <1>3, AttemptsSame, NothingLocal DEF others
<1>5. ShakenStays /\ Steady(i)
  BY <1>2, <1>3, <1>4, LocalShaken, IdleSteady
<1>6. Steady(i)'
  BY <1>2, <1>3, <1>5, SteadyStays DEF others
<1>7. Changing(s)' /\ AddressFine(s.id)'
  BY <1>2, <1>3, <1>6, GoneIs DEF Changing, Steady, AddressFine, Shaken, Attempted
<1>8. Doing(s)'
  BY <1>2, <1>7 DEF Doing, LeaveOps
<1> QED BY <1>2, <1>3, <1>4, <1>8, BeginCalm DEF others

LEMMA LeavingBegunCalm ==
    ASSUME Alone, NEW i \in Ids, confirmDeactivation(i)
    PROVE  Calm'
<1>0. TypeInv
  BY DEF Alone
<1>1. PICK s : /\ ~ Gone(i) /\ users[i].email \in Emails /\ bridge[users[i].account] = users[i].email
               /\ bridge' = [bridge EXCEPT ![users[i].account] = NoEmail] /\ UNCHANGED <<rows, others>>
               /\ Joins(s) /\ s.op = "detachRoot" /\ s.id = i /\ s.root = NoRoot
  BY <1>0, LeavingBegins
<1>2. TypeInv /\ TypeInv' /\ UNCHANGED <<users, used, roots, attempts>> /\ UNCHANGED others
  BY <1>1 DEF Alone, rows
<1>3. PICK k \in Ids : k = users[i].account
  BY <1>1, <1>2, TableTypes
<1>4. \A j \in Ids : bridge'[j] = IF j = k THEN NoEmail ELSE bridge[j]
  BY <1>1, <1>2, <1>3, TableTypes
<1>5. bridge[k] # NoEmail
  BY <1>1, <1>3, NoAddress
<1>6. Local(s.id)
  <2>1. SameAttempts
    BY <1>2, AttemptsSame
  <2>2. \A j \in Ids : bridge'[j] = bridge[j] \/ (bridge[j] # NoEmail /\ i \in Ids /\ ~ Gone(i) /\ users[i].account = j)
    BY <1>1, <1>3, <1>4, <1>5
  <2>3. s.id = i
    BY <1>1
  <2> QED BY <1>2, <2>1, <2>2, <2>3 DEF Local, LocalRest, others
<1>7. Left(s)'
  BY <1>1, <1>2, <1>3, <1>4, GoneIs DEF Left
<1>8. Doing(s)'
  BY <1>1, <1>7 DEF Doing, LeaveOps
<1> QED BY <1>1, <1>2, <1>6, <1>8, BeginCalm DEF others

\* Without a request.
LEMMA TablesCalm ==
    ASSUME Alone,
           \/ \E i \in Ids : joinWorkspace(i)
           \/ \E i \in Ids, e \in Emails : createAttemptChangeEmail(i, e)
    PROVE  Calm'
<1>0. TypeInv /\ TypeInv'
  BY DEF Alone
<1>1. /\ UNCHANGED <<users, used, roots, bridge, inflight, preCreated, halfway, crashed, deactivated>>
      /\ SameAttempts /\ inflight = {}
  <2>1. ASSUME NEW i \in Ids, joinWorkspace(i)
        PROVE  /\ UNCHANGED <<users, used, roots, bridge, inflight, preCreated, halfway, crashed, deactivated>>
               /\ SameAttempts /\ inflight = {}
    BY <1>0, <2>1, AttemptsSame DEF joinWorkspace, Histories, Quiet, Alone
  <2>2. ASSUME NEW i \in Ids, NEW e \in Emails, createAttemptChangeEmail(i, e)
        PROVE  /\ UNCHANGED <<users, used, roots, bridge, inflight, preCreated, halfway, crashed, deactivated>>
               /\ SameAttempts /\ inflight = {}
    <3>1. /\ UNCHANGED <<users, used, roots, bridge, others, inflight>> /\ (alone => inflight = {})
          /\ Len(attempts') = Len(attempts) + 1 /\ \A a \in 1 .. Len(attempts) : attempts'[a].user = attempts[a].user
      BY <1>0, <2>2, AttemptDoes
    <3>2. SameAttempts
      BY <1>0, <3>1, TableTypes DEF SameAttempts
    <3> QED BY <3>1, <3>2 DEF others, Alone
  <2> QED BY <2>1, <2>2
<1>2. Local(0)
  BY <1>0, <1>1, NothingLocal
<1>3. Apart(0) /\ SharedAreShaken /\ DeactivatedGone
  BY <1>0, <1>1, GoneIs DEF Alone, Calm, OthersSteady, Busy, Apart
<1>4. Apart(0)' /\ SharedAreShaken' /\ DeactivatedGone'
  BY <1>0, <1>1, <1>2, <1>3, LocalCalm, LocalDeactivated
<1>5. OthersSteady'
  <2>1. SUFFICES ASSUME NEW j \in Ids, users'[j].email # NoEmail PROVE Steady(j)'
    BY DEF OthersSteady
  <2>2. ~ Gone(j)' /\ j # 0
    BY <1>0, <2>1, GoneNext, Numbered
  <2> QED BY <1>4, <2>2 DEF Apart
<1>6. OneAtATime' /\ \A v \in inflight' : Doing(v)'
  BY <1>1 DEF OneAtATime
<1> QED BY <1>4, <1>5, <1>6 DEF Calm

----------------------------------------------------------------------------
(* Requests one at a time: the statements of a sign-up.                    *)

LEMMA InsertCalm ==
    ASSUME Alone, NEW w \in inflight, insertUser(w)
    PROVE  Calm'
<1>0. /\ TypeInv /\ TypeInv' /\ inflight = {w} /\ Doing(w) /\ SharedAreShaken /\ DeactivatedGone /\ Apart(w.id)
      /\ RequestFine(w) /\ w \in Request
  BY AtWork
<1>1. /\ w.op = "insertUser" /\ w.id = 0 /\ w.account \in Ids /\ UNCHANGED <<bridge, roots, attempts, others>>
  BY <1>0, InsertDoes
<1>2. /\ w.signUp /\ bridge[w.account] = w.email
      /\ \A i \in Ids : users[i].email # NoEmail /\ users[i].account = w.account => Shaken(w.account)
  BY <1>0, <1>1 DEF Doing
<1>3. SameAttempts /\ LocalRest(0)
  <2>1. SameAttempts
    BY <1>0, <1>1, AttemptsSame
  <2> QED BY <1>1, <2>1 DEF LocalRest, others
<1>4. CASE Done(w) /\ UNCHANGED rows
  <2>1. Local(w.id) /\ DeactivatedGone'
    BY <1>0, <1>1, <1>3, <1>4, NothingLocal, LocalDeactivated DEF others, rows
  <2>2. w.id \notin Ids
    BY <1>1, Numbered
  <2> QED BY <1>4, <2>1, <2>2, DoneCalm
<1>5. ASSUME Free(w.email), used + 1 \in Ids, used' = used + 1, Touches(used + 1),
             users'[used + 1].email = w.email, users'[used + 1].account = w.account,
             users'[used + 1].root = NoRoot, users'[used + 1].keys = w.keys,
             NEW s, Going(w, s, "createRoot", used + 1, NoRoot)
      PROVE  Calm'
  <2>0. PICK n \in Ids : n = used + 1
    BY <1>5
  <2>1. /\ inflight' = {s} /\ s.id = n /\ s.email = w.email /\ s.keys = w.keys /\ s.signUp
        /\ s.op = "createRoot" /\ s.root = NoRoot
    BY <1>0, <1>2, <1>5, <2>0 DEF Going, Goes, Alike
  <2>2. \A j \in Ids : j # n => users'[j] = users[j]
    BY <1>5, <2>0 DEF Touches
  <2>3. Gone(n) /\ used \in Nat
    <3>1. ~ n <= used /\ used \in Nat
      BY <1>0, <2>0, TableTypes
    <3> QED BY <1>0, <3>1, TableTypes
  <2>4. ShakenStays
    <3>1. \A c \in Ids : ~ Gone(c) => ~ Gone(c)' /\ users'[c].account = users[c].account
      BY <2>2, <2>3 DEF Gone
    <3> QED BY <1>0, <1>1, <1>3, <3>1, ShakenLasts DEF others
  <2>5. w.email # NoEmail /\ users'[n].email = w.email /\ users'[n].account = w.account /\ ~ Gone(n)'
    BY <1>0, <1>5, <2>0, RequestTypes, NoAddress, GoneNext
  <2>6. \A j \in Ids : j # n /\ ~ Gone(j)' => Steady(j)'
    <3>1. TAKE j \in Ids
    <3>2. HAVE j # n /\ ~ Gone(j)'
    <3>3. users'[j] = users[j] /\ ~ Gone(j) /\ j # 0
      BY <2>2, <3>2, Numbered DEF Gone
    <3>4. Steady(j)
      BY <1>0, <1>1, <3>3 DEF Apart
    <3> QED BY <1>0, <1>3, <2>4, <3>3, <3>4, LocalApart
  <2>7. OthersSteady'
    <3>1. SUFFICES ASSUME NEW j \in Ids, users'[j].email # NoEmail, j \notin Busy' PROVE Steady(j)'
      BY DEF OthersSteady
    <3>2. j # n
      BY <2>1, <3>1 DEF Busy
    <3> QED BY <1>0, <2>6, <3>1, <3>2, GoneNext
  <2>8. SharedAreShaken'
    <3>1. SUFFICES ASSUME NEW i \in Ids, NEW j \in Ids, users'[i].email # NoEmail, users'[j].email # NoEmail,
                          i # j, users'[i].account = users'[j].account
                   PROVE  Shaken(users[i].account)'
      BY DEF SharedAreShaken
    <3>2. \A l \in Ids : l # n /\ users'[l].email # NoEmail => users'[l].account = users[l].account /\ users[l].email # NoEmail
      BY <2>2
    <3>3. CASE i # n /\ j # n
      <4>1. PICK k \in Ids : k = users[i].account
        BY <1>0, <3>1, <3>2, <3>3, GoneIs, TableTypes
      <4>2. Shaken(k)
        BY <3>1, <3>2, <3>3, <4>1, <1>0 DEF SharedAreShaken
      <4>3. Shaken(k)' /\ users'[i].account = k
        BY <2>4, <3>1, <3>2, <3>3, <4>1, <4>2 DEF ShakenStays
      <4> QED BY <4>3 DEF Shaken
    <3>4. CASE i = n \/ j = n
      <4>1. PICK l \in {i, j} : l # n
        BY <3>1, <3>4
      <4>2. users[l].email # NoEmail /\ users[l].account = w.account /\ users'[i].account = w.account
        BY <2>5, <3>1, <3>2, <3>4, <4>1
      <4>3. Shaken(w.account)'
        BY <1>1, <1>2, <2>4, <4>1, <4>2 DEF ShakenStays
      <4> QED BY <4>2, <4>3 DEF Shaken
    <3> QED BY <3>3, <3>4
  <2>9. DeactivatedGone'
    <3>1. SUFFICES ASSUME NEW j \in deactivated PROVE Gone(j)' /\ \A f \in Roots : roots[f].owner = j => ~ roots[f].live
      BY <1>1 DEF DeactivatedGone, others
    <3>2. j \in Ids /\ j <= used /\ Gone(j)
      BY <1>0, HistoryIds DEF DeactivatedGone, TypeInv, RestFine
    <3>3. j # n
      BY <2>0, <2>3, <3>2, Numbered
    <3> QED BY <1>0, <2>2, <3>2, <3>3 DEF DeactivatedGone, Gone
  <2>10. Doing(s)'
    <3>1. ~ Attempted(n)'
      <4>1. SUFFICES ASSUME NEW a \in 1 .. Len(attempts), attempts[a].user = n PROVE FALSE
        BY <1>1 DEF Attempted
      <4>2. n <= used
        BY <1>0, <4>1, AttemptTypes
      <4> QED BY <2>0, <2>3, <4>2
    <3>2. HasRoots(s, {})'
      <4>1. SUFFICES ASSUME NEW f \in Roots, roots[f].owner = n PROVE FALSE
        BY <1>1, <2>1 DEF HasRoots
      <4>2. n <= used
        BY <1>0, <4>1 DEF TypeInv, RootsFine
      <4> QED BY <2>0, <2>3, <4>2
    <3>3. Fresh(s)'
      BY <1>1, <1>2, <1>5, <2>0, <2>1, <2>5, <3>1 DEF Fresh
    <3> QED BY <2>1, <3>2, <3>3 DEF Doing, LeaveOps
  <2>11. OneAtATime' /\ \A v \in inflight' : Doing(v)'
    BY <2>1, <2>10 DEF OneAtATime
  <2> QED BY <2>7, <2>8, <2>9, <2>11 DEF Calm
<1> QED BY <1>0, <1>4, <1>5, InsertDoes

\* The row of a sign-up is its own and has no attempts.
LEMMA FreshStays ==
    ASSUME Alone, NEW w \in inflight, Fresh(w), NEW s, Going(w, s, s.op, w.id, s.root),
           w.id \in Ids, users'[w.id].email = users[w.id].email, users'[w.id].account = users[w.id].account,
           users'[w.id].keys = users[w.id].keys, UNCHANGED <<bridge, attempts>>
    PROVE  Fresh(s)'
<1>1. s.id = w.id /\ s.email = w.email /\ s.keys = w.keys
  BY DEF Going, Alike
<1>2. ~ Attempted(w.id)'
  BY DEF Fresh, Attempted
<1> QED BY <1>1, <1>2 DEF Fresh

\* A request that only mended the root folder of an account leaves the account as it was.
LEMMA MendingStays ==
    ASSUME TypeInv, ShakenStays, crashed \subseteq crashed', NEW w, w.id \in Ids, Mending(w),
           users'[w.id].email = users[w.id].email, users'[w.id].account = users[w.id].account, UNCHANGED bridge
    PROVE  w.id \in crashed' /\ users'[w.id].email # NoEmail /\ AddressFine(w.id)' /\ Steady(w.id)'
<1>1. w.id \in crashed' /\ users'[w.id].email # NoEmail
  BY DEF Mending
<1>2. users[w.id].account \in Ids
  BY GoneIs, TableTypes DEF Mending
<1>3. AddressFine(w.id)'
  BY <1>2, AddressStays DEF Mending
<1> QED BY <1>1, <1>3 DEF Steady, Served

LEMMA FreshThere ==
    ASSUME TypeInv, NEW w \in inflight, w.id \in Ids, Fresh(w)
    PROVE  ~ Gone(w.id) /\ AddressFine(w.id) /\ users[w.id].email \in Emails
<1>1. w.email \in Emails /\ w.email # NoEmail /\ w.email # Renamed
  BY RequestTypes, NoAddress
<1>2. ~ Gone(w.id) /\ users[w.id].email \in Emails
  BY <1>1, GoneIs DEF Fresh
<1>3. AddressFine(w.id)
  BY <1>1 DEF Fresh, AddressFine
<1> QED BY <1>2, <1>3

\* Only the row of i changes, and nothing else that others count on.
LEMMA RowLocal ==
    ASSUME TypeInv, NEW i \in Ids, Touches(i), UNCHANGED <<bridge, roots, attempts, preCreated>>,
           crashed \subseteq crashed', halfway \subseteq halfway',
           \/ Gone(i)' /\ ~ Attempted(i)
           \/ ~ Gone(i) /\ ~ Gone(i)' /\ users'[i].account = users[i].account
    PROVE  Local(i)
<1>1. SameAttempts
  BY AttemptsSame
<1>2. LocalRest(i)
  BY <1>1 DEF LocalRest
<1> QED BY <1>2 DEF Local, Touches

LEMMA RootsCalm ==
    ASSUME Alone, NEW w \in inflight, createInitialFolders(w)
    PROVE  Calm'
<1>0. /\ TypeInv /\ TypeInv' /\ inflight = {w} /\ Doing(w) /\ SharedAreShaken /\ DeactivatedGone
      /\ RequestFine(w) /\ w \in Request
  BY AtWork
<1>1. /\ w.id \in Ids /\ w.op \in {"createRoot", "linkRoot"} /\ crashed \subseteq crashed' /\ halfway \subseteq halfway'
      /\ UNCHANGED <<used, bridge, attempts, preCreated, crashed, deactivated>>
  BY <1>0, RootsDoes
<1>2. IF w.signUp THEN Fresh(w) ELSE Mending(w)
  BY <1>0, <1>1 DEF Doing
<1>3. ~ Gone(w.id) /\ users[w.id] \in UserRow /\ users[w.id].account \in Ids
  BY <1>0, <1>1, <1>2, FreshThere, GoneIs, TableTypes DEF Mending
<1>4. ASSUME Local(w.id), users'[w.id].email = users[w.id].email, users'[w.id].account = users[w.id].account
      PROVE  ~ w.signUp => /\ w.id \in crashed' /\ users'[w.id].email # NoEmail /\ AddressFine(w.id)'
                           /\ Steady(w.id)'
  BY <1>0, <1>1, <1>2, <1>4, LocalShaken, MendingStays
<1>5. ASSUME UNCHANGED <<users, roots>>, (w.signUp /\ \E s : Going(w, s, "deleteUser", w.id, NoRoot)) \/ (~ w.signUp /\ Done(w))
      PROVE  Calm'
  <2>1. Local(w.id) /\ DeactivatedGone'
    BY <1>0, <1>1, <1>5, AttemptsSame, NothingLocal, LocalDeactivated
  <2>2. CASE ~ w.signUp /\ Done(w)
    BY <1>4, <1>5, <2>1, <2>2, DoneCalm
  <2>3. ASSUME w.signUp, NEW s, Going(w, s, "deleteUser", w.id, NoRoot) PROVE Calm'
    <3>1. s.op = "deleteUser" /\ s.id = w.id /\ Goes(w, s) /\ Going(w, s, s.op, w.id, s.root)
      BY <2>3 DEF Going
    <3>2. Fresh(s)'
      BY <1>1, <1>2, <1>5, <2>3, <3>1, FreshStays
    <3>3. Doing(s)'
      BY <3>1, <3>2 DEF Doing, LeaveOps
    <3> QED BY <1>1, <2>1, <3>1, <3>3, GoesCalm
  <2> QED BY <1>5, <2>2, <2>3
<1>6. ASSUME w.op = "createRoot", UNCHANGED users, NEW f \in Roots, roots[f].owner = 0,
             roots' = [roots EXCEPT ![f] = [owner |-> w.id, live |-> TRUE]],
             UNCHANGED halfway, NEW s, Going(w, s, "linkRoot", w.id, f)
      PROVE  Calm'
  <2>1. s.op = "linkRoot" /\ s.id = w.id /\ s.root = f /\ Goes(w, s) /\ Going(w, s, s.op, w.id, s.root) /\ s.signUp = w.signUp
    BY <1>6 DEF Going, Alike
  <2>2. \A g \in Roots : roots'[g] = IF g = f THEN [owner |-> w.id, live |-> TRUE] ELSE roots[g]
    BY <1>0, <1>6, TableTypes
  <2>3. Local(w.id)
    <3>1. SameAttempts
      BY <1>0, <1>1, AttemptsSame
    <3>2. \A g \in Roots : roots'[g].live => \/ roots[g].live /\ roots'[g].owner = roots[g].owner
                                             \/ roots'[g].owner = w.id /\ ~ Gone(w.id)
      BY <1>3, <2>2
    <3> QED BY <1>1, <1>6, <3>1, <3>2 DEF Local, LocalRest
  <2>4. CASE w.signUp
    <3>1. Fresh(s)'
      BY <1>1, <1>2, <1>6, <2>1, <2>4, FreshStays
    <3>2. HasRoots(s, {s.root})'
      <4>1. SUFFICES ASSUME NEW g \in Roots, roots'[g].owner = w.id PROVE g = f
        BY <2>1 DEF HasRoots
      <4>2. roots[g].owner # w.id
        BY <1>0, <1>6, <2>4 DEF Doing, HasRoots
      <4> QED BY <2>2, <4>1, <4>2
    <3>3. Doing(s)'
      BY <2>1, <2>4, <3>1, <3>2 DEF Doing, LeaveOps
    <3> QED BY <1>1, <2>1, <2>3, <3>3, GoesCalm
  <2>5. CASE ~ w.signUp
    <3>1. Mending(s)'
      BY <1>4, <1>6, <2>1, <2>3, <2>5 DEF Mending, AddressFine, Shaken, Attempted
    <3>2. Doing(s)'
      BY <2>1, <2>5, <3>1 DEF Doing, LeaveOps
    <3> QED BY <1>1, <2>1, <2>3, <3>2, GoesCalm
  <2> QED BY <2>4, <2>5
<1>7. ASSUME w.op = "linkRoot", UNCHANGED <<roots, halfway>>, Touches(w.id),
             users'[w.id] = [users[w.id] EXCEPT !.root = w.root],
             NEW s, Going(w, s, IF w.signUp THEN "getTokens" ELSE "answer", w.id, w.root)
      PROVE  Calm'
  <2>1. /\ s.op = (IF w.signUp THEN "getTokens" ELSE "answer") /\ s.id = w.id /\ Goes(w, s)
        /\ Going(w, s, s.op, w.id, s.root) /\ s.signUp = w.signUp
    BY <1>7 DEF Going, Alike
  <2>2. /\ users'[w.id].email = users[w.id].email /\ users'[w.id].account = users[w.id].account
        /\ users'[w.id].keys = users[w.id].keys /\ users'[w.id].root = w.root
    BY <1>3, <1>7 DEF UserRow
  <2>3. ~ Gone(w.id)'
    BY <1>0, <1>1, <1>3, <2>2, GoneIs, GoneNext
  <2>4. Local(w.id)
    BY <1>0, <1>1, <1>3, <1>7, <2>2, <2>3, RowLocal
  <2>5. CASE w.signUp
    <3>1. Fresh(s)'
      BY <1>1, <1>2, <2>1, <2>2, <2>5, FreshStays
    <3>2. w.root # NoRoot /\ HasRoots(w, {w.root})
      BY <1>0, <1>7, <2>5 DEF Doing, RequestFine
    <3>3. HasRoots(s, {users[s.id].root})'
      BY <1>7, <2>1, <2>2, <3>2 DEF HasRoots
    <3>4. Doing(s)'
      BY <2>1, <2>2, <2>5, <3>1, <3>2, <3>3 DEF Doing, LeaveOps, Rooted
    <3> QED BY <1>1, <2>1, <2>4, <3>4, GoesCalm
  <2>6. CASE ~ w.signUp
    <3>1. Steady(s.id)'
      BY <1>4, <2>1, <2>2, <2>4, <2>6
    <3>2. Doing(s)'
      BY <2>1, <2>6, <3>1 DEF Doing, LeaveOps
    <3> QED BY <1>1, <2>1, <2>4, <3>2, GoesCalm
  <2> QED BY <2>5, <2>6
<1> QED BY <1>0, <1>3, <1>5, <1>6, <1>7, RootsDoes

LEMMA RootedSteady ==
    ASSUME TypeInv, NEW w \in inflight, w.id \in Ids, Rooted(w), ~ w.keys \/ w.email \notin preCreated
    PROVE  Steady(w.id)
<1>1. Fresh(w) /\ AddressFine(w.id)
  BY FreshThere DEF Rooted
<1>2. OnlyRoot(w.id)
  BY DEF Rooted, OnlyRoot, HasRoots
<1>3. Replaced(w.id)
  BY <1>1 DEF Fresh, Replaced
<1> QED BY <1>1, <1>2, <1>3 DEF Steady, Served

LEMMA TokensCalm ==
    ASSUME Alone, NEW w \in inflight, getAuthTokens(w)
    PROVE  Calm'
<1>0. /\ TypeInv /\ TypeInv' /\ DeactivatedGone /\ w \in Request /\ w.id \in Ids /\ w.root \in Roots \cup {NoRoot}
  BY AtWork, RequestTypes DEF getAuthTokens, StartOps
<1>1. w.op = "getTokens" /\ UNCHANGED <<users, used, bridge, roots, preCreated, attempts, halfway, crashed, deactivated>>
  BY DEF getAuthTokens, Others, Histories
<1>2. Rooted(w) /\ Fresh(w) /\ w.signUp
  BY <1>1, AtWork DEF Doing, Rooted
<1>3. Local(w.id)
  BY <1>0, <1>1, AttemptsSame, NothingLocal
<1>4. ASSUME NEW s, Going(w, s, "deleteUser", w.id, w.root) PROVE Calm'
  <2>1. s.op = "deleteUser" /\ s.id = w.id /\ Goes(w, s) /\ Going(w, s, s.op, w.id, s.root)
    BY <1>4 DEF Going
  <2>2. Fresh(s)'
    BY <1>0, <1>1, <1>2, <2>1, FreshStays
  <2>3. Doing(s)'
    BY <2>1, <2>2 DEF Doing, LeaveOps
  <2> QED BY <1>1, <1>3, <2>1, <2>3, GoesCalm
<1>5. ASSUME NEW s, Going(w, s, "replacePreCreated", w.id, w.root) PROVE Calm'
  <2>1. s.op = "replacePreCreated" /\ s.id = w.id /\ s.signUp /\ Goes(w, s) /\ Going(w, s, s.op, w.id, s.root)
    BY <1>2, <1>5 DEF Going, Alike
  <2>2. Fresh(s)'
    BY <1>0, <1>1, <1>2, <2>1, FreshStays
  <2>3. Rooted(s)'
    BY <1>1, <1>2, <2>1, <2>2 DEF Rooted, HasRoots
  <2>4. Doing(s)'
    BY <2>1, <2>3 DEF Doing, LeaveOps
  <2> QED BY <1>1, <1>3, <2>1, <2>4, GoesCalm
<1>6. ASSUME ~ w.keys, NEW s, Going(w, s, "answer", w.id, w.root) PROVE Calm'
  <2>1. s.op = "answer" /\ s.id = w.id /\ Goes(w, s)
    BY <1>6 DEF Going
  <2>2. Steady(w.id) /\ ~ Gone(w.id) /\ ShakenStays
    BY <1>0, <1>2, <1>3, <1>6, RootedSteady, FreshThere, LocalShaken
  <2>3. Steady(w.id)'
    BY <1>0, <1>1, <2>2, SteadyStays
  <2>4. Doing(s)'
    BY <2>1, <2>3 DEF Doing, LeaveOps
  <2> QED BY <1>1, <1>3, <2>1, <2>4, GoesCalm
<1>7. {"replacePreCreated", "answer"} \subseteq Ops
  BY DEF Ops
<1>8. CASE Goes(w, [w EXCEPT !.op = IF w.keys THEN "replacePreCreated" ELSE "answer"])
  <2>1. CASE w.keys
    <3>1. \E s : Going(w, s, "replacePreCreated", w.id, w.root)
      BY <1>0, <1>7, <1>8, <2>1, GoesWithOp
    <3> QED BY <1>5, <3>1
  <2>2. CASE ~ w.keys
    <3>1. \E s : Going(w, s, "answer", w.id, w.root)
      BY <1>0, <1>7, <1>8, <2>2, GoesWithOp
    <3> QED BY <1>6, <2>2, <3>1
  <2> QED BY <2>1, <2>2
<1>9. CASE rollback(w, w.root)
  <2>1. \E s : Going(w, s, "deleteUser", w.id, w.root)
    BY <1>0, <1>2, <1>9, RollbackGoes
  <2> QED BY <1>4, <2>1
<1> QED BY <1>8, <1>9 DEF getAuthTokens

LEMMA ReplacedCalm ==
    ASSUME Alone, NEW w \in inflight, replacePreCreatedUser(w)
    PROVE  Calm'
<1>0. TypeInv /\ TypeInv' /\ DeactivatedGone /\ w.id \in Ids
  BY AtWork, RequestTypes DEF replacePreCreatedUser, StartOps
<1>1. w.op = "replacePreCreated" /\ Done(w) /\ UNCHANGED <<users, used, bridge, roots, attempts, halfway, deactivated>>
  BY DEF replacePreCreatedUser
<1>2. \/ preCreated' = preCreated \ {w.email} /\ crashed' = crashed
      \/ crashed' = crashed \cup {w.id} /\ preCreated' = preCreated
  BY DEF replacePreCreatedUser
<1>3. Rooted(w) /\ Fresh(w)
  BY <1>1, AtWork DEF Doing, Rooted
<1>4. Local(w.id) /\ ShakenStays
  BY <1>0, <1>1, <1>2, AttemptsSame, NothingLocal, LocalShaken
<1>5. DeactivatedGone'
  BY <1>0, <1>1, <1>4, LocalDeactivated
<1>6. AddressFine(w.id)'
  <2>1. ~ Gone(w.id) /\ AddressFine(w.id)
    BY <1>0, <1>3, FreshThere
  <2>2. users[w.id].account \in Ids /\ crashed \subseteq crashed'
    BY <1>0, <1>2, <2>1, TableTypes
  <2> QED BY <1>0, <1>1, <1>4, <2>1, <2>2, AddressStays
<1>7. Served(w.id)'
  <2>1. CASE crashed' = crashed \cup {w.id}
    BY <2>1 DEF Served
  <2>2. CASE preCreated' = preCreated \ {w.email}
    <3>1. OnlyRoot(w.id)'
      BY <1>1, <1>3 DEF Rooted, OnlyRoot, HasRoots
    <3>2. Replaced(w.id)'
      BY <1>1, <1>3, <2>2 DEF Fresh, Replaced
    <3> QED BY <3>1, <3>2 DEF Served
  <2> QED BY <1>2, <2>1, <2>2
<1> QED BY <1>1, <1>4, <1>5, <1>6, <1>7, DoneCalm DEF Steady

LEMMA AnswerCalm ==
    ASSUME Alone, NEW w \in inflight, answer(w)
    PROVE  Calm'
<1>0. TypeInv /\ TypeInv' /\ DeactivatedGone /\ w.id \in Ids
  BY AtWork, RequestTypes DEF answer, StartOps
<1>1. /\ w.op = "answer" /\ Done(w)
      /\ UNCHANGED <<users, used, bridge, roots, preCreated, attempts, halfway, crashed, deactivated>>
  BY DEF answer, Others, Histories
<1>2. Gone(w.id) \/ Steady(w.id)
  BY <1>1, AtWork DEF Doing
<1>3. Local(w.id) /\ ShakenStays /\ DeactivatedGone'
  BY <1>0, <1>1, AttemptsSame, NothingLocal, LocalShaken, LocalDeactivated
<1>4. Gone(w.id)' \/ Steady(w.id)'
  <2>1. CASE Gone(w.id)
    BY <1>1, <2>1 DEF Gone
  <2>2. CASE ~ Gone(w.id)
    BY <1>0, <1>1, <1>2, <1>3, <2>2, SteadyStays
  <2> QED BY <2>1, <2>2
<1> QED BY <1>1, <1>3, <1>4, DoneCalm

\* Nobody has the address.
LEMMA PreCreatedCalm ==
    ASSUME Alone, NEW w \in inflight, insertPreCreated(w)
    PROVE  Calm'
<1>0. TypeInv /\ TypeInv' /\ DeactivatedGone /\ RequestFine(w)
  BY AtWork
<1>1. /\ w.op = "insertPreCreated" /\ Done(w) /\ preCreated' = preCreated \cup {w.email}
      /\ UNCHANGED <<users, used, bridge, roots, attempts, halfway, crashed, deactivated>>
  BY DEF insertPreCreated, Histories
<1>2. Free(w.email)
  BY <1>1, AtWork DEF Doing
<1>3. w.id = 0 /\ w.id \notin Ids
  BY <1>0, <1>1, Numbered DEF RequestFine, StartOps
<1>4. Local(w.id)
  BY <1>0, <1>1, <1>2, AttemptsSame DEF Local, LocalRest, Free
<1>5. DeactivatedGone'
  BY <1>0, <1>1, <1>4, LocalDeactivated
<1> QED BY <1>1, <1>3, <1>4, <1>5, DoneCalm

LEMMA UndoCalm ==
    ASSUME Alone, NEW w \in inflight, undoSignUp(w)
    PROVE  Calm'
<1>0. TypeInv /\ TypeInv' /\ DeactivatedGone /\ RequestFine(w) /\ Doing(w)
  BY AtWork
<1>1. w.id \in Ids /\ UNCHANGED <<used, bridge, attempts, preCreated, halfway, crashed, deactivated>>
  BY <1>0, UndoDoes DEF others
<1>2. ASSUME w.op = "deleteUser", Touches(w.id), Gone(w.id)', UNCHANGED roots,
             NEW s, Going(w, s, IF w.root = NoRoot THEN "answer" ELSE "deleteRoot", w.id, w.root)
      PROVE  Calm'
  <2>1. s.op \in {"answer", "deleteRoot"} /\ s.id = w.id /\ Goes(w, s)
    BY <1>2 DEF Going
  <2>2. ~ Attempted(w.id)
    BY <1>0, <1>2 DEF Doing, Fresh
  <2>3. Local(w.id)
    BY <1>0, <1>1, <1>2, <2>2, RowLocal
  <2>4. Doing(s)'
    BY <1>2, <2>1 DEF Doing, LeaveOps
  <2> QED BY <1>1, <2>1, <2>3, <2>4, GoesCalm
<1>3. ASSUME w.op = "deleteRoot", Done(w), UNCHANGED users,
             \A f \in Roots : roots'[f].owner = roots[f].owner /\ (roots'[f].live => roots[f].live)
      PROVE  Calm'
  <2>1. Gone(w.id)'
    BY <1>0, <1>3 DEF RequestFine, Gone
  <2>2. Local(w.id)
    BY <1>0, <1>1, <1>3, AttemptsSame DEF Local, LocalRest
  <2>3. DeactivatedGone'
    BY <1>0, <1>1, <2>2, LocalDeactivated
  <2> QED BY <1>3, <2>1, <2>2, <2>3, DoneCalm
<1> QED BY <1>0, <1>2, <1>3, UndoDoes

----------------------------------------------------------------------------
(* Requests one at a time: the statements of a change of address.          *)

LEMMA ChangingIs ==
    ASSUME TypeInv, NEW w \in inflight, w.id \in Ids, Changing(w)
    PROVE  /\ ~ Gone(w.id) /\ w.account \in Ids /\ users[w.id] \in UserRow
           /\ w.email # NoEmail /\ w.email # Renamed
<1>1. ~ Gone(w.id)
  BY GoneIs DEF Changing
<1> QED BY <1>1, TableTypes, RequestTypes, NoAddress DEF Changing

LEMMA ChangingStays ==
    ASSUME NEW w, NEW s, w.id \in Ids, Changing(w), s.id = w.id, Alike(s, w),
           UNCHANGED <<users, roots, attempts, preCreated, crashed, halfway>>
    PROVE  Changing(s)'
<1>1. Served(w.id)'
  BY ServedStays DEF Changing
<1>2. s.account = w.account /\ s.old = w.old /\ s.attempt = w.attempt
  BY DEF Alike
<1> QED BY <1>1, <1>2 DEF Changing

LEMMA ChangeCalm ==
    ASSUME Alone, NEW w \in inflight, changeUserEmailById(w)
    PROVE  Calm'
<1>0. TypeInv /\ TypeInv' /\ DeactivatedGone /\ Doing(w) /\ bridge \in [Ids -> Emails \cup {NoEmail, Renamed}]
  BY AtWork, TableTypes
<1>1. /\ w.id \in Ids /\ w.op \in {"changeAtBridge", "changeRow", "undoAtBridge"}
      /\ UNCHANGED <<used, roots, attempts, preCreated, halfway, crashed, deactivated>>
  BY <1>0, ChangeDoes DEF others, changeUserEmailById
<1>2. Changing(w) /\ w.account = users[w.id].account /\ w.old = users[w.id].email
  BY <1>0, <1>1 DEF Doing, Changing
<1>3. /\ ~ Gone(w.id) /\ w.account \in Ids /\ users[w.id] \in UserRow
      /\ w.email # NoEmail /\ w.email # Renamed
  BY <1>0, <1>1, <1>2, ChangingIs
<1>4. SameAttempts
  BY <1>0, <1>1, AttemptsSame
<1>5. ASSUME UNCHANGED users, \A k \in Ids : k # w.account => bridge'[k] = bridge[k],
             bridge[w.account] # NoEmail \/ bridge'[w.account] = bridge[w.account]
      PROVE  Local(w.id)
  BY <1>1, <1>2, <1>3, <1>4, <1>5 DEF Local, LocalRest
<1>6. ASSUME w.op = "changeAtBridge", mayHaveEmail(users[w.id].account, w.email), UNCHANGED users,
             bridge' = [bridge EXCEPT ![users[w.id].account] = w.email],
             NEW s, Going(w, s, "changeRow", w.id, w.root)
      PROVE  Calm'
  <2>1. s.op = "changeRow" /\ s.id = w.id /\ Goes(w, s) /\ Alike(s, w)
    BY <1>6 DEF Going
  <2>2. \A k \in Ids : bridge'[k] = IF k = w.account THEN w.email ELSE bridge[k]
    BY <1>0, <1>2, <1>6
  <2>3. bridge[w.account] # NoEmail
    BY <1>2, <1>6 DEF mayHaveEmail
  <2>4. Local(w.id)
    BY <1>5, <1>6, <2>2, <2>3
  <2>5. w.old # Renamed
    BY <1>0, <1>2, <1>6, <2>3 DEF Doing, AddressFine
  <2>6. Changing(s)'
    BY <1>1, <1>2, <1>6, <2>1, ChangingStays
  <2>7. bridge'[s.account] = s.email /\ s.old # Renamed
    BY <1>3, <2>1, <2>2, <2>5 DEF Alike
  <2>8. Doing(s)'
    BY <2>1, <2>6, <2>7 DEF Doing, LeaveOps
  <2> QED BY <1>1, <2>1, <2>4, <2>8, GoesCalm
<1>7. ASSUME w.op = "changeRow", UNCHANGED bridge, Touches(w.id),
             users'[w.id] = [users[w.id] EXCEPT !.email = w.email, !.moved = TRUE],
             NEW s, Going(w, s, "markVerified", w.id, w.root)
      PROVE  Calm'
  <2>1. s.op = "markVerified" /\ s.id = w.id /\ Goes(w, s)
    BY <1>7 DEF Going
  <2>2. /\ users'[w.id].email = w.email /\ users'[w.id].account = w.account
        /\ users'[w.id].root = users[w.id].root /\ users'[w.id].moved
    BY <1>2, <1>3, <1>7 DEF UserRow
  <2>3. ~ Gone(w.id)'
    BY <1>0, <1>1, <1>3, <2>2, GoneNext
  <2>4. Local(w.id)
    BY <1>0, <1>1, <1>2, <1>3, <1>7, <2>2, <2>3, RowLocal
  <2>5. bridge[w.account] = w.email /\ users[w.id].email # Renamed
    BY <1>0, <1>2, <1>7 DEF Doing
  <2>6. AddressFine(w.id)'
    BY <1>3, <1>7, <2>2, <2>5 DEF AddressFine
  <2>7. Served(w.id)'
    <3>1. CASE w.id \in crashed
      BY <1>1, <3>1 DEF Served
    <3>2. CASE OnlyRoot(w.id)
      <4>1. OnlyRoot(w.id)' /\ Replaced(w.id)'
        BY <1>1, <2>2, <3>2 DEF OnlyRoot, Replaced
      <4> QED BY <4>1 DEF Served
    <3> QED BY <1>2, <2>5, <3>1, <3>2 DEF Changing, Served
  <2>8. Doing(s)'
    BY <2>1, <2>6, <2>7 DEF Doing, LeaveOps, Steady
  <2> QED BY <1>1, <2>1, <2>4, <2>8, GoesCalm
<1>8. ASSUME w.op \in {"changeAtBridge", "changeRow"}, UNCHANGED <<users, bridge>>,
             NEW s, Going(w, s, "undoAtBridge", w.id, w.root)
      PROVE  Calm'
  <2>1. s.op = "undoAtBridge" /\ s.id = w.id /\ s.account = w.account /\ s.old = w.old /\ Goes(w, s) /\ Alike(s, w)
    BY <1>8 DEF Going, Alike
  <2>2. Local(w.id) /\ ShakenStays
    BY <1>0, <1>5, <1>8, LocalShaken
  <2>3. Changing(s)'
    BY <1>1, <1>2, <1>8, <2>1, ChangingStays
  <2>4. CASE w.op = "changeAtBridge"
    <3>1. AddressFine(w.id)
      BY <1>0, <2>4 DEF Doing
    <3>2. AddressFine(w.id)'
      BY <1>1, <1>2, <1>3, <1>8, <2>2, <3>1, AddressStays
    <3>3. w.old = Renamed => bridge[w.account] = NoEmail
      BY <1>2, <3>1 DEF AddressFine
    <3>4. Doing(s)'
      BY <1>8, <2>1, <2>3, <3>2, <3>3 DEF Doing, LeaveOps
    <3> QED BY <1>1, <2>1, <2>2, <3>4, GoesCalm
  <2>5. CASE w.op = "changeRow"
    <3>1. bridge[w.account] # NoEmail /\ w.old # Renamed
      BY <1>0, <1>3, <2>5 DEF Doing
    <3>2. Doing(s)'
      BY <1>8, <2>1, <2>3, <3>1 DEF Doing, LeaveOps
    <3> QED BY <1>1, <2>1, <2>2, <3>2, GoesCalm
  <2> QED BY <1>8, <2>4, <2>5
<1>9. ASSUME w.op = "undoAtBridge", UNCHANGED users, Done(w),
             bridge' = IF bridge[w.account] = NoEmail THEN bridge ELSE [bridge EXCEPT ![w.account] = w.old]
      PROVE  Calm'
  <2>1. \A k \in Ids : bridge'[k] = IF k = w.account /\ bridge[k] # NoEmail THEN w.old ELSE bridge[k]
    BY <1>0, <1>3, <1>9
  <2>2. bridge[w.account] # NoEmail \/ bridge'[w.account] = bridge[w.account]
    BY <1>3, <2>1
  <2>3. Local(w.id)
    BY <1>5, <1>9, <2>1, <2>2
  <2>4. ShakenStays /\ DeactivatedGone'
    BY <1>0, <1>1, <2>3, LocalShaken, LocalDeactivated
  <2>5. Served(w.id)'
    BY <1>1, <1>2, <1>9, ServedStays DEF Changing
  <2>6. AddressFine(w.id)'
    <3>1. CASE bridge[w.account] = NoEmail
      <4>1. AddressFine(w.id) /\ bridge'[w.account] = bridge[w.account]
        BY <1>0, <1>3, <1>9, <2>1, <3>1 DEF Doing
      <4> QED BY <1>1, <1>2, <1>3, <1>9, <2>4, <4>1, AddressStays
    <3>2. CASE bridge[w.account] # NoEmail
      <4>1. bridge'[w.account] = users[w.id].email /\ users[w.id].email # Renamed
        BY <1>0, <1>2, <1>3, <1>9, <2>1, <3>2 DEF Doing
      <4> QED BY <1>2, <1>9, <4>1 DEF AddressFine
    <3> QED BY <3>1, <3>2
  <2> QED BY <1>9, <2>3, <2>4, <2>5, <2>6, DoneCalm DEF Steady
<1> QED BY <1>0, <1>3, <1>6, <1>7, <1>8, <1>9, ChangeDoes

LEMMA MarkCalm ==
    ASSUME Alone, NEW w \in inflight, markVerified(w)
    PROVE  Calm'
<1>0. TypeInv /\ TypeInv' /\ DeactivatedGone /\ w.id \in Ids
  BY AtWork, RequestTypes DEF markVerified, StartOps
<1>1. /\ w.op = "markVerified" /\ Done(w)
      /\ UNCHANGED <<users, used, roots, bridge, preCreated, halfway, crashed, deactivated>>
      /\ Len(attempts') = Len(attempts) /\ \A a \in 1 .. Len(attempts) : attempts'[a].user = attempts[a].user
  BY <1>0, MarkDoes DEF others
<1>2. SameAttempts
  BY <1>0, <1>1, TableTypes DEF SameAttempts
<1>3. Gone(w.id) \/ Steady(w.id)
  BY <1>1, AtWork DEF Doing
<1>4. Local(w.id) /\ ShakenStays /\ DeactivatedGone'
  BY <1>0, <1>1, <1>2, NothingLocal, LocalShaken, LocalDeactivated
<1>5. Gone(w.id)' \/ Steady(w.id)'
  <2>1. CASE Gone(w.id)
    BY <1>1, <2>1 DEF Gone
  <2>2. CASE ~ Gone(w.id)
    BY <1>0, <1>1, <1>3, <1>4, <2>2, SteadyStays
  <2> QED BY <2>1, <2>2
<1> QED BY <1>1, <1>4, <1>5, DoneCalm

----------------------------------------------------------------------------
(* Requests one at a time: the statements of a deactivation.               *)

LEMMA DeactivationCalm ==
    ASSUME Alone, NEW w \in inflight, deactivateUser(w)
    PROVE  Calm'
<1>0. TypeInv /\ TypeInv' /\ DeactivatedGone /\ Doing(w) /\ RequestFine(w)
  BY AtWork
<1>1. w.id \in Ids /\ UNCHANGED <<used, bridge, attempts, preCreated, halfway, crashed>>
  BY <1>0, DeactivationDoes
<1>2. SameAttempts
  BY <1>0, <1>1, AttemptsSame
<1>3. ASSUME w.op \in LeaveOps
      PROVE  ~ Gone(w.id) /\ users[w.id] \in UserRow /\ bridge[users[w.id].account] = NoEmail
  BY <1>0, <1>1, <1>3, GoneIs, TableTypes DEF Doing, Left
<1>4. ASSUME w.op \in LeaveOps, UNCHANGED deactivated, Local(w.id),
             users'[w.id].email # NoEmail, users'[w.id].account = users[w.id].account,
             NEW op \in {"deleteReferences", "deleteRow", "renameUser"}, NEW s, Going(w, s, op, w.id, w.root)
      PROVE  Calm'
  <2>1. s.op = op /\ s.id = w.id /\ Goes(w, s)
    BY <1>4 DEF Going
  <2>2. Left(s)'
    BY <1>1, <1>3, <1>4, <2>1 DEF Left
  <2>3. Doing(s)'
    BY <2>1, <2>2 DEF Doing, LeaveOps
  <2> QED BY <1>4, <2>1, <2>3, GoesCalm
<1>5. ASSUME w.op = "detachRoot", UNCHANGED <<roots, deactivated>>, Touches(w.id),
             users'[w.id] = [users[w.id] EXCEPT !.root = NoRoot],
             NEW s, Going(w, s, "deleteReferences", w.id, w.root)
      PROVE  Calm'
  <2>1. w.op \in LeaveOps
    BY <1>5 DEF LeaveOps
  <2>2. users'[w.id].email = users[w.id].email /\ users'[w.id].account = users[w.id].account
    BY <1>3, <1>5, <2>1 DEF UserRow
  <2>3. users'[w.id].email # NoEmail
    BY <1>0, <1>1, <1>3, <2>1, <2>2, GoneIs
  <2>4. Local(w.id)
    BY <1>0, <1>1, <1>3, <1>5, <2>1, <2>2, <2>3, GoneNext, RowLocal
  <2> QED BY <1>4, <1>5, <2>1, <2>2, <2>3, <2>4
<1>6. ASSUME w.op \in {"deleteReferences", "deleteRow"}, UNCHANGED <<users, roots, deactivated>>,
             NEW op \in {"deleteRow", "renameUser"}, NEW s, Going(w, s, op, w.id, w.root)
      PROVE  Calm'
  <2>1. w.op \in LeaveOps
    BY <1>6 DEF LeaveOps
  <2>2. Local(w.id)
    BY <1>0, <1>1, <1>2, <1>6, NothingLocal
  <2>3. users'[w.id].email # NoEmail /\ users'[w.id].account = users[w.id].account
    BY <1>0, <1>1, <1>3, <1>6, <2>1, GoneIs
  <2> QED BY <1>4, <1>6, <2>1, <2>2, <2>3
<1>7. ASSUME w.op = "deleteRow", ~ Attempted(w.id), UNCHANGED <<roots, deactivated>>, Touches(w.id), Gone(w.id)',
             NEW s, Going(w, s, "removeOrphans", w.id, w.root)
      PROVE  Calm'
  <2>1. s.op = "removeOrphans" /\ s.id = w.id /\ Goes(w, s)
    BY <1>7 DEF Going
  <2>2. Local(w.id)
    BY <1>0, <1>1, <1>7, RowLocal
  <2>3. Doing(s)'
    BY <2>1 DEF Doing, LeaveOps
  <2> QED BY <1>7, <2>1, <2>2, <2>3, GoesCalm
<1>8. ASSUME w.op = "removeOrphans", Done(w), UNCHANGED users, deactivated' = deactivated \cup {w.id},
             \A f \in Roots : /\ roots'[f].owner = roots[f].owner
                              /\ IF roots[f].owner = w.id THEN ~ roots'[f].live ELSE roots'[f] = roots[f]
      PROVE  Calm'
  <2>1. Gone(w.id) /\ Gone(w.id)'
    BY <1>0, <1>8 DEF RequestFine, Gone
  <2>2. Local(w.id)
    BY <1>1, <1>2, <1>8 DEF Local, LocalRest
  <2>3. DeactivatedGone'
    <3>1. SUFFICES ASSUME NEW j \in deactivated' PROVE Gone(j)' /\ \A f \in Roots : roots'[f].owner = j => ~ roots'[f].live
      BY DEF DeactivatedGone
    <3>2. CASE j = w.id
      BY <1>8, <2>1, <3>2
    <3>3. CASE j # w.id
      BY <1>0, <1>8, <3>1, <3>3 DEF DeactivatedGone, Gone
    <3> QED BY <3>2, <3>3
  <2> QED BY <1>8, <2>1, <2>2, <2>3, DoneCalm
<1>9. ASSUME w.op = "renameUser", Done(w), UNCHANGED <<roots, deactivated>>, Touches(w.id),
             users'[w.id] = [users[w.id] EXCEPT !.email = Renamed]
      PROVE  Calm'
  <2>1. w.op \in LeaveOps
    BY <1>9 DEF LeaveOps
  <2>2. users'[w.id].email = Renamed /\ users'[w.id].account = users[w.id].account
    BY <1>3, <1>9, <2>1 DEF UserRow
  <2>3. ~ Gone(w.id)'
    BY <1>0, <1>1, <2>2, GoneNext, NoAddress
  <2>4. Local(w.id)
    BY <1>0, <1>1, <1>3, <1>9, <2>1, <2>2, <2>3, RowLocal
  <2>5. DeactivatedGone'
    BY <1>0, <1>9, <2>4, LocalDeactivated
  <2>6. Steady(w.id)'
    BY <1>1, <1>3, <2>1, <2>2 DEF Steady, AddressFine, Served
  <2> QED BY <1>9, <2>4, <2>5, <2>6, DoneCalm
<1>10. w.op \in LeaveOps => ~ Gone(w.id)
  BY <1>3
<1>11. w.op \in {"detachRoot", "renameUser"} => ~ Gone(w.id)
  BY <1>10 DEF LeaveOps
<1> QED BY <1>0, <1>5, <1>6, <1>7, <1>8, <1>9, <1>11, DeactivationDoes

----------------------------------------------------------------------------
(* Requests one at a time: a request stops half way.                       *)

LEMMA DiesAddress ==
    ASSUME Alone, NEW w \in inflight, w.id \in Ids, ~ Gone(w.id), UNCHANGED <<users, bridge, attempts>>,
           crashed' = crashed \cup {w.id}, ShakenStays
    PROVE  AddressFine(w.id)'
<1>0. TypeInv /\ Doing(w) /\ RequestFine(w) /\ w.op \in Ops /\ w.op \notin StartOps
  BY AtWork, RequestTypes, Numbered DEF RequestFine
<1>1. users[w.id].account \in Ids /\ users[w.id].email # NoEmail
  BY <1>0, GoneIs, TableTypes
<1>2. ASSUME AddressFine(w.id) PROVE AddressFine(w.id)'
  BY <1>1, <1>2, AddressStays
<1>3. ASSUME w.op \in {"changeRow", "undoAtBridge"}, users[w.id].email # Renamed PROVE AddressFine(w.id)'
  <2>1. Changing(w) /\ w.attempt \in 1 .. Len(attempts)
    BY <1>0, <1>3 DEF Doing, RequestFine, ChangeOps
  <2>2. Attempted(w.id)'
    BY <2>1 DEF Changing, Attempted
  <2>3. Shaken(users[w.id].account)'
    BY <1>1, <2>2 DEF Shaken
  <2> QED BY <1>3, <2>3 DEF AddressFine
<1>4. CASE w.op \in {"createRoot", "linkRoot", "getTokens", "replacePreCreated", "deleteUser"}
  <2>1. Fresh(w) \/ Mending(w)
    BY <1>0, <1>4 DEF Doing, Rooted
  <2>2. AddressFine(w.id)
    BY <1>0, <2>1, FreshThere DEF Mending
  <2> QED BY <1>2, <2>2
<1>5. CASE w.op \in {"answer", "markVerified", "changeAtBridge"}
  <2>1. AddressFine(w.id)
    BY <1>0, <1>5 DEF Doing, Steady
  <2> QED BY <1>2, <2>1
<1>6. CASE w.op = "changeRow"
  <2>1. users[w.id].email # Renamed
    BY <1>0, <1>6 DEF Doing, Changing
  <2> QED BY <1>3, <1>6, <2>1
<1>7. CASE w.op = "undoAtBridge"
  <2>1. AddressFine(w.id) \/ users[w.id].email # Renamed
    BY <1>0, <1>7 DEF Doing, Changing
  <2> QED BY <1>2, <1>3, <1>7, <2>1
<1>8. CASE w.op \in LeaveOps
  <2>1. bridge[users[w.id].account] = NoEmail
    BY <1>0, <1>8 DEF Doing, Left
  <2> QED BY <2>1 DEF AddressFine
<1>9. w.op \notin {"deleteRoot", "removeOrphans"}
  BY <1>0 DEF RequestFine
<1> QED BY <1>0, <1>4, <1>5, <1>6, <1>7, <1>8, <1>9 DEF Ops, ChangeOps

LEMMA DiesCalm ==
    ASSUME Alone, NEW w \in inflight, requestDies(w)
    PROVE  Calm'
<1>0. TypeInv /\ TypeInv' /\ DeactivatedGone
  BY AtWork
<1>1. /\ Done(w) /\ halfway \subseteq halfway' /\ crashed' = crashed \cup ({w.id} \ {0})
      /\ UNCHANGED <<users, used, bridge, roots, deactivated, preCreated, attempts>>
  BY DEF requestDies, Others
<1>2. Local(w.id) /\ ShakenStays /\ DeactivatedGone'
  BY <1>0, <1>1, AttemptsSame, NothingLocal, LocalShaken, LocalDeactivated
<1>3. ASSUME w.id \in Ids PROVE Gone(w.id)' \/ Steady(w.id)'
  <2>1. crashed' = crashed \cup {w.id}
    BY <1>1, <1>3, Numbered
  <2>2. CASE Gone(w.id)
    BY <1>1, <2>2 DEF Gone
  <2>3. CASE ~ Gone(w.id)
    <3>1. AddressFine(w.id)'
      BY <1>1, <1>2, <1>3, <2>1, <2>3, DiesAddress
    <3> QED BY <2>1, <3>1 DEF Steady, Served
  <2> QED BY <2>2, <2>3
<1> QED BY <1>1, <1>2, <1>3, DoneCalm

----------------------------------------------------------------------------
(* Requests one at a time: every step.                                     *)

LEMMA CalmInit == Init => Calm
<1>1. SUFFICES ASSUME Init PROVE Calm
  OBVIOUS
<1>2. inflight = {} /\ deactivated = {} /\ \A i \in Ids : users[i].email = NoEmail
  BY <1>1 DEF Init, NoUser
<1> QED BY <1>2 DEF Calm, OneAtATime, OthersSteady, SharedAreShaken, DeactivatedGone

LEMMA CalmStep == TypeInv /\ TypeInv' /\ Calm /\ [Next]_accountVars => Calm'
<1>1. ASSUME TypeInv, TypeInv', Calm, Next PROVE Calm'
  <2>1. UNCHANGED alone /\ Step
    BY <1>1 DEF Next
  <2>2. CASE ~ alone
    BY <2>1, <2>2 DEF Calm
  <2>3. CASE alone
    <3>1. Alone
      BY <1>1, <2>1, <2>3 DEF Alone
    <3>2. ASSUME NEW w \in inflight, RequestStep(w) PROVE Calm'
      BY <3>1, <3>2, InsertCalm, RootsCalm, TokensCalm, UndoCalm, ReplacedCalm, AnswerCalm, PreCreatedCalm,
         ChangeCalm, MarkCalm, DeactivationCalm, DiesCalm DEF RequestStep
    <3> QED BY <2>1, <3>1, <3>2, StepKinds, SignUpBegunCalm, PreCreatingBegunCalm, MendingBegunCalm,
              ChangeBegunCalm, LeavingBegunCalm, TablesCalm
  <2> QED BY <2>2, <2>3
<1>2. ASSUME TypeInv, TypeInv', Calm, UNCHANGED accountVars PROVE Calm'
  <2>1. UNCHANGED <<users, bridge, roots, preCreated, attempts, halfway, crashed>>
    BY <1>2 DEF accountVars
  <2>2. SUFFICES ASSUME alone PROVE OneAtATime' /\ OthersSteady' /\ SharedAreShaken' /\ DeactivatedGone'
                                    /\ \A w \in inflight' : Doing(w)'
    BY <1>2 DEF Calm, accountVars
  <2>3. OneAtATime /\ OthersSteady /\ SharedAreShaken /\ DeactivatedGone /\ \A w \in inflight : Doing(w)
    BY <1>2, <2>2 DEF Calm
  <2>4. OneAtATime' /\ DeactivatedGone'
    BY <1>2, <2>3 DEF accountVars, OneAtATime, DeactivatedGone, Gone
  <2>5. \A k : Shaken(k) <=> Shaken(k)'
    BY <2>1 DEF Shaken, Attempted
  <2>6. \A i : (AddressFine(i) <=> AddressFine(i)') /\ (Served(i) <=> Served(i)')
    BY <2>1, <2>5 DEF AddressFine, Served, OnlyRoot, Replaced
  <2>7. OthersSteady'
    BY <1>2, <2>3, <2>6 DEF accountVars, OthersSteady, Steady, Busy
  <2>8. SharedAreShaken'
    BY <2>1, <2>3, <2>5 DEF SharedAreShaken
  <2>9. ASSUME NEW w \in inflight PROVE Doing(w)'
    <3>1. Doing(w)
      BY <2>3
    <3>2. /\ (Free(w.email) => Free(w.email)') /\ (Fresh(w) => Fresh(w)')
          /\ (HasRoots(w, {}) => HasRoots(w, {})') /\ (HasRoots(w, {w.root}) => HasRoots(w, {w.root})')
      BY <2>1 DEF Free, Fresh, HasRoots, Attempted
    <3>3. (Rooted(w) => Rooted(w)') /\ (Left(w) => Left(w)') /\ (Gone(w.id) => Gone(w.id)')
      BY <2>1, <3>2 DEF Rooted, HasRoots, Left, Gone
    <3>4. /\ (Mending(w) => Mending(w)') /\ (Steady(w.id) => Steady(w.id)')
          /\ (Changing(w) => Changing(w)') /\ (AddressFine(w.id) => AddressFine(w.id)')
      BY <2>1, <2>6 DEF Mending, Steady, Changing
    <3> QED BY <2>1, <2>5, <3>1, <3>2, <3>3, <3>4 DEF Doing
  <2> QED BY <1>2, <2>4, <2>7, <2>8, <2>9 DEF accountVars
<1> QED BY <1>1, <1>2

----------------------------------------------------------------------------
(* Theorems.                                                               *)

LEMMA NumbersDiffer ==
    ASSUME RequestsFine
    PROVE  Cardinality(inflight) <= MaxInFlight
<1> DEFINE number == [w \in inflight |-> w.nr]
<1>1. number \in Injection(inflight, 1 .. MaxInFlight)
  BY DEF Injection, IsInjective, RequestsFine
<1>2. IsFiniteSet(1 .. MaxInFlight) /\ Cardinality(1 .. MaxInFlight) = MaxInFlight /\ MaxInFlight \in Nat
  BY FS_Interval, UserAccountsConstants DEF UserAccountsConstants
<1>3. Cardinality(inflight) <= Cardinality(1 .. MaxInFlight)
  BY <1>1, <1>2, FS_Injection
<1> QED BY <1>2, <1>3

LEMMA TypeInvariant == Spec => []TypeInv
BY TypeInit, TypeStep, PTL DEF Spec

\* Whatever races, fails or stops half way, rows keep the columns of their tables, an id
\* is given out once, and no request answers for another.
THEOREM TypeCorrect == Spec => []TypeOK
<1>1. TypeInv => TypeOK
  <2> SUFFICES ASSUME TypeInv PROVE TypeOK
    OBVIOUS
  <2>1. /\ users \in [Ids -> UserRow] /\ used \in Ids \cup {0} /\ used \in Nat
        /\ bridge \in [Ids -> Emails \cup {NoEmail, Renamed}] /\ roots \in [Roots -> FolderRow]
    BY TableTypes
  <2>2. \A i \in Ids : users[i].email = NoEmail => users[i] = NoUser
    BY GoneIs DEF Gone
  <2>3. \A i \in Ids : i > used => users[i] = NoUser
    <3>1. TAKE i \in Ids
    <3>2. ~ Gone(i) => i <= used
      BY TableTypes
    <3>3. i \in Nat
      BY Numbered
    <3> QED BY <2>1, <3>2, <3>3 DEF Gone
  <2>4. preCreated \subseteq Emails /\ members \subseteq Ids /\ halfway \subseteq Roots /\ alone \in BOOLEAN
    BY DEF TypeInv, RestFine
  <2>5. attempts \in Seq(AttemptRow)
    BY DEF TypeInv, AttemptsFine
  <2>6. crashed \subseteq Ids /\ deactivated \subseteq Ids
    BY HistoryIds
  <2>7. Cardinality(inflight) <= MaxInFlight
    BY NumbersDiffer DEF TypeInv
  <2> QED BY <2>1, <2>2, <2>3, <2>4, <2>5, <2>6, <2>7 DEF TypeOK
<1> QED BY <1>1, TypeInvariant, PTL

LEMMA NeverDangles ==
    ASSUME TypeInv
    PROVE  RootNeverDangles
<1>1. SUFFICES ASSUME NEW i \in Ids, users[i].root # NoRoot
               PROVE  roots[users[i].root] = [owner |-> i, live |-> TRUE]
  BY DEF RootNeverDangles, Registered
<1>2. users[i].root \in Roots
  BY <1>1, TableTypes DEF UserRow
<1>3. roots[users[i].root] \in FolderRow
  BY <1>2, TableTypes
<1>4. roots[users[i].root].owner = i /\ roots[users[i].root].live
  BY <1>1 DEF TypeInv, RootsFine
<1> QED BY <1>3, <1>4 DEF FolderRow

LEMMA CoherentAlone ==
    ASSUME TypeInv, Calm, alone
    PROVE  AccountsUsable /\ OneRootEach /\ BridgeAgrees /\ DeactivatedLeaveNothing /\ PreCreatedReplaced
<1>1. SUFFICES ASSUME Idle
               PROVE  AccountsUsable /\ OneRootEach /\ BridgeAgrees /\ DeactivatedLeaveNothing /\ PreCreatedReplaced
  BY DEF AccountsUsable, OneRootEach, BridgeAgrees, DeactivatedLeaveNothing, PreCreatedReplaced
<1>2. \A i \in Registered : i \in Ids /\ users[i].email # NoEmail /\ Steady(i)
  BY <1>1 DEF Idle, Calm, OthersSteady, Busy, Registered
<1>3. \A i \in Registered \ crashed : users[i].email # Renamed => OnlyRoot(i) /\ Replaced(i)
  BY <1>2 DEF Steady, Served
<1>4. AccountsUsable
  BY <1>3 DEF AccountsUsable, OnlyRoot
<1>5. OneRootEach
  BY <1>3 DEF OneRootEach, OnlyRoot
<1>6. BridgeAgrees
  <2>1. SUFFICES ASSUME NEW i \in Registered, users[i].email # Renamed,
                        \A c \in crashed : users[c].account # users[i].account
                 PROVE  bridge[users[i].account] = users[i].email
    BY DEF BridgeAgrees
  <2>2. i \notin crashed /\ ~ Shaken(users[i].account)
    BY <2>1 DEF Shaken
  <2> QED BY <1>2, <2>1, <2>2 DEF Steady, AddressFine
<1>7. DeactivatedLeaveNothing
  BY DEF DeactivatedLeaveNothing, Calm, DeactivatedGone
<1>8. PreCreatedReplaced
  <2>1. SUFFICES ASSUME NEW i \in Registered \ crashed, users[i].email \in preCreated PROVE users[i].moved \/ ~ users[i].keys
    BY DEF PreCreatedReplaced
  <2>2. users[i].email # Renamed
    BY <2>1, NoAddress DEF TypeInv, RestFine
  <2> QED BY <1>3, <2>1, <2>2 DEF Replaced
<1> QED BY <1>4, <1>5, <1>6, <1>7, <1>8

\* The root folder an account points to exists and is its own, whatever races.  With
\* requests one at a time, and whatever of them fails or stops half way, what every other
\* account is served with stays: its one root folder, the same address in the row and at
\* the network, no row among those who are only pre-created; and what was deactivated
\* leaves nothing.
THEOREM AccountsAreCoherent == Spec => []AccountsCoherent
<1>1. TypeInv /\ Calm => AccountsCoherent
  BY NeverDangles, CoherentAlone DEF AccountsCoherent
<1>2. Spec => []Calm
  BY TypeInvariant, CalmInit, CalmStep, PTL DEF Spec
<1> QED BY <1>1, <1>2, TypeInvariant, PTL

----------------------------------------------------------------------------
(* Tokens and the row of Credentials.                                      *)

Iat(t) == IF t.kind = "newSession" THEN t.at \div 2 + FutureSeconds ELSE t.at \div 2

UserShape(u) ==
    /\ {"password", "lastPasswordChangedAt", "errorLoginCount"} \subseteq DOMAIN u
    /\ u.lastPasswordChangedAt \in Int

\* A token is dated by the clock it was issued at; only the session that answers
\* a change is dated ahead.
Dated ==
    /\ now \in Nat /\ UserShape(user)
    /\ \A t \in tokens : t.at \in Nat /\ t.iat = Iat(t)

\* What a step of any request may do to them.
DatedStep ==
    /\ now' \in Nat
    /\ UserShape(user')
    /\ \/ tokens' = tokens
       \/ \E n, k : tokens' = tokens \cup
             {[nr |-> n, kind |-> k, iat |-> IF k = "newSession" THEN now \div 2 + FutureSeconds ELSE now \div 2,
               at |-> now]}

LEMMA DatedKept ==
    ASSUME Dated, DatedStep
    PROVE  Dated'
<1>1. ASSUME NEW t \in tokens' PROVE t.at \in Nat /\ t.iat = Iat(t)
  <2>1. CASE t \in tokens
    BY <2>1 DEF Dated
  <2>2. CASE t \notin tokens
    <3>1. PICK n, k : t = [nr |-> n, kind |-> k,
                           iat |-> IF k = "newSession" THEN now \div 2 + FutureSeconds ELSE now \div 2,
                           at |-> now]
      BY <2>2 DEF DatedStep
    <3> QED BY <3>1 DEF Iat, Dated
  <2> QED BY <2>1, <2>2
<1>2. now' \in Nat /\ UserShape(user')
  BY DEF DatedStep
<1>3. \A t \in tokens' : t.at \in Nat /\ t.iat = Iat(t)
  BY <1>1
<1> QED BY <1>2, <1>3 DEF Dated, Iat

\* A row that is written is one again.
LEMMA UserWritten ==
    ASSUME NEW u, UserShape(u), NEW x, NEW n \in Int
    PROVE  /\ UserShape([u EXCEPT !.errorLoginCount = x]) /\ UserShape([u EXCEPT !.secret_2FA = x])
           /\ UserShape([u EXCEPT !.password = x, !.lastPasswordChangedAt = n])
           /\ UserShape([u EXCEPT !.errorLoginCount = x, !.lastPasswordChangedAt = n])
BY DEF UserShape

LEMMA CredDates ==
    ASSUME Dated, Cred!Next
    PROVE  DatedStep
<1> USE DEF Dated
<1>1. CASE Cred!tick
  BY <1>1 DEF Cred!tick, DatedStep
<1>2. CASE Cred!requestAccountRecovery \/ Cred!requestAccountUnblock
  BY <1>2 DEF Cred!requestAccountRecovery, Cred!sendAccountRecoveryEmail, Cred!requestAccountUnblock,
     Cred!sendAccountUnblockEmail, Cred!Sign, Cred!Second, Cred!getTokenDefaultIat, DatedStep
<1>3. ASSUME NEW r \in BOOLEAN, NEW k \in BOOLEAN, Cred!loginAccess(r, k) PROVE DatedStep
  BY <1>3 DEF Cred!loginAccess, Cred!Sign, Cred!Second, Cred!getTokenDefaultIat, DatedStep
<1>4. ASSUME NEW t \in tokens,
             \/ Cred!logout(t) \/ Cred!recoverAccount(t) \/ Cred!requestLegacyAccountRecovery(t)
             \/ Cred!accountUnblock(t) \/ Cred!deleteTfa(t)
             \/ \E s \in Secrets : Cred!putTfa(t, s)
             \/ \E kinds \in SUBSET Cred!UserKeysEncryptVersions :
                   \/ Cred!patchPassword(t, kinds)
                   \/ \E r \in BOOLEAN : Cred!recoverAccountV2(t, kinds, r)
      PROVE  now' = now /\ user' = user /\ tokens' = tokens
  BY <1>4 DEF Cred!logout, Cred!recoverAccount, Cred!updateCredentialsOld, Cred!recover,
     Cred!requestLegacyAccountRecovery, Cred!recoverAccountLegacy, Cred!accountUnblock, Cred!unblockAccount,
     Cred!deleteTfa, Cred!putTfa, Cred!patchPassword, Cred!recoverAccountV2, Cred!updateCredentials
<1>5. ASSUME NEW w \in requests, Cred!answerNewSession(w) PROVE DatedStep
  BY <1>5 DEF Cred!answerNewSession, Cred!Sign, Cred!Second, Cred!getFutureIAT, DatedStep
<1>6. ASSUME NEW w \in requests,
             \/ Cred!findOrCreateKeysForUser(w) \/ Cred!updateKey(w)
             \/ Cred!deleteByUserId(w) \/ Cred!unblockMailed(w) \/ Cred!requestDies(w)
      PROVE  now' = now /\ user' = user /\ tokens' = tokens
  BY <1>6 DEF Cred!findOrCreateKeysForUser, Cred!updateKey, Cred!deleteByUserId, Cred!unblockMailed,
     Cred!requestDies
<1>7. ASSUME NEW w \in requests,
             Cred!loginFailed(w) \/ Cred!updateById(w) \/ Cred!unblockWrites(w) \/ Cred!writeSecret(w)
      PROVE  now' = now /\ tokens' = tokens /\ UserShape(user')
  <2>1. UserShape(user) /\ now \in Int
    OBVIOUS
  <2>2. CASE Cred!loginFailed(w)
    <3>1. \E x : user' = [user EXCEPT !.errorLoginCount = x]
      BY <2>2 DEF Cred!loginFailed
    <3>2. PICK x : user' = [user EXCEPT !.errorLoginCount = x]
      BY <3>1
    <3>3. UserShape(user')
      BY <2>1, <3>2, UserWritten
    <3> QED BY <2>2, <3>3 DEF Cred!loginFailed
  <2>3. CASE Cred!updateById(w)
    BY <2>1, <2>3, UserWritten DEF Cred!updateById
  <2>4. CASE Cred!unblockWrites(w)
    BY <2>1, <2>4, UserWritten DEF Cred!unblockWrites, Cred!unblocks
  <2>5. CASE Cred!writeSecret(w)
    BY <2>1, <2>5, UserWritten DEF Cred!writeSecret
  <2> QED BY <1>7, <2>2, <2>3, <2>4, <2>5
<1>8. ASSUME now' = now, tokens' = tokens, UserShape(user') PROVE DatedStep
  BY <1>8 DEF DatedStep
<1> QED
  BY <1>1, <1>2, <1>3, <1>4, <1>5, <1>6, <1>7, <1>8 DEF Cred!Next, Cred!cliLoginAccess, Cred!postLoginAccess

\* The same of requests that race.
LEMMA CredTogetherDates ==
    ASSUME Dated, CredTogether!Next
    PROVE  DatedStep
<1> USE DEF Dated
<1>1. CASE CredTogether!tick
  BY <1>1 DEF CredTogether!tick, DatedStep
<1>2. CASE CredTogether!requestAccountRecovery \/ CredTogether!requestAccountUnblock
  BY <1>2 DEF CredTogether!requestAccountRecovery, CredTogether!sendAccountRecoveryEmail,
     CredTogether!requestAccountUnblock,
     CredTogether!sendAccountUnblockEmail, CredTogether!Sign, CredTogether!Second,
     CredTogether!getTokenDefaultIat, DatedStep
<1>3. ASSUME NEW r \in BOOLEAN, NEW k \in BOOLEAN, CredTogether!loginAccess(r, k) PROVE DatedStep
  BY <1>3 DEF CredTogether!loginAccess, CredTogether!Sign, CredTogether!Second,
     CredTogether!getTokenDefaultIat, DatedStep
<1>4. ASSUME NEW t \in tokens,
             \/ CredTogether!logout(t) \/ CredTogether!recoverAccount(t)
             \/ CredTogether!requestLegacyAccountRecovery(t)
             \/ CredTogether!accountUnblock(t) \/ CredTogether!deleteTfa(t)
             \/ \E s \in {} : CredTogether!putTfa(t, s)
             \/ \E kinds \in SUBSET CredTogether!UserKeysEncryptVersions :
                   \/ CredTogether!patchPassword(t, kinds)
                   \/ \E r \in BOOLEAN : CredTogether!recoverAccountV2(t, kinds, r)
      PROVE  now' = now /\ user' = user /\ tokens' = tokens
  BY <1>4 DEF CredTogether!logout, CredTogether!recoverAccount, CredTogether!updateCredentialsOld,
     CredTogether!recover,
     CredTogether!requestLegacyAccountRecovery, CredTogether!recoverAccountLegacy,
     CredTogether!accountUnblock, CredTogether!unblockAccount,
     CredTogether!deleteTfa, CredTogether!putTfa, CredTogether!patchPassword, CredTogether!recoverAccountV2,
     CredTogether!updateCredentials
<1>5. ASSUME NEW w \in requests, CredTogether!answerNewSession(w) PROVE DatedStep
  BY <1>5 DEF CredTogether!answerNewSession, CredTogether!Sign, CredTogether!Second,
     CredTogether!getFutureIAT, DatedStep
<1>6. ASSUME NEW w \in requests,
             \/ CredTogether!findOrCreateKeysForUser(w) \/ CredTogether!updateKey(w)
             \/ CredTogether!deleteByUserId(w) \/ CredTogether!unblockMailed(w) \/ CredTogether!requestDies(w)
      PROVE  now' = now /\ user' = user /\ tokens' = tokens
  BY <1>6 DEF CredTogether!findOrCreateKeysForUser, CredTogether!updateKey, CredTogether!deleteByUserId,
     CredTogether!unblockMailed,
     CredTogether!requestDies
<1>7. ASSUME NEW w \in requests,
             \/ CredTogether!loginFailed(w) \/ CredTogether!updateById(w)
             \/ CredTogether!unblockWrites(w) \/ CredTogether!writeSecret(w)
      PROVE  now' = now /\ tokens' = tokens /\ UserShape(user')
  <2>1. UserShape(user) /\ now \in Int
    OBVIOUS
  <2>2. CASE CredTogether!loginFailed(w)
    <3>1. \E x : user' = [user EXCEPT !.errorLoginCount = x]
      BY <2>2 DEF CredTogether!loginFailed
    <3>2. PICK x : user' = [user EXCEPT !.errorLoginCount = x]
      BY <3>1
    <3>3. UserShape(user')
      BY <2>1, <3>2, UserWritten
    <3> QED BY <2>2, <3>3 DEF CredTogether!loginFailed
  <2>3. CASE CredTogether!updateById(w)
    BY <2>1, <2>3, UserWritten DEF CredTogether!updateById
  <2>4. CASE CredTogether!unblockWrites(w)
    BY <2>1, <2>4, UserWritten DEF CredTogether!unblockWrites, CredTogether!unblocks
  <2>5. CASE CredTogether!writeSecret(w)
    BY <2>1, <2>5, UserWritten DEF CredTogether!writeSecret
  <2> QED BY <1>7, <2>2, <2>3, <2>4, <2>5
<1>8. ASSUME now' = now, tokens' = tokens, UserShape(user') PROVE DatedStep
  BY <1>8 DEF DatedStep
<1> QED
  BY <1>1, <1>2, <1>3, <1>4, <1>5, <1>6, <1>7, <1>8 DEF CredTogether!Next, CredTogether!cliLoginAccess,
     CredTogether!postLoginAccess

\* Sessions that were dated so follow the password.
LEMMA SessionsFollow ==
    ASSUME Dated
    PROVE  SessionsFollowPassword
<1>1. \A t \in tokens : t.kind = "session" => 2 * t.iat <= t.at
  BY DEF Dated, Iat
<1>2. \A t \in tokens : t.kind = "newSession" => t.at <= 2 * t.iat
  BY CredentialsConstants DEF Dated, Iat
<1>3. user.lastPasswordChangedAt \in Int /\ \A t \in tokens : t.at \in Nat /\ t.iat \in Nat
  BY CredentialsConstants DEF Dated, UserShape, Iat
<1>4. Cred!OldSessionsEnd
  BY <1>1, <1>3 DEF Cred!OldSessionsEnd, Cred!validate, Cred!issuedSinceLastPasswordChange, Cred!Never
<1>5. Cred!NewSessionWorks
  BY <1>2, <1>3 DEF Cred!NewSessionWorks, Cred!validate, Cred!issuedSinceLastPasswordChange
<1> QED BY <1>4, <1>5 DEF SessionsFollowPassword

\* However requests about credentials race, and whatever the times, the versions and the
\* limit of failed logins: the sessions of logins before a change of the password end with
\* it, and the session that answers the change is accepted.
THEOREM SessionsFollowThePassword == MCSpec => []SessionsFollowPassword
<1>1. MCInit => Dated
  <2> SUFFICES ASSUME Cred!Init PROVE Dated
    BY DEF MCInit
  <2>1. now = 0 /\ tokens = {}
    BY DEF Cred!Init
  <2>2. user = [password |-> 1, lastPasswordChangedAt |-> -1, errorLoginCount |-> 0, secret_2FA |-> 0]
    BY DEF Cred!Init, Cred!Never, Cred!None
  <2>3. UserShape(user)
    BY <2>2 DEF UserShape
  <2> QED BY <2>1, <2>3 DEF Dated
<1>2. Dated /\ [MCNext]_<<accountVars, part, credentialVars, mailVars>> => Dated'
  <2>1. ASSUME Dated, UNCHANGED credentialVars PROVE Dated'
    BY <2>1 DEF Dated, credentialVars, Iat
  <2> SUFFICES ASSUME Dated, Cred!Next \/ CredTogether!Next PROVE Dated'
    BY <2>1 DEF MCNext
  <2> QED BY CredDates, CredTogetherDates, DatedKept
<1> QED BY <1>1, <1>2, SessionsFollow, PTL DEF MCSpec

----------------------------------------------------------------------------
(* Writes that a request still has to do.                                  *)

Writes == {"loginSucceeded", "loginFailed", "createEcc", "createKyber", "row", "ecc", "kyber", "newSession",
           "deleteKeys", "mailed", "unblock", "secret"}

Has(s, op) == \E i \in 1 .. Len(s) : s[i] = op

LEMMA HasNothing == \A op : ~ Has(<< >>, op)
BY DEF Has

LEMMA HasTail ==
    ASSUME NEW s \in Seq(Writes), s # << >>
    PROVE  /\ Tail(s) \in Seq(Writes)
           /\ \A op : Has(s, op) <=> op = Head(s) \/ Has(Tail(s), op)
<1>1. Tail(s) \in Seq(Writes) /\ Len(Tail(s)) = Len(s) - 1 /\ \A i \in 1 .. Len(Tail(s)) : Tail(s)[i] = s[i + 1]
  BY HeadTailProperties
<1>2. Len(s) \in Nat /\ Len(s) > 0 /\ Head(s) = s[1]
  BY EmptySeq, HeadTailProperties
<1>3. ASSUME NEW op, Has(s, op), op # Head(s) PROVE Has(Tail(s), op)
  <2>1. PICK i \in 1 .. Len(s) : s[i] = op
    BY <1>3 DEF Has
  <2>2. i - 1 \in 1 .. Len(Tail(s)) /\ Tail(s)[i - 1] = s[(i - 1) + 1]
    BY <1>1, <1>2, <1>3, <2>1
  <2>3. (i - 1) + 1 = i
    OBVIOUS
  <2> QED BY <2>1, <2>2, <2>3 DEF Has
<1>4. ASSUME NEW op, Has(Tail(s), op) PROVE Has(s, op)
  <2>1. PICK i \in 1 .. Len(Tail(s)) : Tail(s)[i] = op
    BY <1>4 DEF Has
  <2>2. i + 1 \in 1 .. Len(s) /\ s[i + 1] = op
    BY <1>1, <1>2, <2>1
  <2> QED BY <2>2 DEF Has
<1>5. Has(s, Head(s))
  BY <1>2 DEF Has
<1> QED BY <1>1, <1>3, <1>4, <1>5

LEMMA HasJoined ==
    ASSUME NEW s \in Seq(Writes), NEW t \in Seq(Writes)
    PROVE  /\ s \o t \in Seq(Writes) /\ (t # << >> => s \o t # << >>) /\ (s # << >> => s \o t # << >>)
           /\ \A op : Has(s \o t, op) <=> Has(s, op) \/ Has(t, op)
<1>1. /\ s \o t \in Seq(Writes) /\ Len(s \o t) = Len(s) + Len(t)
      /\ \A i \in 1 .. Len(s) : (s \o t)[i] = s[i]
      /\ \A i \in 1 .. Len(t) : (s \o t)[Len(s) + i] = t[i]
  BY ConcatProperties
<1>2. Len(s) \in Nat /\ Len(t) \in Nat
  OBVIOUS
<1>3. ASSUME NEW op, Has(s, op) PROVE Has(s \o t, op)
  <2>1. PICK i \in 1 .. Len(s) : s[i] = op
    BY <1>3 DEF Has
  <2>2. i \in 1 .. Len(s \o t) /\ (s \o t)[i] = op
    BY <1>1, <1>2, <2>1
  <2> QED BY <2>2 DEF Has
<1>4. ASSUME NEW op, Has(t, op) PROVE Has(s \o t, op)
  <2>1. PICK i \in 1 .. Len(t) : t[i] = op
    BY <1>4 DEF Has
  <2>2. Len(s) + i \in 1 .. Len(s \o t) /\ (s \o t)[Len(s) + i] = op
    BY <1>1, <1>2, <2>1
  <2> QED BY <2>2 DEF Has
<1>5. ASSUME NEW op, Has(s \o t, op), ~ Has(s, op) PROVE Has(t, op)
  <2>1. PICK i \in 1 .. Len(s \o t) : (s \o t)[i] = op
    BY <1>5 DEF Has
  <2>2. i \notin 1 .. Len(s)
    BY <1>1, <1>5, <2>1 DEF Has
  <2>3. i - Len(s) \in 1 .. Len(t) /\ Len(s) + (i - Len(s)) = i
    BY <1>1, <1>2, <2>1, <2>2
  <2>4. t[i - Len(s)] = op
    BY <1>1, <2>1, <2>3
  <2> QED BY <2>3, <2>4 DEF Has
<1>6. (t # << >> => s \o t # << >>) /\ (s # << >> => s \o t # << >>)
  <2>1. (t # << >> => Len(t) > 0) /\ (s # << >> => Len(s) > 0)
    BY <1>2, EmptySeq
  <2> QED BY <1>1, <1>2, <2>1
<1> QED BY <1>1, <1>3, <1>4, <1>5, <1>6

LEMMA HasListed ==
    /\ \A a \in Writes : <<a>> \in Seq(Writes) /\ <<a>> # << >> /\ \A op : Has(<<a>>, op) <=> op = a
    /\ \A a, b \in Writes : <<a, b>> \in Seq(Writes) /\ <<a, b>> # << >> /\ \A op : Has(<<a, b>>, op) <=> op \in {a, b}
    /\ \A a, b, c \in Writes :
          <<a, b, c>> \in Seq(Writes) /\ <<a, b, c>> # << >> /\ \A op : Has(<<a, b, c>>, op) <=> op \in {a, b, c}
<1>1. ASSUME NEW a \in Writes
      PROVE  <<a>> \in Seq(Writes) /\ <<a>> # << >> /\ \A op : Has(<<a>>, op) <=> op = a
  <2>1. Len(<<a>>) = 1 /\ <<a>>[1] = a
    OBVIOUS
  <2>2. \A i : i \in 1 .. 1 <=> i \in {1}
    OBVIOUS
  <2>3. \A op : Has(<<a>>, op) <=> op = a
    BY <2>1, <2>2 DEF Has
  <2>4. <<a>> \in Seq(Writes)
    OBVIOUS
  <2>5. <<a>> # << >>
    BY <2>1
  <2> QED BY <2>3, <2>4, <2>5
<1>2. ASSUME NEW a \in Writes, NEW b \in Writes
      PROVE  <<a, b>> \in Seq(Writes) /\ <<a, b>> # << >> /\ \A op : Has(<<a, b>>, op) <=> op \in {a, b}
  <2>1. Len(<<a, b>>) = 2 /\ <<a, b>>[1] = a /\ <<a, b>>[2] = b
    OBVIOUS
  <2>2. \A i : i \in 1 .. 2 <=> i \in {1, 2}
    OBVIOUS
  <2>3. \A op : Has(<<a, b>>, op) <=> op \in {a, b}
    BY <2>1, <2>2 DEF Has
  <2>4. <<a, b>> \in Seq(Writes)
    OBVIOUS
  <2>5. <<a, b>> # << >>
    BY <2>1
  <2> QED BY <2>3, <2>4, <2>5
<1>3. ASSUME NEW a \in Writes, NEW b \in Writes, NEW c \in Writes
      PROVE  <<a, b, c>> \in Seq(Writes) /\ <<a, b, c>> # << >> /\ \A op : Has(<<a, b, c>>, op) <=> op \in {a, b, c}
  <2>1. Len(<<a, b, c>>) = 3 /\ <<a, b, c>>[1] = a /\ <<a, b, c>>[2] = b /\ <<a, b, c>>[3] = c
    OBVIOUS
  <2>2. \A i : i \in 1 .. 3 <=> i \in {1, 2, 3}
    OBVIOUS
  <2>3. \A op : Has(<<a, b, c>>, op) <=> op \in {a, b, c}
    BY <2>1, <2>2 DEF Has
  <2>4. <<a, b, c>> \in Seq(Writes)
    OBVIOUS
  <2>5. <<a, b, c>> # << >>
    BY <2>1
  <2> QED BY <2>3, <2>4, <2>5
<1> QED BY <1>1, <1>2, <1>3

----------------------------------------------------------------------------
(* Requests about credentials that run one at a time.                      *)

Final(p) == IF p = 0 THEN user.password ELSE p

\* With the writes s to come, a request that brings the password p, found f
\* failures and came with the mailed token n leaves what is promised.
Fits(s, p, f, n) ==
    /\ p = 0 \/ user.password = p \/ Has(s, "row")
    /\ \A k \in {"ecc", "kyber"} : keys[k] \in {0, Final(p)} \/ Has(s, k) \/ Has(s, "deleteKeys")
    /\ n # 0 => \E t \in tokens : t.nr = n /\ t.at < now /\
                   (Has(s, "row") \/ Has(s, "unblock") \/ t.at < user.lastPasswordChangedAt)
    /\ \A t \in tokens : t.kind = "unblock" => t.iat <= IF Has(s, "mailed") THEN f ELSE lastMailSent
    /\ IF Has(s, "loginFailed")
         THEN wrong <= f + 1 /\ f < MAX_LOGIN_FAIL_ATTEMPTS
         ELSE wrong <= user.errorLoginCount /\ user.errorLoginCount <= MAX_LOGIN_FAIL_ATTEMPTS

WorkShape(w) ==
    /\ {"nr", "todo", "password", "failures", "secret", "token"} \subseteq DOMAIN w
    /\ w.todo \in Seq(Writes) /\ w.todo # << >>
    /\ w.password \in Nat /\ w.failures \in Int /\ w.token \in Nat
    /\ Has(w.todo, "row") => w.password # 0
    /\ Has(w.todo, "loginFailed") => Tail(w.todo) = << >>

Columns ==
    /\ user.password \in Nat /\ user.errorLoginCount \in Int /\ user.lastPasswordChangedAt <= now
    /\ keys \in [{"ecc", "kyber"} -> Nat]
    /\ lastMailSent \in Int /\ given \in Nat /\ wrong \in Nat

TokensNumbered ==
    /\ IsFiniteSet(tokens)
    /\ \A t \in tokens : t.nr \in 1 .. Cardinality(tokens) /\ t.at <= now
    /\ \A t, u \in tokens : t.nr = u.nr => t = u

OneRequest ==
    /\ \A w \in requests : WorkShape(w)
    /\ \A v, w \in requests : v = w

\* A token that was spent is older than the last change.
SpentAreOld ==
    /\ spent \subseteq 1 .. Cardinality(tokens)
    /\ \A t \in tokens : t.nr \in spent => t.at < user.lastPasswordChangedAt

Promised ==
    ~ stopped =>
        /\ SpentAreOld
        /\ requests = {} => Fits(<< >>, 0, 0, 0)
        /\ \A w \in requests : Fits(w.todo, w.password, w.failures, w.token)

CredInv == Dated /\ Columns /\ TokensNumbered /\ OneRequest /\ Promised

CredUnchanged == UNCHANGED <<now, user, keys, tokens, lastMailSent, wrong, spent, stopped>>

LEMMA FitsStay ==
    ASSUME NEW s, NEW p, NEW f, NEW n, Fits(s, p, f, n), UNCHANGED <<now, user, keys, tokens, lastMailSent, wrong>>
    PROVE  Fits(s, p, f, n)'
BY DEF Fits, Final

LEMMA CredStays ==
    ASSUME CredInv, CredUnchanged, UNCHANGED <<given, requests>>
    PROVE  CredInv'
<1> USE DEF CredUnchanged
<1>1. Dated' /\ Columns' /\ TokensNumbered'
  BY DEF CredInv, Dated, Iat, Columns, TokensNumbered
<1>2. OneRequest'
  BY DEF CredInv, OneRequest
<1>3. Promised'
  BY FitsStay DEF CredInv, Promised, SpentAreOld
<1> QED BY <1>1, <1>2, <1>3 DEF CredInv

\* A request that begins is the only one.
LEMMA CredBegins ==
    ASSUME CredInv, NEW w, WorkShape(w), Cred!Begin(w),
           Dated', Columns', TokensNumbered', stopped' = stopped,
           ~ stopped => SpentAreOld' /\ Fits(w.todo, w.password, w.failures, w.token)'
    PROVE  CredInv'
<1>1. requests = {}
  BY DEF Cred!Begin, Cred!Quiet
<1>2. PICK k : requests' = {[w EXCEPT !.nr = k]}
  BY <1>1 DEF Cred!Begin
<1> DEFINE v == [w EXCEPT !.nr = k]
<1>3. /\ DOMAIN v = DOMAIN w
      /\ v.todo = w.todo /\ v.password = w.password /\ v.failures = w.failures /\ v.token = w.token
  BY DEF WorkShape
<1>4. WorkShape(v)
  BY <1>3 DEF WorkShape
<1>5. requests' = {v}
  BY <1>2
<1> HIDE DEF v
<1>6. OneRequest'
  BY <1>4, <1>5 DEF OneRequest
<1>7. Promised'
  BY <1>3, <1>5 DEF Promised
<1> QED BY <1>6, <1>7 DEF CredInv

\* One that only reads before it begins.
LEMMA CredReads ==
    ASSUME CredInv, NEW w, WorkShape(w), Cred!Begin(w), CredUnchanged, given' \in Nat,
           ~ stopped => Fits(w.todo, w.password, w.failures, w.token)
    PROVE  CredInv'
<1>1. Dated' /\ Columns' /\ TokensNumbered'
  BY DEF CredInv, Dated, Iat, Columns, TokensNumbered, CredUnchanged
<1>2. ~ stopped => SpentAreOld'
  BY DEF CredInv, Promised, SpentAreOld, CredUnchanged
<1>3. ~ stopped => Fits(w.todo, w.password, w.failures, w.token)'
  <2> SUFFICES ASSUME ~ stopped PROVE Fits(w.todo, w.password, w.failures, w.token)'
    OBVIOUS
  <2>1. ASSUME NEW s, NEW p, NEW f, NEW n, Fits(s, p, f, n) PROVE Fits(s, p, f, n)'
    BY <2>1, FitsStay DEF CredUnchanged
  <2> QED BY <2>1
<1> QED BY <1>1, <1>2, <1>3, CredBegins DEF CredUnchanged

\* A request after one of its writes.
LEMMA CredGoesOn ==
    ASSUME CredInv, NEW w \in requests, Cred!Goes(w),
           Dated', Columns', TokensNumbered', stopped' = stopped,
           ~ stopped => /\ spent \subseteq 1 .. Cardinality(tokens')
                        /\ \A t \in tokens' : t.nr \in spent => t.at < user'.lastPasswordChangedAt
                        /\ Fits(Tail(w.todo), w.password, w.failures, w.token)'
    PROVE  CredInv'
<1>1. requests = {w} /\ WorkShape(w)
  BY DEF CredInv, OneRequest
<1>2. Tail(w.todo) \in Seq(Writes) /\ \A op : Has(Tail(w.todo), op) => Has(w.todo, op)
  BY <1>1, HasTail DEF WorkShape
<1>3. CASE Tail(w.todo) = << >>
  <2>1. requests' = {} /\ spent' = IF w.token # 0 THEN spent \cup {w.token} ELSE spent
    BY <1>1, <1>3 DEF Cred!Goes
  <2>2. OneRequest'
    BY <2>1 DEF OneRequest
  <2>3. ASSUME ~ stopped PROVE Fits(<< >>, 0, 0, 0)'
    <3>1. Fits(<< >>, w.password, w.failures, w.token)'
      BY <1>3, <2>3
    <3> QED BY <3>1, HasNothing DEF Fits, Final
  <2>4. ASSUME ~ stopped PROVE SpentAreOld'
    <3>1. Fits(<< >>, w.password, w.failures, w.token)'
      BY <1>3, <2>4
    <3>2. w.token # 0 => \E t \in tokens' : t.nr = w.token /\ t.at < user'.lastPasswordChangedAt
      BY <3>1, HasNothing DEF Fits
    <3>3. w.token # 0 => w.token \in 1 .. Cardinality(tokens') /\
             \A t \in tokens' : t.nr = w.token => t.at < user'.lastPasswordChangedAt
      BY <3>2 DEF TokensNumbered
    <3> QED BY <2>1, <2>4, <3>3 DEF SpentAreOld
  <2>5. Promised'
    BY <2>1, <2>3, <2>4 DEF Promised
  <2> QED BY <2>2, <2>5 DEF CredInv
<1>4. CASE Tail(w.todo) # << >>
  <2> DEFINE v == [w EXCEPT !.todo = Tail(w.todo)]
  <2>1. requests' = {v} /\ spent' = spent
    BY <1>1, <1>4 DEF Cred!Goes
  <2>2. /\ DOMAIN v = DOMAIN w
        /\ v.todo = Tail(w.todo) /\ v.password = w.password /\ v.failures = w.failures /\ v.token = w.token
    BY <1>1 DEF WorkShape
  <2> HIDE DEF v
  <2>3. WorkShape(v)
    BY <1>1, <1>2, <1>4, <2>2 DEF WorkShape
  <2>4. OneRequest'
    BY <2>1, <2>3 DEF OneRequest
  <2>5. Promised'
    BY <2>1, <2>2 DEF Promised, SpentAreOld
  <2> QED BY <2>4, <2>5 DEF CredInv
<1> QED BY <1>3, <1>4

LEMMA CredCardinality == \A S : Cred!Cardinality(S) = Cardinality(S)
BY Zenon DEF Cred!Cardinality, Cardinality

\* A token that is signed has a number of its own.
LEMMA SignNumbers ==
    ASSUME TokensNumbered, Dated, NEW k, NEW d, Cred!Sign(k, d), now' = now
    PROVE  /\ TokensNumbered' /\ Cardinality(tokens') = Cardinality(tokens) + 1 /\ Cardinality(tokens) \in Nat
           /\ \E t : tokens' = tokens \cup {t} /\ t.kind = k /\ t.iat = d /\ t.at = now /\
                     t.nr = Cardinality(tokens) + 1
<1>1. PICK t : tokens' = tokens \cup {t} /\ t.kind = k /\ t.iat = d /\ t.at = now /\
               t.nr = Cardinality(tokens) + 1
  <2>1. PICK t : t = [nr |-> Cred!Cardinality(tokens) + 1, kind |-> k, iat |-> d, at |-> now]
    OBVIOUS
  <2>2. tokens' = tokens \cup {t}
    BY <2>1 DEF Cred!Sign
  <2>3. Cred!Cardinality(tokens) = Cardinality(tokens)
    BY CredCardinality
  <2>4. t.kind = k /\ t.iat = d /\ t.at = now /\ t.nr = Cardinality(tokens) + 1
    BY <2>1, <2>3
  <2> QED BY <2>2, <2>4
<1>2. Cardinality(tokens) \in Nat /\ IsFiniteSet(tokens)
  BY FS_CardinalityType DEF TokensNumbered
<1>3. t \notin tokens
  BY <1>1, <1>2 DEF TokensNumbered
<1>4. IsFiniteSet(tokens') /\ Cardinality(tokens') = Cardinality(tokens) + 1
  BY <1>1, <1>2, <1>3, FS_AddElement
<1>5. \A u \in tokens' : u.nr \in 1 .. Cardinality(tokens') /\ u.at <= now'
  BY <1>1, <1>2, <1>4 DEF TokensNumbered, Dated
<1>6. \A u, x \in tokens' : u.nr = x.nr => u = x
  BY <1>1, <1>2 DEF TokensNumbered
<1> QED BY <1>1, <1>2, <1>4, <1>5, <1>6 DEF TokensNumbered

----------------------------------------------------------------------------
(* Beginnings.                                                             *)

\* Between requests.
LEMMA CredQuiet ==
    ASSUME CredInv, requests = {}, ~ stopped
    PROVE  /\ \A k \in {"ecc", "kyber"} : keys[k] \in {0, user.password}
           /\ \A t \in tokens : t.kind = "unblock" => t.iat <= lastMailSent
           /\ wrong <= user.errorLoginCount /\ user.errorLoginCount <= MAX_LOGIN_FAIL_ATTEMPTS
BY HasNothing DEF CredInv, Promised, Fits, Final

LEMMA BeginQuiet == ASSUME NEW w, Cred!Begin(w) PROVE requests = {}
BY DEF Cred!Begin, Cred!Quiet

LEMMA WriteNames ==
    /\ "loginSucceeded" \in Writes /\ "loginFailed" \in Writes /\ "createEcc" \in Writes
    /\ "createKyber" \in Writes /\ "row" \in Writes /\ "ecc" \in Writes /\ "kyber" \in Writes
    /\ "newSession" \in Writes /\ "deleteKeys" \in Writes /\ "mailed" \in Writes
    /\ "unblock" \in Writes /\ "secret" \in Writes
BY DEF Writes

\* A change of password, with a mailed token or of a session.
LEMMA PasswordBegins ==
    ASSUME CredInv, NEW s \in Seq(Writes), s # << >>, Has(s, "row"), ~ Has(s, "loginFailed"), ~ Has(s, "mailed"),
           NEW n \in Nat, n # 0 => \E t \in tokens : t.nr = n /\ t.at < now,
           \A k \in {"ecc", "kyber"} : Has(s, k) \/ Has(s, "deleteKeys") \/ keys[k] = 0,
           Cred!NewPassword, CredUnchanged,
           NEW w, w = [nr |-> 0, todo |-> s, password |-> given + 1, failures |-> 0, secret |-> 0, token |-> n],
           Cred!Begin(w)
    PROVE  CredInv'
<1>1. /\ {"nr", "todo", "password", "failures", "secret", "token"} \subseteq DOMAIN w
      /\ w.todo = s /\ w.password = given + 1 /\ w.failures = 0 /\ w.token = n
  OBVIOUS
<1>2. given \in Nat /\ given' \in Nat
  BY DEF CredInv, Columns, Cred!NewPassword
<1>3. WorkShape(w)
  BY <1>1, <1>2 DEF WorkShape
<1>4. ~ stopped => Fits(s, given + 1, 0, n)
  BY CredQuiet, BeginQuiet DEF Fits
<1> QED BY <1>1, <1>2, <1>3, <1>4, CredReads

LEMMA PatchBegins ==
    ASSUME CredInv, NEW t, NEW kinds, Cred!patchPassword(t, kinds)
    PROVE  CredInv'
<1> DEFINE u == Cred!keysToUpdate(kinds)
           s == <<"row">> \o u \o <<"newSession">>
<1>1. u = (IF "kyber" \in kinds THEN <<"ecc", "kyber">> ELSE <<"ecc">>)
  BY DEF Cred!keysToUpdate
<1>2. u \in Seq(Writes) /\ \A op : Has(u, op) <=> op = "ecc" \/ (op = "kyber" /\ "kyber" \in kinds)
  <2>1. CASE "kyber" \in kinds
    BY <1>1, <2>1, HasListed, WriteNames
  <2>2. CASE "kyber" \notin kinds
    BY <1>1, <2>2, HasListed, WriteNames
  <2> QED BY <2>1, <2>2
<1> HIDE DEF u
<1>3. /\ <<"row">> \in Seq(Writes) /\ <<"row">> # << >> /\ \A op : Has(<<"row">>, op) <=> op = "row"
      /\ <<"newSession">> \in Seq(Writes) /\ \A op : Has(<<"newSession">>, op) <=> op = "newSession"
  BY HasListed, WriteNames
<1>4. /\ <<"row">> \o u \in Seq(Writes) /\ <<"row">> \o u # << >>
      /\ \A op : Has(<<"row">> \o u, op) <=> op = "row" \/ Has(u, op)
  BY <1>2, <1>3, HasJoined
<1>5. s \in Seq(Writes) /\ s # << >> /\ \A op : Has(s, op) <=> op = "row" \/ Has(u, op) \/ op = "newSession"
  BY <1>3, <1>4, HasJoined
<1>6. /\ keys["kyber"] # 0 => "kyber" \in kinds
      /\ Cred!NewPassword /\ Cred!Begin([Cred!NewRequest(s) EXCEPT !.password = given + 1])
      /\ CredUnchanged
  BY DEF Cred!patchPassword, Cred!updatePassword, Cred!None, CredUnchanged, u
<1> HIDE DEF s
<1>7. PICK w : w = [Cred!NewRequest(s) EXCEPT !.password = given + 1]
  OBVIOUS
<1>8. w = [nr |-> 0, todo |-> s, password |-> given + 1, failures |-> 0, secret |-> 0, token |-> 0]
  BY <1>7 DEF Cred!NewRequest, Cred!None
<1>9. \A k \in {"ecc", "kyber"} : Has(s, k) \/ keys[k] = 0
  BY <1>2, <1>5, <1>6
<1>10. Has(s, "row") /\ ~ Has(s, "loginFailed") /\ ~ Has(s, "mailed")
  BY <1>2, <1>5
<1> QED BY <1>5, <1>6, <1>7, <1>8, <1>9, <1>10, PasswordBegins

LEMMA RecoverBegins ==
    ASSUME CredInv, NEW t \in tokens, NEW s \in Seq(Writes), s # << >>, Has(s, "row"),
           ~ Has(s, "loginFailed"), ~ Has(s, "mailed"),
           \A k \in {"ecc", "kyber"} : Has(s, k) \/ Has(s, "deleteKeys") \/ keys[k] = 0,
           Cred!recover(t, s)
    PROVE  CredInv'
<1>1. t.nr \in Nat /\ t.at < now
  <2>1. Cardinality(tokens) \in Nat
    BY FS_CardinalityType DEF CredInv, TokensNumbered
  <2>2. t.nr \in Nat
    BY <2>1 DEF CredInv, TokensNumbered
  <2>3. t.at < now
    BY DEF Cred!recover, Cred!verifyAndDecodeAccountRecoveryToken, CredInv, Dated
  <2> QED BY <2>2, <2>3
<1>2. PICK w : w = [Cred!NewRequest(s) EXCEPT !.password = given + 1, !.token = t.nr]
  OBVIOUS
<1>3. Cred!NewPassword /\ Cred!Begin(w) /\ CredUnchanged
  BY <1>2 DEF Cred!recover, CredUnchanged
<1>4. w = [nr |-> 0, todo |-> s, password |-> given + 1, failures |-> 0, secret |-> 0, token |-> t.nr]
  BY <1>2 DEF Cred!NewRequest, Cred!None
<1>5. PICK n : n = t.nr
  OBVIOUS
<1> QED BY <1>1, <1>3, <1>4, <1>5, PasswordBegins

LEMMA RecoveriesBegin ==
    ASSUME CredInv, NEW t \in tokens,
           \/ Cred!recoverAccount(t) \/ Cred!requestLegacyAccountRecovery(t)
           \/ \E kinds \in SUBSET Cred!UserKeysEncryptVersions, r \in BOOLEAN : Cred!recoverAccountV2(t, kinds, r)
    PROVE  CredInv'
<1>1. CASE Cred!recoverAccount(t)
  <2>1. Cred!recover(t, <<"row", "deleteKeys">>)
    BY <1>1 DEF Cred!recoverAccount, Cred!updateCredentialsOld
  <2>2. PICK s : s = <<"row", "deleteKeys">>
    OBVIOUS
  <2>3. s \in Seq(Writes) /\ s # << >> /\ \A op : Has(s, op) <=> op \in {"row", "deleteKeys"}
    BY <2>2, HasListed, WriteNames
  <2>4. Cred!recover(t, s)
    BY <2>1, <2>2
  <2> QED BY <2>3, <2>4, RecoverBegins
<1>2. CASE Cred!requestLegacyAccountRecovery(t)
  <2>1. Cred!recover(t, <<"ecc", "kyber", "row">>)
    BY <1>2 DEF Cred!requestLegacyAccountRecovery, Cred!recoverAccountLegacy
  <2>2. PICK s : s = <<"ecc", "kyber", "row">>
    OBVIOUS
  <2>3. s \in Seq(Writes) /\ s # << >> /\ \A op : Has(s, op) <=> op \in {"ecc", "kyber", "row"}
    BY <2>2, HasListed, WriteNames
  <2>4. Cred!recover(t, s)
    BY <2>1, <2>2
  <2> QED BY <2>3, <2>4, RecoverBegins
<1>3. ASSUME NEW kinds \in SUBSET Cred!UserKeysEncryptVersions, NEW r \in BOOLEAN, Cred!recoverAccountV2(t, kinds, r)
      PROVE  CredInv'
  <2>1. CASE r
    <3>1. Cred!recover(t, <<"deleteKeys", "row">>)
      BY <1>3, <2>1 DEF Cred!recoverAccountV2, Cred!updateCredentials
    <3>2. PICK s : s = <<"deleteKeys", "row">>
      OBVIOUS
    <3>3. s \in Seq(Writes) /\ s # << >> /\ \A op : Has(s, op) <=> op \in {"deleteKeys", "row"}
      BY <3>2, HasListed, WriteNames
    <3>4. Cred!recover(t, s)
      BY <3>1, <3>2
    <3> QED BY <3>3, <3>4, RecoverBegins
  <2>2. CASE ~ r
    <3> DEFINE e == IF "ecc" \in kinds THEN <<"ecc">> ELSE << >>
               y == IF "kyber" \in kinds THEN <<"kyber">> ELSE << >>
               s == (e \o y) \o <<"row">>
    <3>1. /\ e \in Seq(Writes) /\ \A op : Has(e, op) <=> op = "ecc" /\ "ecc" \in kinds
          /\ y \in Seq(Writes) /\ \A op : Has(y, op) <=> op = "kyber" /\ "kyber" \in kinds
      BY HasListed, HasNothing, WriteNames
    <3>2. <<"row">> \in Seq(Writes) /\ <<"row">> # << >> /\ \A op : Has(<<"row">>, op) <=> op = "row"
      BY HasListed, WriteNames
    <3>3. Cred!recover(t, s)
      BY <1>3, <2>2 DEF Cred!recoverAccountV2, Cred!updateCredentials, Cred!keysToRecover
    <3>4. \A k \in {"ecc", "kyber"} : keys[k] = 0 \/ k \in kinds
      BY <1>3 DEF Cred!recoverAccountV2, Cred!UserKeysEncryptVersions, Cred!None
    <3> HIDE DEF e, y
    <3>5. e \o y \in Seq(Writes) /\ \A op : Has(e \o y, op) <=> Has(e, op) \/ Has(y, op)
      BY <3>1, HasJoined
    <3>6. s \in Seq(Writes) /\ s # << >> /\ \A op : Has(s, op) <=> Has(e, op) \/ Has(y, op) \/ op = "row"
      BY <3>2, <3>5, HasJoined
    <3> HIDE DEF s
    <3>7. \A k \in {"ecc", "kyber"} : Has(s, k) \/ keys[k] = 0
      BY <3>1, <3>4, <3>6
    <3> QED BY <3>1, <3>3, <3>6, <3>7, RecoverBegins
  <2> QED BY <2>1, <2>2
<1> QED BY <1>1, <1>2, <1>3

\* Requests that change neither the password nor the keys.
LEMMA UnblockBegins ==
    ASSUME CredInv, NEW t \in tokens, Cred!accountUnblock(t)
    PROVE  CredInv'
<1>1. t.nr \in Nat /\ t.at < now
  <2>1. Cardinality(tokens) \in Nat
    BY FS_CardinalityType DEF CredInv, TokensNumbered
  <2>2. t.nr \in Nat
    BY <2>1 DEF CredInv, TokensNumbered
  <2>3. t.at < now
    BY DEF Cred!accountUnblock, Cred!unblockAccount, Cred!mayUnblock, CredInv, Dated
  <2> QED BY <2>2, <2>3
<1>2. PICK w : w = [Cred!NewRequest(<<"unblock">>) EXCEPT !.token = t.nr]
  OBVIOUS
<1>3. Cred!Begin(w) /\ CredUnchanged /\ given' = given
  BY <1>2 DEF Cred!accountUnblock, Cred!unblockAccount, CredUnchanged
<1>4. /\ <<"unblock">> \in Seq(Writes) /\ <<"unblock">> # << >>
      /\ \A op : Has(<<"unblock">>, op) <=> op = "unblock"
  BY HasListed, WriteNames
<1>5. w = [nr |-> 0, todo |-> <<"unblock">>, password |-> 0, failures |-> 0, secret |-> 0, token |-> t.nr]
  BY <1>2 DEF Cred!NewRequest, Cred!None
<1>6. WorkShape(w) /\ w.todo = <<"unblock">> /\ w.password = 0 /\ w.failures = 0 /\ w.token = t.nr
  <2>1. w.todo = <<"unblock">> /\ w.password = 0 /\ w.failures = 0 /\ w.token = t.nr
    BY <1>5
  <2>2. {"nr", "todo", "password", "failures", "secret", "token"} \subseteq DOMAIN w
    BY <1>5
  <2>3. WorkShape(w)
    BY <1>1, <1>4, <2>1, <2>2 DEF WorkShape
  <2> QED BY <2>1, <2>3
<1>7. ~ stopped => Fits(<<"unblock">>, 0, 0, t.nr)
  BY <1>1, <1>3, <1>4, CredQuiet, BeginQuiet DEF Fits, Final
<1>8. given' \in Nat
  BY <1>3 DEF CredInv, Columns
<1> QED BY <1>3, <1>6, <1>7, <1>8, CredReads

LEMMA FactorBegins ==
    ASSUME CredInv, NEW t \in tokens, Cred!deleteTfa(t) \/ \E s \in Secrets : Cred!putTfa(t, s)
    PROVE  CredInv'
<1>1. PICK s : /\ Cred!Begin([Cred!NewRequest(<<"secret">>) EXCEPT !.secret = s])
               /\ CredUnchanged /\ given' = given
  <2>1. CASE Cred!deleteTfa(t)
    <3>1. Cred!NewRequest(<<"secret">>) = [Cred!NewRequest(<<"secret">>) EXCEPT !.secret = 0]
      BY DEF Cred!NewRequest, Cred!None
    <3> QED BY <2>1, <3>1 DEF Cred!deleteTfa, CredUnchanged
  <2>2. CASE \E s \in Secrets : Cred!putTfa(t, s)
    BY <2>2 DEF Cred!putTfa, CredUnchanged
  <2> QED BY <2>1, <2>2
<1>2. PICK w : w = [Cred!NewRequest(<<"secret">>) EXCEPT !.secret = s]
  OBVIOUS
<1>3. /\ <<"secret">> \in Seq(Writes) /\ <<"secret">> # << >>
      /\ \A op : Has(<<"secret">>, op) <=> op = "secret"
  BY HasListed, WriteNames
<1>4. w = [nr |-> 0, todo |-> <<"secret">>, password |-> 0, failures |-> 0, secret |-> s, token |-> 0]
  BY <1>2 DEF Cred!NewRequest, Cred!None
<1>5. WorkShape(w) /\ w.todo = <<"secret">> /\ w.password = 0 /\ w.failures = 0 /\ w.token = 0
  <2>1. w.todo = <<"secret">> /\ w.password = 0 /\ w.failures = 0 /\ w.token = 0
    BY <1>4
  <2>2. {"nr", "todo", "password", "failures", "secret", "token"} \subseteq DOMAIN w
    BY <1>4
  <2>3. WorkShape(w)
    BY <1>1, <1>3, <2>1, <2>2 DEF WorkShape
  <2> QED BY <2>1, <2>3
<1>6. ~ stopped => Fits(<<"secret">>, 0, 0, 0)
  BY <1>1, <1>2, <1>3, CredQuiet, BeginQuiet DEF Fits, Final
<1>7. given' \in Nat
  BY <1>1 DEF CredInv, Columns
<1> QED BY <1>1, <1>2, <1>5, <1>6, <1>7, CredReads

\* Where a token that is no mail to unblock is signed, what is to come still fits.
LEMMA FitsSigned ==
    ASSUME NEW s, NEW p, NEW f, NEW n, Fits(s, p, f, n),
           UNCHANGED <<now, user, keys, lastMailSent, wrong>>,
           NEW t, tokens' = tokens \cup {t}, t.kind # "unblock"
    PROVE  Fits(s, p, f, n)'
<1>1. /\ (p = 0 \/ user.password = p \/ Has(s, "row"))'
      /\ (\A k \in {"ecc", "kyber"} : keys[k] \in {0, Final(p)} \/ Has(s, k) \/ Has(s, "deleteKeys"))'
  BY DEF Fits, Final
<1>2. (n # 0 => \E u \in tokens : u.nr = n /\ u.at < now /\
                   (Has(s, "row") \/ Has(s, "unblock") \/ u.at < user.lastPasswordChangedAt))'
  BY DEF Fits
<1>3. (\A u \in tokens : u.kind = "unblock" => u.iat <= IF Has(s, "mailed") THEN f ELSE lastMailSent)'
  BY DEF Fits
<1>4. (IF Has(s, "loginFailed")
         THEN wrong <= f + 1 /\ f < MAX_LOGIN_FAIL_ATTEMPTS
         ELSE wrong <= user.errorLoginCount /\ user.errorLoginCount <= MAX_LOGIN_FAIL_ATTEMPTS)'
  BY DEF Fits
<1> QED BY <1>1, <1>2, <1>3, <1>4 DEF Fits

\* A new token was not spent.
LEMMA SpentSigned ==
    ASSUME TokensNumbered, SpentAreOld, NEW t, tokens' = tokens \cup {t}, t.nr = Cardinality(tokens) + 1,
           Cardinality(tokens) \in Nat, Cardinality(tokens') = Cardinality(tokens) + 1,
           user' = user
    PROVE  /\ spent \subseteq 1 .. Cardinality(tokens')
           /\ \A u \in tokens' : u.nr \in spent => u.at < user'.lastPasswordChangedAt
BY DEF SpentAreOld, TokensNumbered

LEMMA RecoveryMailed ==
    ASSUME CredInv, Cred!requestAccountRecovery
    PROVE  CredInv'
<1>1. /\ Cred!Sign("recovery", now \div 2) /\ requests = {} /\ requests' = {} /\ spent' = spent
      /\ UNCHANGED <<now, user, keys, lastMailSent, given, wrong, stopped>>
  BY DEF Cred!requestAccountRecovery, Cred!sendAccountRecoveryEmail, Cred!Second, Cred!Quiet
<1>2. PICK t : tokens' = tokens \cup {t} /\ t.kind = "recovery" /\ t.iat = now \div 2 /\ t.at = now /\
               t.nr = Cardinality(tokens) + 1
  BY <1>1, SignNumbers DEF CredInv
<1>3. TokensNumbered' /\ Cardinality(tokens') = Cardinality(tokens) + 1 /\ Cardinality(tokens) \in Nat
  BY <1>1, SignNumbers DEF CredInv
<1>4. Dated'
  BY <1>1, <1>2 DEF CredInv, Dated, Iat
<1>5. Columns' /\ OneRequest'
  BY <1>1 DEF CredInv, Columns, OneRequest
<1>6. ASSUME ~ stopped PROVE SpentAreOld' /\ Fits(<< >>, 0, 0, 0)'
  <2>1. Fits(<< >>, 0, 0, 0) /\ SpentAreOld /\ TokensNumbered
    BY <1>1, <1>6 DEF CredInv, Promised
  <2>2. Fits(<< >>, 0, 0, 0)'
    BY <1>1, <1>2, <2>1, FitsSigned
  <2>3. SpentAreOld'
    BY <1>1, <1>2, <1>3, <2>1, SpentSigned DEF SpentAreOld
  <2> QED BY <2>2, <2>3
<1>7. Promised'
  BY <1>1, <1>6 DEF Promised
<1> QED BY <1>3, <1>4, <1>5, <1>7 DEF CredInv

\* The mail to unblock is the newest.
LEMMA UnblockMailBegins ==
    ASSUME CredInv, Cred!requestAccountUnblock
    PROVE  CredInv'
<1>1. /\ Cred!Sign("unblock", now \div 2)
      /\ Cred!Begin([Cred!NewRequest(<<"mailed">>) EXCEPT !.failures = now \div 2])
      /\ UNCHANGED <<now, user, keys, lastMailSent, given, spent, wrong, stopped>>
  BY DEF Cred!requestAccountUnblock, Cred!sendAccountUnblockEmail, Cred!getTokenDefaultIat, Cred!Second
<1>2. PICK t : tokens' = tokens \cup {t} /\ t.kind = "unblock" /\ t.iat = now \div 2 /\ t.at = now /\
               t.nr = Cardinality(tokens) + 1
  BY <1>1, SignNumbers DEF CredInv
<1>3. TokensNumbered' /\ Cardinality(tokens') = Cardinality(tokens) + 1 /\ Cardinality(tokens) \in Nat
  BY <1>1, SignNumbers DEF CredInv
<1>4. Dated'
  BY <1>1, <1>2 DEF CredInv, Dated, Iat
<1>5. Columns'
  BY <1>1 DEF CredInv, Columns
<1>6. PICK w : w = [Cred!NewRequest(<<"mailed">>) EXCEPT !.failures = now \div 2]
  OBVIOUS
<1>7. /\ <<"mailed">> \in Seq(Writes) /\ <<"mailed">> # << >>
      /\ \A op : Has(<<"mailed">>, op) <=> op = "mailed"
  BY HasListed, WriteNames
<1>8. w = [nr |-> 0, todo |-> <<"mailed">>, password |-> 0, failures |-> now \div 2, secret |-> 0, token |-> 0]
  BY <1>6 DEF Cred!NewRequest, Cred!None
<1>9. w.todo = <<"mailed">> /\ w.password = 0 /\ w.failures = now \div 2 /\ w.token = 0
  BY <1>8
<1>10. now \div 2 \in Int /\ \A u \in tokens : u.kind = "unblock" => u.iat <= now \div 2
  BY DEF CredInv, Dated, Iat, TokensNumbered
<1>11. WorkShape(w)
  <2>1. {"nr", "todo", "password", "failures", "secret", "token"} \subseteq DOMAIN w
    BY <1>8
  <2> QED BY <1>7, <1>9, <1>10, <2>1 DEF WorkShape
<1>12. ASSUME ~ stopped PROVE SpentAreOld' /\ Fits(w.todo, w.password, w.failures, w.token)'
  <2>1. SpentAreOld /\ TokensNumbered
    BY <1>12 DEF CredInv, Promised
  <2>2. SpentAreOld'
    BY <1>1, <1>2, <1>3, <2>1, SpentSigned DEF SpentAreOld
  <2>3. /\ \A k \in {"ecc", "kyber"} : keys[k] \in {0, user.password}
        /\ wrong <= user.errorLoginCount /\ user.errorLoginCount <= MAX_LOGIN_FAIL_ATTEMPTS
    BY <1>1, <1>12, CredQuiet, BeginQuiet
  <2>4. \A u \in tokens' : u.kind = "unblock" => u.iat <= w.failures
    BY <1>2, <1>9, <1>10
  <2>5. Fits(w.todo, w.password, w.failures, w.token)'
    BY <1>1, <1>7, <1>9, <2>3, <2>4 DEF Fits, Final
  <2> QED BY <2>2, <2>5
<1>13. Cred!Begin(w) /\ stopped' = stopped
  BY <1>1, <1>6
<1> QED BY <1>3, <1>4, <1>5, <1>11, <1>12, <1>13, CredBegins

\* A wrong login is one more than was counted.
LEMMA WrongLoginBegins ==
    ASSUME CredInv, NEW k, Cred!loginAccess(FALSE, k)
    PROVE  CredInv'
<1>1. PICK w : w = [[Cred!NewRequest(<< >>) EXCEPT !.failures = user.errorLoginCount, !.password = user.password]
                      EXCEPT !.todo = <<"loginFailed">>]
  OBVIOUS
<1>2. /\ user.errorLoginCount < MAX_LOGIN_FAIL_ATTEMPTS /\ Cred!Begin(w)
      /\ wrong' = IF wrong > MAX_LOGIN_FAIL_ATTEMPTS THEN wrong ELSE wrong + 1
      /\ UNCHANGED <<now, user, keys, tokens, lastMailSent, given, spent, stopped>>
  BY <1>1, CredentialsConstants DEF Cred!loginAccess, Cred!loginAttemptsLimitReached, CredInv, Columns
<1>3. w = [nr |-> 0, todo |-> <<"loginFailed">>, password |-> user.password, failures |-> user.errorLoginCount,
           secret |-> 0, token |-> 0]
  BY <1>1 DEF Cred!NewRequest, Cred!None
<1>4. w.todo = <<"loginFailed">> /\ w.password = user.password /\ w.failures = user.errorLoginCount /\ w.token = 0
  BY <1>3
<1>5. /\ <<"loginFailed">> \in Seq(Writes) /\ <<"loginFailed">> # << >>
      /\ \A op : Has(<<"loginFailed">>, op) <=> op = "loginFailed"
  BY HasListed, WriteNames
<1>6. Tail(<<"loginFailed">>) = << >>
  OBVIOUS
<1>7. WorkShape(w)
  <2>1. {"nr", "todo", "password", "failures", "secret", "token"} \subseteq DOMAIN w
    BY <1>3
  <2>2. user.password \in Nat /\ user.errorLoginCount \in Int
    BY DEF CredInv, Columns
  <2> QED BY <1>4, <1>5, <1>6, <2>1, <2>2 DEF WorkShape
<1>8. Dated' /\ Columns' /\ TokensNumbered'
  BY <1>2 DEF CredInv, Dated, Iat, Columns, TokensNumbered
<1>9. ASSUME ~ stopped PROVE SpentAreOld' /\ Fits(w.todo, w.password, w.failures, w.token)'
  <2>1. SpentAreOld'
    BY <1>2, <1>9 DEF CredInv, Promised, SpentAreOld
  <2>2. /\ \A j \in {"ecc", "kyber"} : keys[j] \in {0, user.password}
        /\ \A t \in tokens : t.kind = "unblock" => t.iat <= lastMailSent
        /\ wrong <= user.errorLoginCount
    BY <1>2, <1>9, CredQuiet, BeginQuiet
  <2>3. wrong' <= user.errorLoginCount + 1
    BY <1>2, <2>2, CredentialsConstants DEF CredInv, Columns
  <2>4. Fits(w.todo, w.password, w.failures, w.token)'
    BY <1>2, <1>4, <1>5, <2>2, <2>3 DEF Fits, Final
  <2> QED BY <2>1, <2>4
<1> QED BY <1>2, <1>7, <1>8, <1>9, CredBegins

\* A right one may bring keys.
LEMMA RightLoginBegins ==
    ASSUME CredInv, NEW k, Cred!loginAccess(TRUE, k)
    PROVE  CredInv'
<1> DEFINE y == IF k THEN <<"createEcc", "createKyber">> ELSE << >>
           s == <<"loginSucceeded">> \o y
<1>1. PICK w : w = [[Cred!NewRequest(<< >>) EXCEPT !.failures = user.errorLoginCount, !.password = user.password]
                      EXCEPT !.todo = s]
  OBVIOUS
<1>2. /\ Cred!Sign("session", now \div 2) /\ Cred!Begin(w)
      /\ UNCHANGED <<now, user, keys, lastMailSent, given, spent, wrong, stopped>>
  BY <1>1 DEF Cred!loginAccess, Cred!getTokenDefaultIat, Cred!Second
<1>3. y \in Seq(Writes) /\ \A op : Has(y, op) => op \in {"createEcc", "createKyber"}
  BY HasListed, HasNothing, WriteNames
<1>4. /\ <<"loginSucceeded">> \in Seq(Writes) /\ <<"loginSucceeded">> # << >>
      /\ \A op : Has(<<"loginSucceeded">>, op) <=> op = "loginSucceeded"
  BY HasListed, WriteNames
<1> HIDE DEF y
<1>5. s \in Seq(Writes) /\ s # << >> /\ \A op : Has(s, op) => op \in {"loginSucceeded", "createEcc", "createKyber"}
  BY <1>3, <1>4, HasJoined
<1> HIDE DEF s
<1>6. w = [nr |-> 0, todo |-> s, password |-> user.password, failures |-> user.errorLoginCount,
           secret |-> 0, token |-> 0]
  BY <1>1 DEF Cred!NewRequest, Cred!None
<1>7. w.todo = s /\ w.password = user.password /\ w.failures = user.errorLoginCount /\ w.token = 0
  BY <1>6
<1>8. WorkShape(w)
  <2>1. {"nr", "todo", "password", "failures", "secret", "token"} \subseteq DOMAIN w
    BY <1>6
  <2>2. user.password \in Nat /\ user.errorLoginCount \in Int
    BY DEF CredInv, Columns
  <2> QED BY <1>5, <1>7, <2>1, <2>2 DEF WorkShape
<1>9. PICK t : tokens' = tokens \cup {t} /\ t.kind = "session" /\ t.iat = now \div 2 /\ t.at = now /\
               t.nr = Cardinality(tokens) + 1
  BY <1>2, SignNumbers DEF CredInv
<1>10. TokensNumbered' /\ Cardinality(tokens') = Cardinality(tokens) + 1 /\ Cardinality(tokens) \in Nat
  BY <1>2, SignNumbers DEF CredInv
<1>11. Dated'
  BY <1>2, <1>9 DEF CredInv, Dated, Iat
<1>12. Columns'
  BY <1>2 DEF CredInv, Columns
<1>13. ASSUME ~ stopped PROVE SpentAreOld' /\ Fits(w.todo, w.password, w.failures, w.token)'
  <2>1. SpentAreOld /\ TokensNumbered
    BY <1>13 DEF CredInv, Promised
  <2>2. SpentAreOld'
    BY <1>2, <1>9, <1>10, <2>1, SpentSigned DEF SpentAreOld
  <2>3. /\ \A j \in {"ecc", "kyber"} : keys[j] \in {0, user.password}
        /\ \A u \in tokens : u.kind = "unblock" => u.iat <= lastMailSent
        /\ wrong <= user.errorLoginCount /\ user.errorLoginCount <= MAX_LOGIN_FAIL_ATTEMPTS
    BY <1>2, <1>13, CredQuiet, BeginQuiet
  <2>4. \A u \in tokens' : u.kind = "unblock" => u.iat <= lastMailSent
    BY <1>9, <2>3
  <2>5. Fits(w.todo, w.password, w.failures, w.token)'
    BY <1>2, <1>5, <1>7, <2>3, <2>4 DEF Fits, Final
  <2> QED BY <2>2, <2>5
<1> QED BY <1>2, <1>8, <1>10, <1>11, <1>12, <1>13, CredBegins

\* Time passes; the requests at work and the tokens they came with stay.
LEMMA CredTicks ==
    ASSUME CredInv, Cred!tick
    PROVE  CredInv'
<1>1. now' = now + 1 /\ UNCHANGED <<user, keys, tokens, lastMailSent, given, requests, spent, wrong, stopped>>
  BY DEF Cred!tick
<1>2. now \in Nat /\ user.lastPasswordChangedAt \in Int /\ \A t \in tokens : t.at \in Nat
  BY DEF CredInv, Dated, UserShape
<1>3. Dated' /\ Columns' /\ TokensNumbered' /\ OneRequest'
  BY <1>1, <1>2 DEF CredInv, Dated, Iat, Columns, TokensNumbered, OneRequest
<1>4. ASSUME NEW s, NEW p, NEW f, NEW n, Fits(s, p, f, n) PROVE Fits(s, p, f, n)'
  <2>1. (n # 0 => \E t \in tokens : t.nr = n /\ t.at < now /\
                   (Has(s, "row") \/ Has(s, "unblock") \/ t.at < user.lastPasswordChangedAt))'
    BY <1>1, <1>2, <1>4 DEF Fits
  <2> QED BY <1>1, <1>4, <2>1 DEF Fits, Final
<1>5. Promised'
  BY <1>1, <1>4 DEF CredInv, Promised, SpentAreOld
<1> QED BY <1>3, <1>5 DEF CredInv

\* Nothing is promised once a request stopped half way.
LEMMA CredDies ==
    ASSUME CredInv, NEW w \in requests, Cred!requestDies(w)
    PROVE  CredInv'
<1>1. /\ stopped' = TRUE /\ requests' \subseteq requests
      /\ UNCHANGED <<now, user, keys, tokens, lastMailSent, given, spent, wrong>>
  BY DEF Cred!requestDies
<1>2. Dated' /\ Columns' /\ TokensNumbered' /\ OneRequest'
  BY <1>1 DEF CredInv, Dated, Iat, Columns, TokensNumbered, OneRequest
<1>3. Promised'
  BY <1>1 DEF Promised
<1> QED BY <1>2, <1>3 DEF CredInv

----------------------------------------------------------------------------
(* Writes.                                                                 *)

LEMMA WorkOf ==
    ASSUME CredInv, NEW w \in requests
    PROVE  /\ WorkShape(w) /\ Dated /\ Columns /\ TokensNumbered
           /\ \A op : Has(w.todo, op) <=> op = Head(w.todo) \/ Has(Tail(w.todo), op)
           /\ ~ Has(Tail(w.todo), "loginFailed")
           /\ ~ stopped => SpentAreOld /\ Fits(w.todo, w.password, w.failures, w.token)
<1>1. WorkShape(w) /\ Dated /\ Columns /\ TokensNumbered
  BY DEF CredInv, OneRequest
<1>2. \A op : Has(w.todo, op) <=> op = Head(w.todo) \/ Has(Tail(w.todo), op)
  BY <1>1, HasTail DEF WorkShape
<1>3. ~ Has(Tail(w.todo), "loginFailed")
  BY <1>1, <1>2, HasNothing DEF WorkShape
<1>4. ~ stopped => SpentAreOld /\ Fits(w.todo, w.password, w.failures, w.token)
  BY DEF CredInv, Promised
<1> QED BY <1>1, <1>2, <1>3, <1>4

\* One that signs no token.
LEMMA CredWrites ==
    ASSUME CredInv, NEW w \in requests, Cred!Goes(w), UNCHANGED <<now, tokens, given, stopped>>,
           UserShape(user'), Columns',
           user.lastPasswordChangedAt <= user'.lastPasswordChangedAt,
           ~ stopped => Fits(Tail(w.todo), w.password, w.failures, w.token)'
    PROVE  CredInv'
<1>1. Dated' /\ TokensNumbered'
  BY DEF CredInv, Dated, TokensNumbered, Iat
<1>2. ASSUME ~ stopped
      PROVE  /\ spent \subseteq 1 .. Cardinality(tokens')
             /\ \A t \in tokens' : t.nr \in spent => t.at < user'.lastPasswordChangedAt
  <2>1. spent \subseteq 1 .. Cardinality(tokens)
    BY <1>2, WorkOf DEF SpentAreOld
  <2>2. \A t \in tokens : t.nr \in spent => t.at < user.lastPasswordChangedAt
    BY <1>2, WorkOf DEF SpentAreOld
  <2>3. user.lastPasswordChangedAt \in Int /\ user'.lastPasswordChangedAt \in Int /\ \A t \in tokens : t.at \in Nat
    BY DEF CredInv, Dated, UserShape
  <2> QED BY <2>1, <2>2, <2>3
<1> QED BY <1>1, <1>2, CredGoesOn

LEMMA LoginWrites ==
    ASSUME CredInv, NEW w \in requests, Cred!loginFailed(w)
    PROVE  CredInv'
<1>1. WorkShape(w) /\ Columns /\ UserShape(user) /\ ~ Has(Tail(w.todo), "loginFailed")
  BY WorkOf DEF Dated
<1>2. /\ Cred!Goes(w) /\ UNCHANGED <<now, keys, tokens, lastMailSent, given, stopped>>
  BY DEF Cred!loginFailed
<1>3. PICK x : user' = [user EXCEPT !.errorLoginCount = x]
  BY DEF Cred!loginFailed
<1>4. /\ UserShape(user') /\ user'.password = user.password /\ user'.errorLoginCount = x
      /\ user'.lastPasswordChangedAt = user.lastPasswordChangedAt
  <2>1. 0 \in Int
    OBVIOUS
  <2>2. UserShape(user')
    BY <1>1, <1>3, <2>1, UserWritten
  <2> QED BY <1>1, <1>3, <2>2 DEF UserShape
<1>5. /\ wrong' \in Nat /\ user'.errorLoginCount \in Int
      /\ ~ stopped => wrong' <= user'.errorLoginCount /\ user'.errorLoginCount <= MAX_LOGIN_FAIL_ATTEMPTS
  <2>1. CASE /\ Cred!Doing(w, "loginFailed") /\ wrong' = wrong
            /\ user' = [user EXCEPT !.errorLoginCount = Cred!failuresWritten(w)]
    <3>1. user'.errorLoginCount = w.failures + 1
      BY <1>1, <2>1 DEF UserShape, Cred!failuresWritten
    <3>2. Has(w.todo, "loginFailed")
      BY <2>1, WorkOf DEF Cred!Doing
    <3>3. ~ stopped => wrong <= w.failures + 1 /\ w.failures < MAX_LOGIN_FAIL_ATTEMPTS
      BY <3>2, WorkOf DEF Fits
    <3> QED BY <1>1, <2>1, <3>1, <3>3, CredentialsConstants DEF WorkShape, Columns
  <2>2. CASE user' = [user EXCEPT !.errorLoginCount = 0] /\ wrong' = 0
    <3>1. user'.errorLoginCount = 0
      BY <1>1, <2>2 DEF UserShape
    <3> QED BY <2>2, <3>1, CredentialsConstants
  <2> QED BY <2>1, <2>2 DEF Cred!loginFailed
<1>6. Columns' /\ user.lastPasswordChangedAt <= user'.lastPasswordChangedAt
  <2>1. user.lastPasswordChangedAt \in Int
    BY <1>1 DEF UserShape
  <2> QED BY <1>1, <1>2, <1>4, <1>5, <2>1 DEF Columns
<1>7. ASSUME ~ stopped PROVE Fits(Tail(w.todo), w.password, w.failures, w.token)'
  <2>1. Fits(w.todo, w.password, w.failures, w.token)
    BY <1>7, WorkOf
  <2>2. \A op : op \notin {"loginFailed", "loginSucceeded"} => (Has(w.todo, op) <=> Has(Tail(w.todo), op))
    BY WorkOf DEF Cred!loginFailed, Cred!Doing
  <2>3. /\ (w.password = 0 \/ user.password = w.password \/ Has(Tail(w.todo), "row"))'
        /\ (\A k \in {"ecc", "kyber"} : keys[k] \in {0, Final(w.password)} \/ Has(Tail(w.todo), k)
                                           \/ Has(Tail(w.todo), "deleteKeys"))'
    BY <1>2, <1>4, <2>1, <2>2 DEF Fits, Final
  <2>4. (w.token # 0 => \E t \in tokens : t.nr = w.token /\ t.at < now /\
           (Has(Tail(w.todo), "row") \/ Has(Tail(w.todo), "unblock") \/ t.at < user.lastPasswordChangedAt))'
    BY <1>2, <1>4, <2>1, <2>2 DEF Fits
  <2>5. (\A t \in tokens : t.kind = "unblock" =>
           t.iat <= IF Has(Tail(w.todo), "mailed") THEN w.failures ELSE lastMailSent)'
    BY <1>2, <2>1, <2>2 DEF Fits
  <2> QED BY <1>1, <1>5, <1>7, <2>3, <2>4, <2>5 DEF Fits
<1> QED BY <1>2, <1>4, <1>6, <1>7, CredWrites

\* Keys that are written open with the password of the request.
LEMMA KeyWrites ==
    ASSUME CredInv, NEW w \in requests, Cred!Goes(w),
           UNCHANGED <<now, user, tokens, lastMailSent, given, wrong, stopped>>,
           Head(w.todo) \in {"ecc", "kyber", "createEcc", "createKyber", "deleteKeys"},
           keys' \in [{"ecc", "kyber"} -> Nat],
           \A k \in {"ecc", "kyber"} : keys'[k] \in {0, w.password} \/
              (keys'[k] = keys[k] /\ Head(w.todo) # k /\ Head(w.todo) # "deleteKeys")
    PROVE  CredInv'
<1>1. WorkShape(w) /\ Columns /\ UserShape(user)
  BY WorkOf DEF Dated
<1>2. Columns'
  BY <1>1 DEF Columns
<1>3. user.lastPasswordChangedAt <= user'.lastPasswordChangedAt /\ UserShape(user')
  BY <1>1 DEF UserShape
<1>4. ASSUME ~ stopped PROVE Fits(Tail(w.todo), w.password, w.failures, w.token)'
  <2>1. Fits(w.todo, w.password, w.failures, w.token)
    BY <1>4, WorkOf
  <2>2. \A op : op # Head(w.todo) => (Has(w.todo, op) <=> Has(Tail(w.todo), op))
    BY WorkOf
  <2>3. \A op \in {"row", "mailed", "unblock", "loginFailed"} : Has(w.todo, op) <=> Has(Tail(w.todo), op)
    BY <2>2
  <2>4. (w.password = 0 \/ user.password = w.password \/ Has(Tail(w.todo), "row"))'
    BY <2>1, <2>3 DEF Fits
  <2>5. ASSUME NEW k \in {"ecc", "kyber"}
        PROVE  (keys[k] \in {0, Final(w.password)} \/ Has(Tail(w.todo), k) \/ Has(Tail(w.todo), "deleteKeys"))'
    <3>1. CASE keys'[k] \in {0, w.password}
      BY <3>1 DEF Final
    <3>2. CASE keys'[k] = keys[k] /\ Head(w.todo) # k /\ Head(w.todo) # "deleteKeys"
      <4>1. keys[k] \in {0, Final(w.password)} \/ Has(Tail(w.todo), k) \/ Has(Tail(w.todo), "deleteKeys")
        BY <2>1, <2>2, <3>2 DEF Fits
      <4> QED BY <3>2, <4>1 DEF Final
    <3> QED BY <3>1, <3>2
  <2>6. (w.token # 0 => \E t \in tokens : t.nr = w.token /\ t.at < now /\
           (Has(Tail(w.todo), "row") \/ Has(Tail(w.todo), "unblock") \/ t.at < user.lastPasswordChangedAt))'
    BY <2>1, <2>3 DEF Fits
  <2>7. (\A t \in tokens : t.kind = "unblock" =>
           t.iat <= IF Has(Tail(w.todo), "mailed") THEN w.failures ELSE lastMailSent)'
    BY <2>1, <2>3 DEF Fits
  <2>8. (IF Has(Tail(w.todo), "loginFailed")
         THEN wrong <= w.failures + 1 /\ w.failures < MAX_LOGIN_FAIL_ATTEMPTS
         ELSE wrong <= user.errorLoginCount /\ user.errorLoginCount <= MAX_LOGIN_FAIL_ATTEMPTS)'
    BY <2>1, <2>3 DEF Fits
  <2> QED BY <2>4, <2>5, <2>6, <2>7, <2>8 DEF Fits
<1> QED BY <1>2, <1>3, <1>4, CredWrites

LEMMA KeysOfRequestsWritten ==
    ASSUME CredInv, NEW w \in requests,
           Cred!findOrCreateKeysForUser(w) \/ Cred!updateKey(w) \/ Cred!deleteByUserId(w)
    PROVE  CredInv'
<1>1. WorkShape(w) /\ keys \in [{"ecc", "kyber"} -> Nat]
  BY WorkOf DEF Columns
<1>2. /\ Cred!Goes(w) /\ UNCHANGED <<now, user, tokens, lastMailSent, given, wrong, stopped>>
  BY DEF Cred!findOrCreateKeysForUser, Cred!updateKey, Cred!deleteByUserId
<1>3. w.password \in Nat
  BY <1>1 DEF WorkShape
<1>4. CASE Cred!findOrCreateKeysForUser(w)
  <2>1. PICK k \in {"ecc", "kyber"} :
          /\ Head(w.todo) \in {"createEcc", "createKyber"}
          /\ keys' = IF keys[k] = 0 THEN [keys EXCEPT ![k] = w.password] ELSE keys
    BY <1>4 DEF Cred!findOrCreateKeysForUser, Cred!findUserKeysOrCreate, Cred!Doing, Cred!None
  <2>2. keys' \in [{"ecc", "kyber"} -> Nat]
    BY <1>1, <1>3, <2>1
  <2>3. \A j \in {"ecc", "kyber"} : keys'[j] = w.password \/ keys'[j] = keys[j]
    BY <1>1, <2>1
  <2> QED BY <1>2, <2>1, <2>2, <2>3, KeyWrites
<1>5. CASE Cred!updateKey(w)
  <2>1. PICK k \in {"ecc", "kyber"} :
          Head(w.todo) = k /\ keys' = IF keys[k] = 0 THEN keys ELSE [keys EXCEPT ![k] = w.password]
    BY <1>5 DEF Cred!updateKey, Cred!updateByUserAndEncryptVersion, Cred!Doing, Cred!None
  <2>2. keys' \in [{"ecc", "kyber"} -> Nat]
    BY <1>1, <1>3, <2>1
  <2>3. \A j \in {"ecc", "kyber"} : keys'[j] \in {0, w.password} \/ (keys'[j] = keys[j] /\ j # k)
    BY <1>1, <2>1
  <2> QED BY <1>2, <2>1, <2>2, <2>3, KeyWrites
<1>6. CASE Cred!deleteByUserId(w)
  <2>1. Head(w.todo) = "deleteKeys" /\ keys' = [k \in {"ecc", "kyber"} |-> 0]
    BY <1>6 DEF Cred!deleteByUserId, Cred!Doing, Cred!None, Cred!UserKeysEncryptVersions
  <2>2. keys' \in [{"ecc", "kyber"} -> Nat] /\ \A j \in {"ecc", "kyber"} : keys'[j] = 0
    BY <2>1
  <2> QED BY <1>2, <2>1, <2>2, KeyWrites
<1> QED BY <1>4, <1>5, <1>6

\* The row of a change of password or an unblocking: older tokens end with it.
LEMMA RowWritten ==
    ASSUME CredInv, NEW w \in requests, Cred!updateById(w) \/ Cred!unblockWrites(w)
    PROVE  CredInv'
<1>1. WorkShape(w) /\ Columns /\ UserShape(user) /\ now \in Nat /\ ~ Has(Tail(w.todo), "loginFailed")
  BY WorkOf DEF Dated
<1>2. /\ Cred!Goes(w) /\ UNCHANGED <<now, keys, tokens, lastMailSent, given, stopped>>
      /\ Head(w.todo) \in {"row", "unblock"}
  BY DEF Cred!updateById, Cred!unblockWrites, Cred!Doing
<1>3. UserShape(user') /\ user'.lastPasswordChangedAt = now
  <2>1. CASE Cred!updateById(w)
    <3>1. user' = [user EXCEPT !.password = w.password, !.lastPasswordChangedAt = now]
      BY <2>1 DEF Cred!updateById
    <3> QED BY <1>1, <3>1, UserWritten DEF UserShape
  <2>2. CASE Cred!unblockWrites(w)
    <3>1. user' = [user EXCEPT !.errorLoginCount = 0, !.lastPasswordChangedAt = now]
      BY <2>2 DEF Cred!unblockWrites, Cred!unblocks
    <3> QED BY <1>1, <3>1, UserWritten DEF UserShape
  <2> QED BY <2>1, <2>2
<1>4. \/ /\ Head(w.todo) = "row" /\ user'.password = w.password /\ w.password # 0
         /\ user'.errorLoginCount = user.errorLoginCount /\ wrong' = wrong
      \/ /\ Head(w.todo) = "unblock" /\ user'.password = user.password
         /\ user'.errorLoginCount = 0 /\ wrong' = 0
  <2>1. CASE Cred!updateById(w)
    <3>1. /\ user' = [user EXCEPT !.password = w.password, !.lastPasswordChangedAt = now]
          /\ Head(w.todo) = "row" /\ wrong' = wrong
      BY <2>1 DEF Cred!updateById, Cred!Doing
    <3>2. Has(w.todo, "row")
      BY <3>1, WorkOf
    <3>3. w.password # 0
      BY <1>1, <3>2 DEF WorkShape
    <3> QED BY <1>1, <3>1, <3>3 DEF UserShape
  <2>2. CASE Cred!unblockWrites(w)
    <3>1. /\ user' = [user EXCEPT !.errorLoginCount = 0, !.lastPasswordChangedAt = now]
          /\ Head(w.todo) = "unblock" /\ wrong' = 0
      BY <2>2 DEF Cred!unblockWrites, Cred!unblocks, Cred!Doing
    <3> QED BY <1>1, <3>1 DEF UserShape
  <2> QED BY <2>1, <2>2
<1>5. Columns' /\ user.lastPasswordChangedAt <= user'.lastPasswordChangedAt
  BY <1>1, <1>2, <1>3, <1>4 DEF Columns, WorkShape
<1>6. ASSUME ~ stopped PROVE Fits(Tail(w.todo), w.password, w.failures, w.token)'
  <2>1. Fits(w.todo, w.password, w.failures, w.token)
    BY <1>6, WorkOf
  <2>2. \A op : op \notin {"row", "unblock"} => (Has(w.todo, op) <=> Has(Tail(w.todo), op))
    BY <1>2, WorkOf
  <2>3. Head(w.todo) = "unblock" => (Has(w.todo, "row") <=> Has(Tail(w.todo), "row"))
    BY WorkOf
  <2>4. (w.password = 0 \/ user.password = w.password \/ Has(Tail(w.todo), "row"))'
    BY <1>4, <2>1, <2>3 DEF Fits
  <2>5. (\A k \in {"ecc", "kyber"} : keys[k] \in {0, Final(w.password)} \/ Has(Tail(w.todo), k)
                                           \/ Has(Tail(w.todo), "deleteKeys"))'
    BY <1>2, <1>4, <2>1, <2>2 DEF Fits, Final
  <2>6. (w.token # 0 => \E t \in tokens : t.nr = w.token /\ t.at < now /\
           (Has(Tail(w.todo), "row") \/ Has(Tail(w.todo), "unblock") \/ t.at < user.lastPasswordChangedAt))'
    BY <1>2, <1>3, <2>1 DEF Fits
  <2>7. (\A t \in tokens : t.kind = "unblock" =>
           t.iat <= IF Has(Tail(w.todo), "mailed") THEN w.failures ELSE lastMailSent)'
    BY <1>2, <2>1, <2>2 DEF Fits
  <2>8. (wrong <= user.errorLoginCount /\ user.errorLoginCount <= MAX_LOGIN_FAIL_ATTEMPTS)'
    <3>1. ~ Has(w.todo, "loginFailed")
      BY <1>1, <2>2
    <3>2. wrong <= user.errorLoginCount /\ user.errorLoginCount <= MAX_LOGIN_FAIL_ATTEMPTS
      BY <2>1, <3>1 DEF Fits
    <3> QED BY <1>4, <3>2, CredentialsConstants
  <2> QED BY <1>1, <2>4, <2>5, <2>6, <2>7, <2>8 DEF Fits
<1> QED BY <1>2, <1>3, <1>5, <1>6, CredWrites

\* The mail is counted, or the second factor written: neither concerns the password.
LEMMA OthersWritten ==
    ASSUME CredInv, NEW w \in requests, Cred!unblockMailed(w) \/ Cred!writeSecret(w)
    PROVE  CredInv'
<1>1. WorkShape(w) /\ Columns /\ UserShape(user) /\ now \in Nat
  BY WorkOf DEF Dated
<1>2. /\ Cred!Goes(w) /\ UNCHANGED <<now, keys, tokens, given, wrong, stopped>>
      /\ Head(w.todo) \in {"mailed", "secret"}
  BY DEF Cred!unblockMailed, Cred!writeSecret, Cred!Doing
<1>3. /\ UserShape(user') /\ user'.lastPasswordChangedAt = user.lastPasswordChangedAt
      /\ user'.password = user.password /\ user'.errorLoginCount = user.errorLoginCount
  <2>1. CASE Cred!unblockMailed(w)
    <3>1. user' = user
      BY <2>1 DEF Cred!unblockMailed
    <3> QED BY <1>1, <3>1
  <2>2. CASE Cred!writeSecret(w)
    <3>1. user' = [user EXCEPT !.secret_2FA = w.secret]
      BY <2>2 DEF Cred!writeSecret
    <3>2. 0 \in Int
      OBVIOUS
    <3>3. UserShape(user')
      BY <1>1, <3>1, <3>2, UserWritten
    <3> QED BY <1>1, <3>1, <3>3 DEF UserShape
  <2> QED BY <2>1, <2>2
<1>4. lastMailSent' = IF Head(w.todo) = "mailed" THEN w.failures ELSE lastMailSent
  BY DEF Cred!unblockMailed, Cred!increaseTodayAttempts, Cred!writeSecret, Cred!Doing
<1>5. Columns' /\ user.lastPasswordChangedAt <= user'.lastPasswordChangedAt
  BY <1>1, <1>2, <1>3, <1>4 DEF Columns, WorkShape, UserShape
<1>6. ASSUME ~ stopped PROVE Fits(Tail(w.todo), w.password, w.failures, w.token)'
  <2>1. Fits(w.todo, w.password, w.failures, w.token)
    BY <1>6, WorkOf
  <2>2. \A op \in {"row", "unblock", "ecc", "kyber", "deleteKeys", "loginFailed"} :
           Has(w.todo, op) <=> Has(Tail(w.todo), op)
    BY <1>2, WorkOf
  <2>3. Has(w.todo, "mailed") <=> Head(w.todo) = "mailed" \/ Has(Tail(w.todo), "mailed")
    BY WorkOf
  <2>4. (w.password = 0 \/ user.password = w.password \/ Has(Tail(w.todo), "row"))'
    BY <1>3, <2>1, <2>2 DEF Fits
  <2>5. (\A k \in {"ecc", "kyber"} : keys[k] \in {0, Final(w.password)} \/ Has(Tail(w.todo), k)
                                           \/ Has(Tail(w.todo), "deleteKeys"))'
    BY <1>2, <1>3, <2>1, <2>2 DEF Fits, Final
  <2>6. (w.token # 0 => \E t \in tokens : t.nr = w.token /\ t.at < now /\
           (Has(Tail(w.todo), "row") \/ Has(Tail(w.todo), "unblock") \/ t.at < user.lastPasswordChangedAt))'
    BY <1>2, <1>3, <2>1, <2>2 DEF Fits
  <2>7. (\A t \in tokens : t.kind = "unblock" =>
           t.iat <= IF Has(Tail(w.todo), "mailed") THEN w.failures ELSE lastMailSent)'
    BY <1>2, <1>4, <2>1, <2>3 DEF Fits
  <2>8. (IF Has(Tail(w.todo), "loginFailed")
         THEN wrong <= w.failures + 1 /\ w.failures < MAX_LOGIN_FAIL_ATTEMPTS
         ELSE wrong <= user.errorLoginCount /\ user.errorLoginCount <= MAX_LOGIN_FAIL_ATTEMPTS)'
    BY <1>2, <1>3, <2>1, <2>2 DEF Fits
  <2> QED BY <2>4, <2>5, <2>6, <2>7, <2>8 DEF Fits
<1> QED BY <1>2, <1>3, <1>5, <1>6, CredWrites

LEMMA SessionAnswered ==
    ASSUME CredInv, NEW w \in requests, Cred!answerNewSession(w)
    PROVE  CredInv'
<1>1. /\ Cred!Sign("newSession", now \div 2 + FutureSeconds) /\ Cred!Goes(w) /\ Head(w.todo) = "newSession"
      /\ UNCHANGED <<now, user, keys, lastMailSent, given, wrong, stopped>>
  BY DEF Cred!answerNewSession, Cred!getFutureIAT, Cred!Second, Cred!Doing
<1>2. TokensNumbered /\ Dated /\ Columns
  BY WorkOf
<1>3. PICK t : tokens' = tokens \cup {t} /\ t.kind = "newSession" /\ t.iat = now \div 2 + FutureSeconds /\
               t.at = now /\ t.nr = Cardinality(tokens) + 1
  BY <1>1, <1>2, SignNumbers
<1>4. TokensNumbered' /\ Cardinality(tokens') = Cardinality(tokens) + 1 /\ Cardinality(tokens) \in Nat
  BY <1>1, <1>2, SignNumbers
<1>5. Dated' /\ Columns'
  BY <1>1, <1>2, <1>3 DEF Dated, Iat, Columns
<1>6. ASSUME ~ stopped
      PROVE  /\ spent \subseteq 1 .. Cardinality(tokens')
             /\ \A u \in tokens' : u.nr \in spent => u.at < user'.lastPasswordChangedAt
             /\ Fits(Tail(w.todo), w.password, w.failures, w.token)'
  <2>1. Fits(w.todo, w.password, w.failures, w.token) /\ SpentAreOld
    BY <1>6, WorkOf
  <2>2. /\ spent \subseteq 1 .. Cardinality(tokens')
        /\ \A u \in tokens' : u.nr \in spent => u.at < user'.lastPasswordChangedAt
    BY <1>1, <1>2, <1>3, <1>4, <2>1, SpentSigned
  <2>3. \A op : op # "newSession" => (Has(w.todo, op) <=> Has(Tail(w.todo), op))
    BY <1>1, WorkOf
  <2>4. Fits(Tail(w.todo), w.password, w.failures, w.token)
    BY <2>1, <2>3 DEF Fits
  <2>5. PICK s : s = Tail(w.todo)
    OBVIOUS
  <2>6. Fits(s, w.password, w.failures, w.token)'
    BY <1>1, <1>3, <2>4, <2>5, FitsSigned
  <2> QED BY <2>2, <2>5, <2>6
<1> QED BY <1>1, <1>4, <1>5, <1>6, CredGoesOn

LEMMA LoggedOut ==
    ASSUME CredInv, NEW t, Cred!logout(t)
    PROVE  CredInv'
BY CredStays DEF Cred!logout, CredUnchanged

LEMMA CredNext ==
    ASSUME CredInv, Cred!Next
    PROVE  CredInv'
<1>1. CASE Cred!tick \/ Cred!requestAccountRecovery \/ Cred!requestAccountUnblock
  BY <1>1, CredTicks, RecoveryMailed, UnblockMailBegins
<1>2. ASSUME NEW r \in BOOLEAN, NEW k \in BOOLEAN, Cred!loginAccess(r, k) PROVE CredInv'
  <2>1. CASE r
    <3>1. Cred!loginAccess(TRUE, k)
      BY <1>2, <2>1
    <3> QED BY <3>1, RightLoginBegins
  <2>2. CASE ~ r
    <3>1. Cred!loginAccess(FALSE, k)
      BY <1>2, <2>2
    <3> QED BY <3>1, WrongLoginBegins
  <2> QED BY <2>1, <2>2
<1>3. ASSUME NEW t \in tokens,
             \/ Cred!logout(t) \/ Cred!recoverAccount(t) \/ Cred!requestLegacyAccountRecovery(t)
             \/ Cred!accountUnblock(t) \/ Cred!deleteTfa(t)
             \/ \E s \in Secrets : Cred!putTfa(t, s)
             \/ \E kinds \in SUBSET Cred!UserKeysEncryptVersions :
                   \/ Cred!patchPassword(t, kinds)
                   \/ \E r \in BOOLEAN : Cred!recoverAccountV2(t, kinds, r)
      PROVE  CredInv'
  BY <1>3, LoggedOut, RecoveriesBegin, UnblockBegins, FactorBegins, PatchBegins
<1>4. ASSUME NEW w \in requests,
             \/ Cred!loginFailed(w) \/ Cred!findOrCreateKeysForUser(w) \/ Cred!answerNewSession(w)
             \/ Cred!updateKey(w) \/ Cred!deleteByUserId(w) \/ Cred!updateById(w) \/ Cred!unblockMailed(w)
             \/ Cred!unblockWrites(w) \/ Cred!writeSecret(w) \/ Cred!requestDies(w)
      PROVE  CredInv'
  BY <1>4, LoginWrites, KeysOfRequestsWritten, SessionAnswered, RowWritten, OthersWritten, CredDies
<1> QED BY <1>1, <1>2, <1>3, <1>4 DEF Cred!Next, Cred!cliLoginAccess, Cred!postLoginAccess

LEMMA CredInit ==
    ASSUME Cred!Init
    PROVE  CredInv
<1>1. /\ now = 0 /\ lastMailSent = -1 /\ given = 1 /\ tokens = {} /\ requests = {}
      /\ spent = {} /\ wrong = 0 /\ stopped = FALSE
  BY DEF Cred!Init, Cred!Never
<1>2. user = [password |-> 1, lastPasswordChangedAt |-> -1, errorLoginCount |-> 0, secret_2FA |-> 0]
  BY DEF Cred!Init, Cred!Never, Cred!None
<1>3. UserShape(user) /\ user.password = 1 /\ user.errorLoginCount = 0 /\ user.lastPasswordChangedAt = -1
  BY <1>2 DEF UserShape
<1>4. keys \in [{"ecc", "kyber"} -> Nat] /\ \A k \in {"ecc", "kyber"} : keys[k] \in {0, 1}
  <2>1. PICK has : keys = [k \in {"ecc", "kyber"} |-> IF k \in has THEN 1 ELSE 0]
    BY DEF Cred!Init, Cred!UserKeysEncryptVersions, Cred!None
  <2> QED BY <2>1
<1>5. Dated /\ Columns /\ OneRequest
  BY <1>1, <1>3, <1>4 DEF Dated, Columns, OneRequest
<1>6. TokensNumbered
  BY <1>1, FS_EmptySet DEF TokensNumbered
<1>7. SpentAreOld
  BY <1>1 DEF SpentAreOld
<1>8. Fits(<< >>, 0, 0, 0)
  BY <1>1, <1>3, <1>4, HasNothing, CredentialsConstants DEF Fits, Final
<1>9. Promised
  BY <1>1, <1>7, <1>8 DEF Promised
<1> QED BY <1>5, <1>6, <1>9 DEF CredInv

\* What the invariant says of an account whose requests are answered.
LEMMA CredentialsPromised ==
    ASSUME CredInv
    PROVE  /\ Cred!KeysOpenWithPassword /\ Cred!MailedTokenOnce /\ Cred!OnlyNewestUnblocks
           /\ Cred!FailuresCounted
<1>1. /\ user.lastPasswordChangedAt \in Int
      /\ \A t \in tokens : t.at \in Nat /\ t.iat = Iat(t)
  BY DEF CredInv, Dated, UserShape
<1>2. \A t \in tokens : t.kind # "newSession" => t.iat \in Nat /\ 2 * t.iat <= t.at
  BY <1>1 DEF Iat
<1>3. ASSUME requests = {}, ~ stopped
      PROVE  /\ \A k \in {"ecc", "kyber"} : keys[k] \in {0, user.password}
             /\ \A t \in tokens : t.kind = "unblock" => t.iat <= lastMailSent
             /\ \A t \in tokens : t.nr \in spent => t.at < user.lastPasswordChangedAt
  BY <1>3, CredQuiet DEF CredInv, Promised, SpentAreOld
<1>4. Cred!KeysOpenWithPassword
  BY <1>3 DEF Cred!KeysOpenWithPassword, Cred!Settled, Cred!UserKeysEncryptVersions, Cred!None
<1>5. ASSUME NEW t \in tokens, requests = {}, ~ stopped, t.nr \in spent
      PROVE  ~ Cred!verifyAndDecodeAccountRecoveryToken(t) /\ ~ Cred!mayUnblock(t)
  <2>1. t.at < user.lastPasswordChangedAt
    BY <1>3, <1>5
  <2>2. t.kind # "newSession" => ~ Cred!issuedSinceLastPasswordChange(t)
    BY <1>1, <1>2, <2>1 DEF Cred!issuedSinceLastPasswordChange, Cred!Never
  <2> QED BY <2>2 DEF Cred!verifyAndDecodeAccountRecoveryToken, Cred!mayUnblock
<1>6. Cred!MailedTokenOnce
  BY <1>5 DEF Cred!MailedTokenOnce, Cred!Settled
<1>7. ASSUME NEW t \in tokens, NEW u \in tokens, requests = {}, ~ stopped,
             t.kind = "unblock", u.kind = "unblock", t.iat < u.iat
      PROVE  ~ Cred!mayUnblock(t)
  <2>1. t.iat \in Nat /\ u.iat \in Nat /\ lastMailSent \in Int /\ u.iat <= lastMailSent
    BY <1>2, <1>3, <1>7 DEF CredInv, Columns
  <2> QED BY <1>7, <2>1 DEF Cred!mayUnblock
<1>8. Cred!OnlyNewestUnblocks
  BY <1>7 DEF Cred!OnlyNewestUnblocks, Cred!Settled
<1>9. ASSUME ~ stopped PROVE wrong <= MAX_LOGIN_FAIL_ATTEMPTS
  <2>1. CASE requests = {}
    BY <1>9, <2>1, CredQuiet, CredentialsConstants DEF CredInv, Columns
  <2>2. CASE requests # {}
    <3>1. PICK w \in requests : TRUE
      BY <2>2
    <3>2. Fits(w.todo, w.password, w.failures, w.token) /\ WorkShape(w) /\ Columns
      BY <1>9, WorkOf
    <3> QED BY <3>2, CredentialsConstants DEF Fits, WorkShape, Columns
  <2> QED BY <2>1, <2>2
<1>10. Cred!FailuresCounted
  BY <1>9 DEF Cred!FailuresCounted
<1> QED BY <1>4, <1>6, <1>8, <1>10

\* Whatever the times, the versions and the limit of failed logins: with requests one
\* at a time keys open with the password, a mailed token works once and only the newest
\* one unblocks, and nobody tries more often than allowed.
THEOREM CredentialsAreCoherent == MCSpec => []CredentialsCoherentAlone
<1> DEFINE CInv == part = "credentials alone" => CredInv
<1>1. MCInit => CInv
  BY CredInit DEF MCInit
<1>2. CInv /\ [MCNext]_<<accountVars, part, credentialVars, mailVars>> => CInv'
  <2> SUFFICES ASSUME CInv, [MCNext]_<<accountVars, part, credentialVars, mailVars>>,
                      part' = "credentials alone"
               PROVE  CredInv'
    OBVIOUS
  <2>1. part = "credentials alone" /\ CredInv
    BY DEF MCNext
  <2>2. CASE Cred!Next
    BY <2>1, <2>2, CredNext
  <2>3. CASE UNCHANGED credentialVars
    BY <2>1, <2>3, CredStays DEF credentialVars, CredUnchanged
  <2> QED BY <2>1, <2>2, <2>3 DEF MCNext
<1>3. CInv => CredentialsCoherentAlone
  BY CredentialsPromised DEF CredentialsCoherentAlone
<1> QED BY <1>1, <1>2, <1>3, PTL DEF MCSpec

----------------------------------------------------------------------------
(* Mails.                                                                  *)

LEMMA MonthsInOrder ==
    ASSUME NEW k \in Nat \ {0}, NEW a \in Int, NEW b \in Int, a <= b
    PROVE  a \div k <= b \div k
<1>1. PICK q, r : q = a \div k /\ r = b \div k
  OBVIOUS
<1>2. q \in Int /\ r \in Int
  BY <1>1
<1>3. k * q <= a /\ a < k * q + k /\ k * r <= b /\ b < k * r + k
  BY <1>1, Z3
<1>4. ASSUME r < q PROVE FALSE
  <2>1. r + 1 <= q
    BY <1>2, <1>4
  <2>2. k * (r + 1) <= k * q
    BY <1>2, <2>1
  <2> QED BY <1>2, <1>3, <2>2
<1> QED BY <1>1, <1>2, <1>4

MailDays == 0 .. MaxDay

Month(d) == d \div DaysPerMonth

LEMMA MailCardinality == \A S : MailsAlone!Cardinality(S) = Cardinality(S)
BY Zenon DEF MailsAlone!Cardinality, Cardinality

\* The row a request finds.
Found == MailsAlone!findOrCreate

RowShape(r) ==
    /\ {"rows", "attemptsCount", "lastMailSent"} \subseteq DOMAIN r
    /\ r.rows = 1 /\ r.attemptsCount \in Nat /\ r.lastMailSent \in Int

MailShape ==
    /\ type \in MailsAlone!MailTypes /\ today \in MailDays
    /\ sent \in [MailDays -> Nat] /\ \A d \in MailDays : today < d => sent[d] = 0
    /\ limit.rows \in {0, 1} /\ RowShape(Found) /\ Found.lastMailSent <= today

\* The row a request found is still the one that is there.
MailWork(w) ==
    /\ {"nr", "op", "row"} \subseteq DOMAIN w
    /\ w.op \in {"insert", "check", "write"} /\ w.row = Found
    /\ limit.rows = IF w.op = "insert" THEN 0 ELSE 1

OneMail ==
    /\ \A w \in mailRequests : MailWork(w)
    /\ \A v, w \in mailRequests : v = w

\* A mail that was sent and not counted yet.
Uncounted == IF \E w \in mailRequests : w.op = "write" THEN 1 ELSE 0

Mailed(x) == {e \in MailDays : sent[e] > 0 /\ Month(e) = x}

DayCounted ==
    type # "full_storage" =>
        /\ \A d \in MailDays : sent[d] <= Limit[type]
        /\ sent[today] = (IF Found.lastMailSent = today THEN Found.attemptsCount ELSE 0) + Uncounted

MonthCounted ==
    type = "full_storage" =>
        /\ \A d \in MailDays : sent[d] <= 1
        /\ \A x \in Int : Cardinality(Mailed(x)) <= Limit[type]
        /\ \A d, e \in MailDays : d < e /\ sent[d] > 0 /\ sent[e] > 0 => e - d >= CooldownDays
        /\ \A d \in MailDays : sent[d] > 0 => d <= Found.lastMailSent \/ (Uncounted = 1 /\ d = today)
        /\ Cardinality(Mailed(Month(today))) =
              (IF Month(Found.lastMailSent) = Month(today) THEN Found.attemptsCount ELSE 0) + Uncounted

MailInv == ~ mailStopped => MailShape /\ OneMail /\ DayCounted /\ MonthCounted

LEMMA FoundWritten ==
    ASSUME RowShape(limit)
    PROVE  Found = limit
BY DEF Found, MailsAlone!findOrCreate, RowShape

LEMMA FoundNew ==
    ASSUME limit.rows = 0, today \in Int
    PROVE  /\ RowShape(Found) /\ Found.attemptsCount = 0
           /\ type = "full_storage" => Found.lastMailSent = -100
           /\ type = "pre_create_user" => Found.lastMailSent = today
           /\ type \notin {"full_storage", "pre_create_user"} => Found.lastMailSent = 0
<1>1. Found = [rows |-> 1, attemptsCount |-> 0,
               lastMailSent |-> CASE type = "pre_create_user" -> today [] type = "full_storage" -> -100 [] OTHER -> 0]
  BY DEF Found, MailsAlone!findOrCreate, MailsAlone!defaults, MailsAlone!LongAgo
<1>2. Found.rows = 1 /\ Found.attemptsCount = 0
  BY <1>1
<1>3. /\ type = "full_storage" => Found.lastMailSent = -100
      /\ type = "pre_create_user" => Found.lastMailSent = today
      /\ type \notin {"full_storage", "pre_create_user"} => Found.lastMailSent = 0
  BY <1>1
<1>4. {"rows", "attemptsCount", "lastMailSent"} \subseteq DOMAIN Found
  BY <1>1
<1> QED BY <1>2, <1>3, <1>4 DEF RowShape

LEMMA MailAsked ==
    ASSUME MailInv, NEW y, MailsAlone!Asks(y)
    PROVE  MailInv'
<1> SUFFICES ASSUME ~ mailStopped PROVE (MailShape /\ OneMail /\ DayCounted /\ MonthCounted)'
  BY DEF MailInv, MailsAlone!Asks
<1>1. MailShape /\ OneMail /\ DayCounted /\ MonthCounted
  BY DEF MailInv
<1>2. /\ mailRequests = {} /\ UNCHANGED <<today, type, limit, sent>>
      /\ \E n : mailRequests' = {[nr |-> n, op |-> IF limit.rows = 0 THEN "insert" ELSE "check", row |-> Found]}
  BY DEF MailsAlone!Asks, MailsAlone!Quiet, Found
<1>3. PICK w : /\ mailRequests' = {w} /\ {"nr", "op", "row"} \subseteq DOMAIN w
               /\ w.op = (IF limit.rows = 0 THEN "insert" ELSE "check") /\ w.row = Found
  <2>1. PICK n : mailRequests' = {[nr |-> n, op |-> IF limit.rows = 0 THEN "insert" ELSE "check", row |-> Found]}
    BY <1>2
  <2>2. PICK w : w = [nr |-> n, op |-> IF limit.rows = 0 THEN "insert" ELSE "check", row |-> Found]
    OBVIOUS
  <2>3. mailRequests' = {w}
    BY <2>1, <2>2
  <2> QED BY <2>2, <2>3
<1>4. Found' = Found /\ MailShape'
  <2>1. Found' = Found
    BY <1>2 DEF Found, MailsAlone!findOrCreate, MailsAlone!defaults
  <2> QED BY <1>1, <1>2, <2>1 DEF MailShape
<1>5. MailWork(w)'
  BY <1>1, <1>2, <1>3, <1>4 DEF MailShape, MailWork
<1>6. OneMail'
  BY <1>3, <1>5 DEF OneMail
<1>7. Uncounted' = 0 /\ Uncounted = 0
  BY <1>2, <1>3 DEF Uncounted
<1>8. DayCounted' /\ MonthCounted'
  BY <1>1, <1>2, <1>4, <1>7 DEF DayCounted, MonthCounted, Mailed
<1> QED BY <1>4, <1>6, <1>8

LEMMA MailRowInserted ==
    ASSUME MailInv, NEW w \in mailRequests, MailsAlone!insertRow(w)
    PROVE  MailInv'
<1> SUFFICES ASSUME ~ mailStopped PROVE (MailShape /\ OneMail /\ DayCounted /\ MonthCounted)'
  BY DEF MailInv, MailsAlone!insertRow
<1>1. MailShape /\ OneMail /\ DayCounted /\ MonthCounted
  BY DEF MailInv
<1>2. mailRequests = {w} /\ MailWork(w) /\ w.op = "insert"
  BY <1>1 DEF OneMail, MailsAlone!insertRow
<1>3. limit.rows = 0 /\ w.row = Found
  BY <1>2 DEF MailWork
<1>4. PICK r : r = [w.row EXCEPT !.rows = limit.rows + 1]
  OBVIOUS
<1>5. limit' = r /\ UNCHANGED <<today, type, sent>>
  BY <1>4 DEF MailsAlone!insertRow
<1>6. RowShape(r) /\ r.attemptsCount = Found.attemptsCount /\ r.lastMailSent = Found.lastMailSent
  BY <1>1, <1>3, <1>4 DEF MailShape, RowShape
<1>7. RowShape(limit)'
  BY <1>5, <1>6 DEF RowShape
<1>8. Found' = r
  <2>1. (RowShape(limit) => Found = limit)'
    BY DEF Found, MailsAlone!findOrCreate, RowShape
  <2> QED BY <1>5, <1>7, <2>1
<1>9. MailShape'
  BY <1>1, <1>5, <1>6, <1>8 DEF MailShape, RowShape
<1>10. PICK v : /\ mailRequests' = {v} /\ {"nr", "op", "row"} \subseteq DOMAIN v
                /\ v.op = "check" /\ v.row = w.row
  <2>1. PICK v : v = [w EXCEPT !.op = "check"]
    OBVIOUS
  <2>2. mailRequests' = {v}
    BY <1>2, <2>1 DEF MailsAlone!insertRow, MailsAlone!Goes
  <2> QED BY <1>2, <2>1, <2>2 DEF MailWork
<1>11. Found = r
  <2>1. Found = [rows |-> 1, attemptsCount |-> 0,
               lastMailSent |-> CASE type = "pre_create_user" -> today [] type = "full_storage" -> -100 [] OTHER -> 0]
    BY <1>3 DEF Found, MailsAlone!findOrCreate, MailsAlone!defaults, MailsAlone!LongAgo
  <2> QED BY <1>3, <1>4, <2>1
<1>12. OneMail'
  <2>1. MailWork(v)'
    BY <1>3, <1>5, <1>6, <1>8, <1>10, <1>11 DEF MailWork, RowShape
  <2> QED BY <1>10, <2>1 DEF OneMail
<1>13. Uncounted' = 0 /\ Uncounted = 0
  BY <1>2, <1>10 DEF Uncounted
<1>14. DayCounted' /\ MonthCounted'
  BY <1>1, <1>5, <1>8, <1>11, <1>13 DEF DayCounted, MonthCounted, Mailed
<1> QED BY <1>9, <1>12, <1>14

\* A request that ends without a mail.
LEMMA MailRefused ==
    ASSUME MailInv, NEW w \in mailRequests, w.op = "check",
           mailRequests' = mailRequests \ {w}, UNCHANGED <<today, type, limit, sent, mailStopped>>
    PROVE  MailInv'
<1> SUFFICES ASSUME ~ mailStopped PROVE (MailShape /\ OneMail /\ DayCounted /\ MonthCounted)'
  BY DEF MailInv
<1>1. MailShape /\ OneMail /\ DayCounted /\ MonthCounted
  BY DEF MailInv
<1>2. mailRequests = {w} /\ mailRequests' = {}
  BY <1>1 DEF OneMail
<1>3. Found' = Found /\ MailShape'
  BY <1>1 DEF MailShape, Found, MailsAlone!findOrCreate, MailsAlone!defaults
<1>4. Uncounted' = 0 /\ Uncounted = 0
  BY <1>2 DEF Uncounted
<1>5. OneMail' /\ DayCounted' /\ MonthCounted'
  BY <1>1, <1>2, <1>3, <1>4 DEF OneMail, DayCounted, MonthCounted, Mailed
<1> QED BY <1>3, <1>5

LEMMA MailDies ==
    ASSUME NEW w, MailsAlone!requestDies(w)
    PROVE  MailInv'
BY DEF MailsAlone!requestDies, MailInv

\* One that sends its mail.
LEMMA MailSent ==
    ASSUME MailInv, NEW w \in mailRequests, w.op = "check",
           ~ IF type \in {"full_storage"}
               THEN MailsAlone!checkAndNotifyStorageThreshold(w.row) ELSE MailsAlone!Refuses(w.row),
           sent' = [sent EXCEPT ![today] = IF sent[today] > Limit[type] THEN sent[today] ELSE sent[today] + 1],
           MailsAlone!Goes(w, [w EXCEPT !.op = "write"]), UNCHANGED <<today, type, limit, mailStopped>>
    PROVE  MailInv'
<1> SUFFICES ASSUME ~ mailStopped PROVE (MailShape /\ OneMail /\ DayCounted /\ MonthCounted)'
  BY DEF MailInv
<1>1. MailShape /\ OneMail /\ DayCounted /\ MonthCounted
  BY DEF MailInv
<1>2. mailRequests = {w} /\ MailWork(w)
  BY <1>1 DEF OneMail
<1>3. PICK v : mailRequests' = {v} /\ {"nr", "op", "row"} \subseteq DOMAIN v /\ v.op = "write" /\ v.row = w.row
  <2>1. PICK v : v = [w EXCEPT !.op = "write"]
    OBVIOUS
  <2>2. mailRequests' = {v}
    BY <1>2, <2>1 DEF MailsAlone!Goes
  <2> QED BY <1>2, <2>1, <2>2 DEF MailWork
<1>4. Found' = Found
  BY DEF Found, MailsAlone!findOrCreate, MailsAlone!defaults
<1>5. OneMail'
  <2>1. MailWork(v)'
    BY <1>2, <1>3, <1>4 DEF MailWork
  <2> QED BY <1>3, <2>1 DEF OneMail
<1>6. Uncounted' = 1 /\ Uncounted = 0
  BY <1>2, <1>3 DEF Uncounted
<1>7. /\ Limit[type] \in Nat \ {0} /\ today \in MailDays /\ today \in Int
      /\ Found.lastMailSent \in Int /\ Found.attemptsCount \in Nat /\ Found.lastMailSent <= today
  BY <1>1, MailConstants DEF MailShape, MailDays, RowShape
<1>8. sent[today] < Limit[type]
  <2>1. CASE type # "full_storage"
    <3>1. ~ (Found.lastMailSent = today /\ Found.attemptsCount >= Limit[type])
      BY <1>2, <2>1 DEF MailWork, MailsAlone!Refuses, MailsAlone!isLimitForTodayReached, MailsAlone!isToday
    <3>2. sent[today] = IF Found.lastMailSent = today THEN Found.attemptsCount ELSE 0
      BY <1>1, <1>6, <1>7, <2>1 DEF DayCounted
    <3> QED BY <1>7, <3>1, <3>2
  <2>2. CASE type = "full_storage"
    <3>1. ~ (today - Found.lastMailSent < CooldownDays)
      BY <1>2, <2>2 DEF MailWork, MailsAlone!checkAndNotifyStorageThreshold, MailsAlone!daysSince
    <3>2. ~ (sent[today] > 0)
      BY <1>1, <1>6, <1>7, <2>2, <3>1, MailConstants DEF MonthCounted
    <3>3. sent[today] \in Nat
      BY <1>1, <1>7 DEF MailShape
    <3> QED BY <1>7, <3>2, <3>3
  <2> QED BY <2>1, <2>2
<1>9. /\ sent' \in [MailDays -> Nat] /\ sent[today] \in Nat /\ sent'[today] = sent[today] + 1
      /\ \A d \in MailDays : d # today => sent'[d] = sent[d]
  BY <1>1, <1>7, <1>8 DEF MailShape
<1>10. MailShape'
  <2>1. \A d \in MailDays : today < d => sent'[d] = 0
    BY <1>1, <1>7, <1>9 DEF MailShape, MailDays
  <2> QED BY <1>1, <1>4, <1>9, <2>1 DEF MailShape
<1>11. DayCounted'
  <2> SUFFICES ASSUME type # "full_storage"
               PROVE  /\ \A d \in MailDays : sent'[d] <= Limit[type]
                      /\ sent'[today] = (IF Found.lastMailSent = today THEN Found.attemptsCount ELSE 0) + 1
    BY <1>4, <1>6 DEF DayCounted
  <2>1. sent[today] = IF Found.lastMailSent = today THEN Found.attemptsCount ELSE 0
    BY <1>1, <1>6, <1>7 DEF DayCounted
  <2>2. \A d \in MailDays : sent[d] <= Limit[type]
    BY <1>1 DEF DayCounted
  <2> QED BY <1>7, <1>8, <1>9, <2>1, <2>2
<1>12. MonthCounted'
  <2> SUFFICES ASSUME type = "full_storage" PROVE MonthCounted'
    BY DEF MonthCounted
  <2>1. /\ ~ (today - Found.lastMailSent < CooldownDays)
        /\ ~ (Month(Found.lastMailSent) = Month(today) /\ Found.attemptsCount >= Limit[type])
    BY <1>2 DEF MailWork, MailsAlone!checkAndNotifyStorageThreshold, MailsAlone!daysSince, Month,
       MailsAlone!isLimitForThisMonthReached, MailsAlone!isThisMonth
  <2>2. \A d \in MailDays : sent[d] > 0 => d <= Found.lastMailSent
    BY <1>1, <1>6 DEF MonthCounted
  <2>3. sent[today] = 0 /\ sent'[today] = 1
    BY <1>7, <1>9, <2>1, <2>2, MailConstants
  <2>4. \A d \in MailDays : sent'[d] <= 1
    BY <1>1, <1>9, <2>3 DEF MonthCounted
  <2>5. \A d, e \in MailDays : d < e /\ sent'[d] > 0 /\ sent'[e] > 0 => e - d >= CooldownDays
    <3>1. SUFFICES ASSUME NEW d \in MailDays, NEW e \in MailDays, d < e, sent'[d] > 0, sent'[e] > 0
                   PROVE  e - d >= CooldownDays
      OBVIOUS
    <3>2. d \in Int /\ e \in Int /\ d # today
      <4>1. d = today => sent[e] > 0 /\ e <= Found.lastMailSent
        BY <1>9, <2>2, <3>1 DEF MailDays
      <4> QED BY <1>7, <3>1, <4>1 DEF MailDays
    <3>3. sent[d] > 0 /\ d <= Found.lastMailSent
      BY <1>9, <2>2, <3>1, <3>2
    <3>4. CASE e = today
      BY <1>7, <2>1, <3>2, <3>3, <3>4, MailConstants
    <3>5. CASE e # today
      BY <1>1, <1>9, <3>1, <3>3, <3>5 DEF MonthCounted
    <3> QED BY <3>4, <3>5
  <2>6. \A d \in MailDays : sent'[d] > 0 => d <= Found.lastMailSent \/ d = today
    BY <1>9, <2>2
  <2>7. Cardinality(Mailed(Month(today))) =
           IF Month(Found.lastMailSent) = Month(today) THEN Found.attemptsCount ELSE 0
    BY <1>1, <1>6, <1>7 DEF MonthCounted
  <2>8. /\ Mailed(Month(today))' = Mailed(Month(today)) \cup {today} /\ today \notin Mailed(Month(today))
        /\ \A x : x # Month(today) => Mailed(x)' = Mailed(x)
    BY <1>7, <1>9, <2>3 DEF Mailed
  <2>9. IsFiniteSet(Mailed(Month(today)))
    <3>1. IsFiniteSet(MailDays)
      <4>1. 0 \in Int /\ MaxDay \in Int
        BY MailConstants
      <4> QED BY <4>1, FS_Interval DEF MailDays
    <3>2. Mailed(Month(today)) \subseteq MailDays
      BY DEF Mailed
    <3> QED BY <3>1, <3>2, FS_Subset
  <2>10. Cardinality(Mailed(Month(today))') = Cardinality(Mailed(Month(today))) + 1
    BY <2>8, <2>9, FS_AddElement
  <2>11. Cardinality(Mailed(Month(today))') <= Limit[type]
    BY <1>7, <2>1, <2>7, <2>10
  <2>12. \A x \in Int : Cardinality(Mailed(x)') <= Limit[type]
    BY <1>1, <2>8, <2>11 DEF MonthCounted
  <2> QED BY <1>4, <1>6, <2>4, <2>5, <2>6, <2>7, <2>10, <2>12 DEF MonthCounted, Mailed
<1> QED BY <1>5, <1>10, <1>11, <1>12

LEMMA MailSends ==
    ASSUME MailInv, NEW w \in mailRequests, MailsAlone!sendMail(w)
    PROVE  MailInv'
<1> DEFINE refused == IF type \in {"full_storage"}
                        THEN MailsAlone!checkAndNotifyStorageThreshold(w.row) ELSE MailsAlone!Refuses(w.row)
<1>1. MailsAlone!sends(w, refused)
  BY DEF MailsAlone!sendMail, MailsAlone!Monthly
<1>2. w.op = "check" /\ UNCHANGED <<today, type, limit, mailStopped>>
  BY <1>1 DEF MailsAlone!sends
<1>3. CASE mailRequests' = mailRequests \ {w} /\ sent' = sent
  BY <1>2, <1>3, MailRefused
<1>4. CASE /\ ~ refused
           /\ sent' = [sent EXCEPT ![today] = IF @ > Limit[type] THEN @ ELSE @ + 1]
           /\ MailsAlone!Goes(w, [w EXCEPT !.op = "write"])
  BY <1>2, <1>4, MailSent
<1> QED BY <1>1, <1>3, <1>4 DEF MailsAlone!sends

LEMMA MailCounted ==
    ASSUME MailInv, NEW w \in mailRequests, MailsAlone!countMail(w)
    PROVE  MailInv'
<1> SUFFICES ASSUME ~ mailStopped PROVE (MailShape /\ OneMail /\ DayCounted /\ MonthCounted)'
  BY DEF MailInv, MailsAlone!countMail
<1>1. MailShape /\ OneMail /\ DayCounted /\ MonthCounted
  BY DEF MailInv
<1>2. mailRequests = {w} /\ MailWork(w) /\ w.op = "write"
  BY <1>1 DEF OneMail, MailsAlone!countMail
<1>3. w.row = Found /\ limit.rows = 1 /\ RowShape(Found)
  BY <1>1, <1>2 DEF MailWork, MailShape
<1>4. mailRequests' = {} /\ UNCHANGED <<today, type, sent>>
  BY <1>2 DEF MailsAlone!countMail
<1>5. PICK r : limit' = r /\ RowShape(r) /\ r.lastMailSent = today /\
               r.attemptsCount = (IF type = "full_storage"
                                    THEN IF Month(Found.lastMailSent) = Month(today) THEN Found.attemptsCount + 1 ELSE 1
                                    ELSE IF Found.lastMailSent = today THEN Found.attemptsCount + 1 ELSE 1)
  <2>0. today \in Int /\ Found.attemptsCount \in Nat
    BY <1>1, <1>3 DEF MailShape, MailDays, RowShape
  <2>1. PICK n : /\ n \in Nat
                 /\ n = (IF type = "full_storage"
                           THEN IF Month(Found.lastMailSent) = Month(today) THEN Found.attemptsCount + 1 ELSE 1
                           ELSE IF Found.lastMailSent = today THEN Found.attemptsCount + 1 ELSE 1)
    BY <2>0
  <2>2. PICK r : r = [Found EXCEPT !.attemptsCount = n, !.lastMailSent = today]
    OBVIOUS
  <2>3. limit' = r
    <3>1. limit' = IF type \in {"full_storage"} THEN MailsAlone!increaseMonthAttempts(Found)
                    ELSE MailsAlone!increaseTodayAttempts(Found)
      BY <1>3 DEF MailsAlone!countMail, MailsAlone!updateByUserIdAndMailType, MailsAlone!Monthly
    <3>2. CASE type = "full_storage"
      <4>1. n = IF Month(Found.lastMailSent) = Month(today) THEN Found.attemptsCount + 1 ELSE 1
        BY <2>1, <3>2
      <4> QED BY <2>2, <3>1, <3>2, <4>1 DEF MailsAlone!increaseMonthAttempts, MailsAlone!isThisMonth, Month
    <3>3. CASE type # "full_storage"
      <4>1. n = IF Found.lastMailSent = today THEN Found.attemptsCount + 1 ELSE 1
        BY <2>1, <3>3
      <4> QED BY <2>2, <3>1, <3>3, <4>1 DEF MailsAlone!increaseTodayAttempts, MailsAlone!isToday
    <3> QED BY <3>2, <3>3
  <2>4. RowShape(r) /\ r.lastMailSent = today /\ r.attemptsCount = n
    BY <1>3, <2>0, <2>1, <2>2 DEF RowShape
  <2> QED BY <2>1, <2>3, <2>4
<1>6. Found' = r
  <2>1. (RowShape(limit) => Found = limit)'
    BY DEF Found, MailsAlone!findOrCreate, RowShape
  <2>2. RowShape(limit)'
    BY <1>5 DEF RowShape
  <2> QED BY <1>5, <2>1, <2>2
<1>7. MailShape' /\ OneMail'
  <2>1. r.rows = 1 /\ today <= today
    BY <1>1, <1>5 DEF RowShape, MailShape, MailDays
  <2> QED BY <1>1, <1>4, <1>5, <1>6, <2>1 DEF MailShape, OneMail, RowShape
<1>8. Uncounted' = 0 /\ Uncounted = 1
  BY <1>2, <1>4 DEF Uncounted
<1>9. r.attemptsCount \in Nat /\ Found.attemptsCount \in Nat /\ Found.lastMailSent \in Int
      /\ Found.lastMailSent <= today
      /\ today \in Int
  BY <1>1, <1>5 DEF RowShape, MailShape, MailDays
<1>10. DayCounted'
  <2> SUFFICES ASSUME type # "full_storage" PROVE DayCounted'
    BY <1>4 DEF DayCounted
  <2>1. sent[today] = (IF Found.lastMailSent = today THEN Found.attemptsCount ELSE 0) + 1
    BY <1>1, <1>8 DEF DayCounted
  <2>2. sent[today] = r.attemptsCount + 0
    BY <1>5, <1>9, <2>1
  <2> QED BY <1>1, <1>4, <1>5, <1>6, <1>8, <2>2 DEF DayCounted
<1>11. MonthCounted'
  <2> SUFFICES ASSUME type = "full_storage" PROVE MonthCounted'
    BY <1>4 DEF MonthCounted
  <2>1. Cardinality(Mailed(Month(today))) =
           (IF Month(Found.lastMailSent) = Month(today) THEN Found.attemptsCount ELSE 0) + 1
    BY <1>1, <1>8 DEF MonthCounted
  <2>2. Cardinality(Mailed(Month(today))) = r.attemptsCount + 0
    BY <1>5, <1>9, <2>1
  <2>3. \A d \in MailDays : sent[d] > 0 => d <= today
    BY <1>1, <1>9 DEF MonthCounted, MailDays
  <2>4. (\A d \in MailDays : sent[d] > 0 => d <= Found.lastMailSent \/ (Uncounted = 1 /\ d = today))'
    BY <1>4, <1>5, <1>6, <2>3
  <2>5. (Cardinality(Mailed(Month(today))) =
              (IF Month(Found.lastMailSent) = Month(today) THEN Found.attemptsCount ELSE 0) + Uncounted)'
    BY <1>4, <1>5, <1>6, <1>8, <2>2 DEF Mailed
  <2>6. (/\ \A d \in MailDays : sent[d] <= 1
         /\ \A x \in Int : Cardinality(Mailed(x)) <= Limit[type]
         /\ \A d, e \in MailDays : d < e /\ sent[d] > 0 /\ sent[e] > 0 => e - d >= CooldownDays)'
    BY <1>1, <1>4 DEF MonthCounted, Mailed
  <2> QED BY <2>4, <2>5, <2>6 DEF MonthCounted
<1> QED BY <1>7, <1>10, <1>11

LEMMA MailMidnight ==
    ASSUME MailInv, MailsAlone!midnight
    PROVE  MailInv'
<1> SUFFICES ASSUME ~ mailStopped PROVE (MailShape /\ OneMail /\ DayCounted /\ MonthCounted)'
  BY DEF MailInv, MailsAlone!midnight
<1>1. MailShape /\ OneMail /\ DayCounted /\ MonthCounted
  BY DEF MailInv
<1>2. /\ today < MaxDay /\ today' = today + 1 /\ mailRequests = {} /\ mailRequests' = {}
      /\ UNCHANGED <<type, limit, sent>>
  BY DEF MailsAlone!midnight
<1>3. today \in Nat /\ today' \in MailDays /\ MailDays \subseteq Int
  BY <1>1, <1>2, MailConstants DEF MailShape, MailDays
<1>4. Uncounted = 0 /\ Uncounted' = 0 /\ OneMail'
  BY <1>2 DEF Uncounted, OneMail
<1>5. PICK r : /\ Found' = r /\ RowShape(r) /\ r.lastMailSent <= today'
               /\ r.lastMailSent = today' => r.attemptsCount = 0
               /\ type = "full_storage" => r = Found
  <2>1. CASE limit.rows = 0
    <3>1. PICK x : x = CASE type = "pre_create_user" -> today' [] type = "full_storage" -> -100 [] OTHER -> 0
      OBVIOUS
    <3>2. PICK r : r = [rows |-> 1, attemptsCount |-> 0, lastMailSent |-> x]
      OBVIOUS
    <3>3. Found' = r
      BY <1>2, <2>1, <3>1, <3>2
         DEF Found, MailsAlone!findOrCreate, MailsAlone!defaults, MailsAlone!LongAgo
    <3>4. x \in Int /\ x <= today' /\ (type = "full_storage" => x = -100)
      BY <1>2, <1>3, <3>1
    <3>5. RowShape(r) /\ r.lastMailSent = x /\ r.attemptsCount = 0
      BY <3>2, <3>4 DEF RowShape
    <3>6. type = "full_storage" => r = Found
      BY <2>1, <3>2, <3>4 DEF Found, MailsAlone!findOrCreate, MailsAlone!defaults, MailsAlone!LongAgo
    <3> QED BY <3>3, <3>4, <3>5, <3>6
  <2>2. CASE limit.rows # 0
    <3>1. Found' = limit /\ Found = limit
      BY <1>2, <2>2 DEF Found, MailsAlone!findOrCreate
    <3>2. RowShape(Found) /\ Found.lastMailSent \in Int /\ Found.lastMailSent <= today
      BY <1>1 DEF MailShape, RowShape
    <3> QED BY <1>2, <1>3, <3>1, <3>2
  <2> QED BY <2>1, <2>2
<1>6. MailShape'
  <2>1. \A d \in MailDays : today' < d => sent[d] = 0
    BY <1>1, <1>2, <1>3 DEF MailShape
  <2> QED BY <1>1, <1>2, <1>3, <1>5, <2>1 DEF MailShape
<1>7. sent[today'] = 0
  BY <1>1, <1>2, <1>3 DEF MailShape
<1>8. DayCounted'
  BY <1>1, <1>2, <1>4, <1>5, <1>7 DEF DayCounted
<1>9. MonthCounted'
  <2> SUFFICES ASSUME type = "full_storage" PROVE MonthCounted'
    BY <1>2 DEF MonthCounted
  <2>1. /\ Found' = Found /\ Found.lastMailSent \in Int /\ Found.lastMailSent <= today
        /\ Found.attemptsCount \in Nat
    BY <1>1, <1>5 DEF MailShape, RowShape
  <2>2. \A d \in MailDays : sent[d] > 0 => d <= Found.lastMailSent
    BY <1>1, <1>4 DEF MonthCounted
  <2>3. \A a, b \in Int : a <= b => Month(a) <= Month(b)
    BY MonthsInOrder, MailConstants DEF Month
  <2>4. \A a \in Int : Month(a) \in Int
    BY MailConstants DEF Month
  <2>5. Month(Found.lastMailSent) <= Month(today) /\ Month(today) <= Month(today')
    BY <1>2, <1>3, <2>1, <2>3
  <2>6. Cardinality(Mailed(Month(today'))) =
           IF Month(Found.lastMailSent) = Month(today') THEN Found.attemptsCount ELSE 0
    <3>1. CASE Month(Found.lastMailSent) = Month(today')
      <4>1. Month(today) = Month(today')
        BY <1>2, <1>3, <2>1, <2>4, <2>5, <3>1
      <4> QED BY <1>1, <1>4, <2>1, <3>1, <4>1 DEF MonthCounted
    <3>2. CASE Month(Found.lastMailSent) # Month(today')
      <4>1. ASSUME NEW e \in MailDays, sent[e] > 0 PROVE Month(e) # Month(today')
        <5>1. Month(e) <= Month(Found.lastMailSent)
          BY <1>3, <2>1, <2>2, <2>3, <4>1
        <5> QED BY <1>2, <1>3, <2>1, <2>4, <2>5, <3>2, <5>1
      <4>2. Mailed(Month(today')) = {}
        BY <4>1 DEF Mailed
      <4> QED BY <3>2, <4>2, FS_EmptySet
    <3> QED BY <3>1, <3>2
  <2>7. (Cardinality(Mailed(Month(today))) =
              (IF Month(Found.lastMailSent) = Month(today) THEN Found.attemptsCount ELSE 0) + Uncounted)'
    <3>1. Mailed(Month(today))' = Mailed(Month(today'))
      BY <1>2 DEF Mailed
    <3>2. (Month(Found.lastMailSent))' = Month(Found.lastMailSent) /\ Month(today)' = Month(today')
      BY <2>1 DEF Month
    <3> QED BY <1>4, <2>1, <2>6, <3>1, <3>2
  <2>8. (\A d \in MailDays : sent[d] > 0 => d <= Found.lastMailSent \/ (Uncounted = 1 /\ d = today))'
    BY <1>2, <2>1, <2>2
  <2>9. (/\ \A d \in MailDays : sent[d] <= 1
         /\ \A x \in Int : Cardinality(Mailed(x)) <= Limit[type]
         /\ \A d, e \in MailDays : d < e /\ sent[d] > 0 /\ sent[e] > 0 => e - d >= CooldownDays)'
    BY <1>1, <1>2 DEF MonthCounted, Mailed
  <2> QED BY <2>7, <2>8, <2>9 DEF MonthCounted
<1> QED BY <1>4, <1>6, <1>8, <1>9

LEMMA MailNext ==
    ASSUME MailInv, MailsAlone!Next
    PROVE  MailInv'
<1>1. CASE \E y : MailsAlone!Asks(y)
  BY <1>1, MailAsked
<1>2. CASE MailsAlone!midnight
  BY <1>2, MailMidnight
<1>3. ASSUME NEW w \in mailRequests,
             \/ MailsAlone!insertRow(w) \/ MailsAlone!sendMail(w) \/ MailsAlone!countMail(w)
             \/ MailsAlone!requestDies(w)
      PROVE  MailInv'
  BY <1>3, MailRowInserted, MailSends, MailCounted, MailDies
<1> QED
  BY <1>1, <1>2, <1>3 DEF MailsAlone!Next, MailsAlone!sendAccountUnblockEmail, MailsAlone!sendAccountVerifyEmail,
     MailsAlone!sendAccountEmailVerification, MailsAlone!sendUserDeactivationEmail,
     MailsAlone!sendDeactivationEmail, MailsAlone!getOrPreCreateUser, MailsAlone!getUserUsage

LEMMA MailInit ==
    ASSUME MailsAlone!Init
    PROVE  MailInv
<1>1. /\ today = 0 /\ mailRequests = {} /\ type \in MailsAlone!MailTypes
      /\ limit = [rows |-> 0, attemptsCount |-> 0, lastMailSent |-> -100]
      /\ sent = [d \in MailDays |-> 0]
  BY DEF MailsAlone!Init, MailsAlone!NoRow, MailsAlone!LongAgo, MailDays
<1>2. limit.rows = 0
  BY <1>1
<1>3. RowShape(Found) /\ Found.attemptsCount = 0 /\ Found.lastMailSent <= 0
  BY <1>1, <1>2, FoundNew
<1>4. MailShape /\ OneMail /\ Uncounted = 0
  BY <1>1, <1>2, <1>3, MailConstants DEF MailShape, OneMail, Uncounted, MailDays
<1>5. 0 \in MailDays /\ \A d \in MailDays : sent[d] = 0
  BY <1>1, MailConstants DEF MailDays
<1>6. Limit[type] \in Nat
  BY <1>1, MailConstants
<1>7. DayCounted
  BY <1>1, <1>3, <1>4, <1>5, <1>6 DEF DayCounted
<1>8. \A x : Mailed(x) = {} /\ Cardinality(Mailed(x)) = 0
  BY <1>5, FS_EmptySet DEF Mailed
<1>9. MonthCounted
  BY <1>1, <1>3, <1>4, <1>5, <1>6, <1>8 DEF MonthCounted
<1> QED BY <1>4, <1>7, <1>9 DEF MailInv

LEMMA MailsPromised ==
    ASSUME MailInv
    PROVE  /\ MailsAlone!WithinDailyLimit /\ MailsAlone!RefusedOnlyAtTheLimit
           /\ MailsAlone!StorageMailsSpaced
<1>1. MailsAlone!WithinDailyLimit
  BY DEF MailsAlone!WithinDailyLimit, MailsAlone!Monthly, MailsAlone!Days, MailInv, DayCounted, MailDays
<1>2. MailsAlone!RefusedOnlyAtTheLimit
  <2> SUFFICES ASSUME mailRequests = {}, ~ mailStopped, type # "full_storage"
               PROVE  MailsAlone!Refuses(Found) <=> sent[today] >= Limit[type]
    BY DEF MailsAlone!RefusedOnlyAtTheLimit, MailsAlone!Monthly, Found
  <2>1. MailShape /\ DayCounted /\ Uncounted = 0
    BY DEF MailInv, Uncounted
  <2>2. Found.attemptsCount \in Nat /\ Limit[type] \in Nat \ {0}
    BY <2>1, MailConstants DEF MailShape, RowShape
  <2>3. sent[today] = IF Found.lastMailSent = today THEN Found.attemptsCount ELSE 0
    BY <2>1, <2>2 DEF DayCounted
  <2> QED BY <2>2, <2>3 DEF MailsAlone!Refuses, MailsAlone!isLimitForTodayReached, MailsAlone!isToday
<1>3. MailsAlone!StorageMailsSpaced
  <2> SUFFICES ASSUME ~ mailStopped, type = "full_storage"
               PROVE  /\ \A d \in MailDays : sent[d] <= 1
                      /\ \A d \in MailDays : MailsAlone!Cardinality(MailsAlone!MailedIn(d)) <= Limit[type]
                      /\ \A d, e \in MailDays : d < e /\ sent[d] > 0 /\ sent[e] > 0 => e - d >= CooldownDays
    BY DEF MailsAlone!StorageMailsSpaced, MailsAlone!Monthly, MailsAlone!Days, MailDays
  <2>1. MonthCounted
    BY DEF MailInv
  <2>2. ASSUME NEW d \in MailDays PROVE MailsAlone!Cardinality(MailsAlone!MailedIn(d)) <= Limit[type]
    <3>1. Month(d) \in Int
      BY MailConstants DEF Month, MailDays
    <3>2. MailsAlone!MailedIn(d) = Mailed(Month(d))
      BY DEF MailsAlone!MailedIn, MailsAlone!Days, MailDays, Mailed, Month
    <3>3. MailsAlone!Cardinality(Mailed(Month(d))) = Cardinality(Mailed(Month(d)))
      BY MailCardinality
    <3>4. Cardinality(Mailed(Month(d))) <= Limit[type]
      BY <2>1, <3>1 DEF MonthCounted
    <3> QED BY <3>2, <3>3, <3>4
  <2> QED BY <2>1, <2>2 DEF MonthCounted
<1> QED BY <1>1, <1>2, <1>3

\* For any limits, cooldown and length of the month: with requests one at a time, and as
\* long as none stopped half way, no day has more mails of a type than its limit, mails
\* are refused at that limit and only there, and those about a full storage keep their
\* month and their distance.
THEOREM MailsAreLimited == MCSpec => []MailsWithinLimitsAlone
<1> DEFINE MInv == part = "mails alone" => MailInv
<1>1. MCInit => MInv
  BY MailInit DEF MCInit
<1>2. MInv /\ [MCNext]_<<accountVars, part, credentialVars, mailVars>> => MInv'
  <2> SUFFICES ASSUME MInv, [MCNext]_<<accountVars, part, credentialVars, mailVars>>,
                      part' = "mails alone"
               PROVE  MailInv'
    OBVIOUS
  <2>1. part = "mails alone" /\ MailInv
    BY DEF MCNext
  <2>2. CASE MailsAlone!Next
    BY <2>1, <2>2, MailNext
  <2>3. CASE UNCHANGED mailVars
    <3>1. UNCHANGED <<today, type, limit, mailRequests, sent, mailStopped>>
      BY <2>3 DEF mailVars
    <3>2. Found' = Found
      BY <3>1 DEF Found, MailsAlone!findOrCreate, MailsAlone!defaults
    <3>3. Uncounted' = Uncounted /\ (MailShape => MailShape') /\ (OneMail => OneMail')
      BY <3>1, <3>2 DEF Uncounted, MailShape, OneMail, MailWork
    <3>4. (DayCounted => DayCounted') /\ (MonthCounted => MonthCounted')
      BY <3>1, <3>2, <3>3 DEF DayCounted, MonthCounted, Mailed
    <3> QED BY <2>1, <3>1, <3>3, <3>4 DEF MailInv
  <2> QED BY <2>1, <2>2, <2>3 DEF MCNext
<1>3. MInv => MailsWithinLimitsAlone
  BY MailsPromised DEF MailsWithinLimitsAlone
<1> QED BY <1>1, <1>2, <1>3, PTL DEF MCSpec

=============================================================================
