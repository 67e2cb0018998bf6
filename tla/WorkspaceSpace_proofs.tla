------------------------- MODULE WorkspaceSpace_proofs -------------------------
(***************************************************************************)
(* Proofs about WorkspaceSpace, for any users, plans, sizes and requests   *)
(* that race.                                                              *)
(***************************************************************************)
EXTENDS WorkspaceSpace, TLAPS, FiniteSetTheorems, WellFoundedInduction

----------------------------------------------------------------------------
(* The type invariant, strengthened.                                       *)

\* The writes each operation comes to.
StepsOf ==
    [invite |-> {"createInvite", "mail"},
     accept |-> {"insert", "join", "uninvite", "rollback", "readOwner", "writeOwner"},
     change |-> {"readOwner", "writeOwner", "writeRows"},
     plan   |-> {"writeRows", "setStorage", "readOwner", "writeOwner", "setSeats"},
     upload |-> {"createFile", "writeRows"},
     sync   |-> {"writeUsage"},
     leave  |-> {"transfer", "readMember", "readOwner", "writeOwner", "deleteRows"}]

\* A request is at a step of its operation; only an invitation has to have an
\* amount that no other request has changed its sign.
RequestFine(r) ==
    /\ r \in Request /\ r.step \in StepsOf[r.op]
    /\ IsFiniteSet(r.writes) /\ IsFiniteSet(r.invite)
    /\ r.op = "invite" => r.amount \in Nat

RequestsFine ==
    /\ IsFiniteSet(requests)
    /\ \A r \in requests : RequestFine(r) /\ r.nr \in 1 .. MaxInFlight
    /\ \A r, s \in requests : r.nr = s.nr => r = s

RowsFine ==
    /\ rows \subseteq Row /\ IsFiniteSet(rows)
    /\ \A m, n \in rows : SameId(m, n) => m = n

TypeInv ==
    /\ RequestsFine /\ RowsFine
    /\ invites \subseteq Invite /\ IsFiniteSet(invites)
    /\ plan \in Plan /\ usage \in [Users -> Nat]
    /\ excused \subseteq Excuses /\ alone \in BOOLEAN

----------------------------------------------------------------------------
(* Requests that start, go on and finish.                                  *)

LEMMA StartFine ==
    ASSUME RequestsFine, NEW r, RequestFine(r), Start(r)
    PROVE  /\ RequestsFine'
           /\ \E s : /\ requests' = requests \cup {s} /\ s \notin requests
                     /\ s.step = r.step /\ s.op = r.op /\ s.target = r.target
<1>1. PICK k \in 1 .. MaxInFlight : Free(k) /\ requests' = requests \cup {[r EXCEPT !.nr = k]}
  BY DEF Start
<1>2. PICK s : s = [r EXCEPT !.nr = k]
  OBVIOUS
<1>3. /\ s.nr = k /\ s.op = r.op /\ s.step = r.step /\ s.writes = r.writes /\ s.invite = r.invite
      /\ s.amount = r.amount /\ s.target = r.target /\ s \in Request
  BY <1>2 DEF RequestFine, Request
<1>4. \A q \in requests : q.nr # k
  BY <1>1 DEF RequestsFine, Free
<1>5. IsFiniteSet(requests')
  BY <1>1, <1>2, FS_AddElement DEF RequestsFine
<1> QED BY <1>1, <1>2, <1>3, <1>4, <1>5 DEF RequestsFine, RequestFine

LEMMA ContinueFine ==
    ASSUME RequestsFine, NEW r \in requests, NEW s, RequestFine(s), s.nr = r.nr, Continue(r, s)
    PROVE  RequestsFine'
<1>1. IsFiniteSet(requests')
  BY FS_AddElement, FS_RemoveElement DEF RequestsFine, Continue
<1> QED BY <1>1 DEF RequestsFine, Continue

LEMMA GotoFine ==
    ASSUME RequestsFine, NEW r \in requests, NEW step \in StepsOf[r.op], Goto(r, step)
    PROVE  RequestsFine'
<1>1. PICK s : s = [r EXCEPT !.step = step]
  OBVIOUS
<1>2. RequestFine(r)
  BY DEF RequestsFine
<1>3. step \in {"createInvite", "mail", "insert", "join", "uninvite", "rollback",
                "readOwner", "writeOwner", "writeRows", "setStorage", "setSeats",
                "createFile", "writeUsage", "transfer", "readMember", "deleteRows"}
  BY <1>2 DEF StepsOf, RequestFine, Request
<1>4. /\ s.nr = r.nr /\ s.op = r.op /\ s.step = step /\ s.writes = r.writes /\ s.invite = r.invite
      /\ s.amount = r.amount /\ s \in Request
  BY <1>1, <1>2, <1>3 DEF RequestFine, Request
<1>5. RequestFine(s)
  BY <1>2, <1>4 DEF RequestFine
<1> QED BY <1>1, <1>4, <1>5, ContinueFine DEF Goto

LEMMA FinishFine ==
    ASSUME RequestsFine, NEW r \in requests, Finish(r) PROVE RequestsFine'
<1>1. IsFiniteSet(requests')
  BY FS_RemoveElement DEF RequestsFine, Finish
<1> QED BY <1>1 DEF RequestsFine, Finish

----------------------------------------------------------------------------
(* Rows that are written, added and deleted.                               *)

\* An UPDATE leaves the ids.
LEMMA RowsWritten ==
    ASSUME RowsFine, NEW f \in [rows -> Row], \A m \in rows : SameId(f[m], m),
           rows' = {f[m] : m \in rows}
    PROVE  RowsFine' /\ Cardinality(rows') <= Cardinality(rows)
<1>1. f \in Surjection(rows, rows')
  BY DEF Surjection
<1>2. IsFiniteSet(rows') /\ Cardinality(rows') <= Cardinality(rows)
  BY <1>1, FS_Surjection DEF RowsFine
<1>3. \A m, n \in rows' : SameId(m, n) => m = n
  BY DEF RowsFine, SameId
<1> QED BY <1>2, <1>3 DEF RowsFine

LEMMA CopyWritten ==
    ASSUME RowsFine, NEW w \in Row, rows' = {IF SameId(m, w) THEN w ELSE m : m \in rows}
    PROVE  RowsFine' /\ Cardinality(rows') <= Cardinality(rows)
<1> DEFINE f == [m \in rows |-> IF SameId(m, w) THEN w ELSE m]
<1>1. f \in [rows -> Row] /\ \A m \in rows : SameId(f[m], m)
  BY DEF RowsFine, SameId
<1>2. rows' = {f[m] : m \in rows}
  OBVIOUS
<1> HIDE DEF f
<1> QED BY <1>1, <1>2, RowsWritten

LEMMA RowsDeleted ==
    ASSUME RowsFine, rows' \subseteq rows
    PROVE  RowsFine' /\ Cardinality(rows') <= Cardinality(rows)
BY FS_Subset DEF RowsFine

\* There is always an id that is free, since those of one user are finitely many.
LEMMA FreshIdIsNew ==
    ASSUME TypeInv, NEW u
    PROVE  /\ FreshId(u) \in Nat
           /\ \A m \in rows \cup invites : m.user = u => m.id # FreshId(u)
<1> DEFINE mentioned == rows \cup invites \cup UNION {r.writes \cup r.invite : r \in requests}
           mine == {y \in mentioned : y.user = u}
           used == {x.id : x \in mine}
           N == Cardinality(used) + 1
<1>1. IsFiniteSet(UNION {r.writes \cup r.invite : r \in requests})
  <2> DEFINE f == [r \in requests |-> r.writes \cup r.invite]
             T == {r.writes \cup r.invite : r \in requests}
  <2>1. f \in Surjection(requests, T)
    BY DEF Surjection
  <2>2. IsFiniteSet(T)
    BY <2>1, FS_Surjection DEF TypeInv, RequestsFine
  <2>3. \A r \in requests : IsFiniteSet(r.writes \cup r.invite)
    BY FS_Union DEF TypeInv, RequestsFine, RequestFine
  <2> QED BY <2>2, <2>3, FS_UNION
<1>2. IsFiniteSet(mine)
  <2>1. IsFiniteSet(rows \cup invites)
    BY FS_Union DEF TypeInv, RowsFine
  <2>2. IsFiniteSet(mentioned)
    BY <1>1, <2>1, FS_Union
  <2> QED BY <2>2, FS_Subset
<1>3. IsFiniteSet(used)
  <2> DEFINE g == [x \in mine |-> x.id]
  <2> HIDE DEF mine
  <2>1. g \in Surjection(mine, used)
    BY DEF Surjection
  <2> QED BY <1>2, <2>1, FS_Surjection
<1>4. N \in Nat /\ N > Cardinality(used) /\ Cardinality(used) \in Nat
  BY <1>3, FS_CardinalityType
<1>5. \E n \in 1 .. N : n \notin used
  <2> SUFFICES ASSUME 1 .. N \subseteq used PROVE FALSE
    OBVIOUS
  <2> HIDE DEF used
  <2>1. Cardinality(1 .. N) <= Cardinality(used)
    BY <1>3, FS_Subset
  <2>2. Cardinality(1 .. N) = N
    BY <1>4, FS_Interval
  <2> QED BY <1>4, <2>1, <2>2
<1>6. FreshId(u) = CHOOSE n \in 1 .. N : n \notin used
  BY DEF FreshId
<1>7. FreshId(u) \in 1 .. N /\ FreshId(u) \notin used
  <2> HIDE DEF used, N
  <2> QED BY <1>5, <1>6
<1>8. \A m \in rows \cup invites : m.user = u => m.id \in used
  OBVIOUS
<1> HIDE DEF used, N
<1> QED BY <1>4, <1>7, <1>8

LEMMA OneMore ==
    ASSUME NEW S, IsFiniteSet(S), NEW x
    PROVE  IsFiniteSet(S \cup {x}) /\ Cardinality(S \cup {x}) <= Cardinality(S) + 1
<1>1. Cardinality(S) \in Nat
  BY FS_CardinalityType
<1> QED BY <1>1, FS_AddElement

LEMMA RowAdded ==
    ASSUME TypeInv, NEW u \in Users, NEW l \in Int,
           rows' = rows \cup {[id |-> FreshId(u), user |-> u, limit |-> l, drive |-> 0]}
    PROVE  RowsFine' /\ Cardinality(rows') <= Cardinality(rows) + 1
<1>1. PICK n : n = [id |-> FreshId(u), user |-> u, limit |-> l, drive |-> 0]
  OBVIOUS
<1>2. n \in Row /\ n.user = u /\ n.id = FreshId(u)
  BY <1>1, FreshIdIsNew DEF Row
<1>3. \A m \in rows : ~ SameId(m, n)
  BY <1>2, FreshIdIsNew DEF SameId
<1>4. rows' = rows \cup {n} /\ IsFiniteSet(rows)
  BY <1>1 DEF TypeInv, RowsFine
<1>5. IsFiniteSet(rows') /\ Cardinality(rows') <= Cardinality(rows) + 1
  BY <1>4, OneMore
<1>6. \A x, y \in rows' : SameId(x, y) => x = y
  BY <1>3, <1>4 DEF TypeInv, RowsFine, SameId
<1> QED BY <1>2, <1>4, <1>5, <1>6 DEF TypeInv, RowsFine

----------------------------------------------------------------------------
(* Requests that begin.                                                    *)

\* A request as it begins, column by column.
Fresh(op, step, u, a, i, w, t) ==
    [nr |-> 0, op |-> op, step |-> step, user |-> u, amount |-> a,
     invite |-> i, writes |-> w, target |-> t]

LEMMA FreshFine ==
    ASSUME NEW op \in DOMAIN StepsOf, NEW step \in StepsOf[op], NEW u \in Users,
           NEW a \in Int, op = "invite" => a \in Nat,
           NEW i \in SUBSET Invite, IsFiniteSet(i), NEW w \in SUBSET Row, IsFiniteSet(w),
           NEW t \in Plan
    PROVE  RequestFine(Fresh(op, step, u, a, i, w, t))
<1>1. PICK r : r = Fresh(op, step, u, a, i, w, t)
  OBVIOUS
<1>2. op \in {"invite", "accept", "change", "plan", "upload", "sync", "leave"}
  BY DEF StepsOf
<1>3. step \in {"createInvite", "mail", "insert", "join", "uninvite", "rollback",
                "readOwner", "writeOwner", "writeRows", "setStorage", "setSeats",
                "createFile", "writeUsage", "transfer", "readMember", "deleteRows"}
  BY <1>2 DEF StepsOf
<1>4. r.op = op /\ r.step = step /\ r.amount = a /\ r.writes = w /\ r.invite = i
  BY <1>1 DEF Fresh
<1>5. r \in Request
  BY <1>1, <1>2, <1>3 DEF Request, Fresh
<1>6. RequestFine(r)
  BY <1>4, <1>5 DEF RequestFine
<1> QED BY <1>1, <1>6

\* A share of the space is a number.
LEMMA ShareIsNat ==
    ASSUME NEW p \in Plan PROVE p.limit \div p.seats \in Nat
<1>1. \A a \in Nat, b \in Nat \ {0} : a \div b \in Nat
  OBVIOUS
<1> QED BY <1>1 DEF Plan

LEMMA DifferenceIsInt ==
    ASSUME plan \in Plan, NEW p \in Plan PROVE spaceDifference(p) \in Int
<1>1. \A a, b \in Nat \ {0} : a * b \in Nat \ {0}
  OBVIOUS
<1>2. \A a, b \in Nat : a * b \in Int
  OBVIOUS
<1>3. PICK x, y, z : x = p.limit * plan.seats /\ y = plan.limit * p.seats /\ z = p.seats * plan.seats
  OBVIOUS
<1>4. x \in Int /\ y \in Int /\ z \in Nat \ {0}
  BY <1>1, <1>2, <1>3 DEF Plan
<1>5. (x - y) \div z \in Int
  BY <1>4
<1> QED BY <1>3, <1>5 DEF spaceDifference

\* What a request that begins leaves as it is.
LEMMA StartType ==
    ASSUME TypeInv, NEW r, RequestFine(r), Start(r),
           UNCHANGED <<plan, rows, invites, usage, excused, alone>>
    PROVE  TypeInv'
<1>1. RequestsFine'
  BY StartFine DEF TypeInv
<1> QED BY <1>1 DEF TypeInv, RowsFine

LEMMA StartsType ==
    ASSUME WorkspaceConstants, TypeInv, alone' = alone
    PROVE  /\ \A u \in Users, s \in Spaces \cup {plan.limit \div plan.seats} :
                 inviteUserToWorkspace(u, s) => TypeInv'
           /\ \A i \in invites : acceptWorkspaceInvite(i) => TypeInv'
           /\ \A m \in rows : /\ \A s \in Spaces : changeUserAssignedSpace(m, s) => TypeInv'
                              /\ uploadFile(m) \/ getUserUsageInWorkspace(m) => TypeInv'
           /\ \A u \in Users : leaveWorkspace(u) => TypeInv'
           /\ \A p \in Plans : updateWorkspaceLimit(p) => TypeInv'
<1>0. /\ {"invite", "accept", "change", "plan", "upload", "sync", "leave"} \subseteq DOMAIN StepsOf
      /\ "createInvite" \in StepsOf["invite"] /\ "insert" \in StepsOf["accept"]
      /\ "readOwner" \in StepsOf["change"] /\ "transfer" \in StepsOf["leave"]
      /\ "writeRows" \in StepsOf["plan"]
      /\ plan \in Plan /\ Plans \subseteq Plan /\ Owner \in Users /\ Spaces \subseteq Nat
      /\ IsFiniteSet({}) /\ {} \in SUBSET Row /\ {} \in SUBSET Invite
      /\ usage \in [Users -> Nat]
  BY FS_EmptySet DEF StepsOf, TypeInv, WorkspaceConstants, Plan
<1>1. ASSUME NEW u \in Users, NEW s \in Spaces \cup {plan.limit \div plan.seats},
             inviteUserToWorkspace(u, s)
      PROVE  TypeInv'
  <2>1. s \in Nat
    BY <1>0, ShareIsNat
  <2>2. PICK r : r = Req("invite", "createInvite", u, s)
    OBVIOUS
  <2>3. r = Fresh("invite", "createInvite", u, s, {}, {}, plan)
    BY <2>2 DEF Req, Fresh
  <2>4. RequestFine(r)
    <3>1. s \in Int /\ ("invite" = "invite" => s \in Nat) /\ "invite" \in DOMAIN StepsOf
      BY <1>0, <2>1
    <3>2. RequestFine(Fresh("invite", "createInvite", u, s, {}, {}, plan))
      BY <1>0, <3>1, FreshFine
    <3> QED BY <2>3, <3>2
  <2> QED BY <1>1, <2>2, <2>4, StartType DEF inviteUserToWorkspace
<1>2. ASSUME NEW i \in invites, acceptWorkspaceInvite(i) PROVE TypeInv'
  <2>1. i \in Invite /\ IsFiniteSet({i})
    BY FS_Singleton DEF TypeInv
  <2>2. PICK r : r = [Req("accept", "insert", i.user, i.space) EXCEPT !.invite = {i}]
    OBVIOUS
  <2>3. r = Fresh("accept", "insert", i.user, i.space, {i}, {}, plan)
    BY <2>2 DEF Req, Fresh
  <2>4. RequestFine(r)
    <3>1. i.user \in Users /\ i.space \in Int /\ {i} \in SUBSET Invite
      BY <2>1 DEF Invite
    <3> QED BY <1>0, <2>1, <2>3, <3>1, FreshFine
  <2> QED BY <1>2, <2>2, <2>4, StartType DEF acceptWorkspaceInvite
<1>3. ASSUME NEW m \in rows, NEW s \in Spaces, changeUserAssignedSpace(m, s) PROVE TypeInv'
  <2>1. m \in Row
    BY DEF TypeInv, RowsFine
  <2>2. PICK w : w = [m EXCEPT !.limit = s]
    OBVIOUS
  <2>3. w \in Row /\ IsFiniteSet({w}) /\ s - m.limit \in Int
    <3>1. s \in Int /\ m.limit \in Int
      BY <1>0, <2>1 DEF Row
    <3>2. w \in Row
      BY <2>1, <2>2, <3>1 DEF Row
    <3>3. s - m.limit \in Int
      BY <3>1
    <3> QED BY <3>2, <3>3, FS_Singleton
  <2>4. PICK r : r = [Req("change", "readOwner", m.user, s - m.limit) EXCEPT !.writes = {w}]
    OBVIOUS
  <2>5. r = Fresh("change", "readOwner", m.user, s - m.limit, {}, {w}, plan)
    BY <2>4 DEF Req, Fresh
  <2>6. RequestFine(r)
    <3>1. m.user \in Users /\ {w} \in SUBSET Row
      BY <2>1, <2>3 DEF Row
    <3>2. PICK d \in Int : d = s - m.limit
      BY <2>3
    <3>3. ("change" = "invite" => d \in Nat) /\ "change" \in DOMAIN StepsOf
      BY <1>0
    <3>4. RequestFine(Fresh("change", "readOwner", m.user, d, {}, {w}, plan))
      BY <1>0, <2>3, <3>1, <3>3, FreshFine
    <3> QED BY <2>5, <3>2, <3>4
  <2> QED BY <1>3, <2>2, <2>4, <2>6, StartType DEF changeUserAssignedSpace
<1>4. ASSUME NEW m \in rows, uploadFile(m) \/ getUserUsageInWorkspace(m) PROVE TypeInv'
  <2>1. m \in Row
    BY DEF TypeInv, RowsFine
  <2>2. PICK w \in {addDriveUsage(m), [m EXCEPT !.drive = usage[m.user]]},
             op \in {"upload", "sync"}, step \in {"createFile", "writeUsage"} :
           /\ step \in StepsOf[op]
           /\ UNCHANGED <<plan, rows, invites, usage, excused>>
           /\ Start([Req(op, step, m.user, 0) EXCEPT !.writes = {w}])
    BY <1>4 DEF uploadFile, getUserUsageInWorkspace, StepsOf
  <2>3. w \in Row /\ IsFiniteSet({w})
    <3>1. usage[m.user] \in Nat /\ m.drive + 1 \in Nat
      BY <1>0, <2>1 DEF Row
    <3>2. [m EXCEPT !.drive = usage[m.user]] \in Row
      BY <2>1, <3>1 DEF Row
    <3>3. addDriveUsage(m) \in Row
      BY <2>1, <3>1 DEF Row, addDriveUsage
    <3> QED BY <2>2, <3>2, <3>3, FS_Singleton
  <2>4. PICK r : r = [Req(op, step, m.user, 0) EXCEPT !.writes = {w}]
    OBVIOUS
  <2>5. r = Fresh(op, step, m.user, 0, {}, {w}, plan)
    BY <2>4 DEF Req, Fresh
  <2>6. RequestFine(r)
    <3>1. m.user \in Users /\ {w} \in SUBSET Row /\ 0 \in Int
      BY <2>1, <2>3 DEF Row
    <3> QED BY <1>0, <2>2, <2>3, <2>5, <3>1, FreshFine
  <2> QED BY <2>2, <2>4, <2>6, StartType
<1>5. ASSUME NEW u \in Users, leaveWorkspace(u) PROVE TypeInv'
  <2>1. PICK r : r = Req("leave", "transfer", u, 0)
    OBVIOUS
  <2>2. r = Fresh("leave", "transfer", u, 0, {}, {}, plan)
    BY <2>1 DEF Req, Fresh
  <2>3. RequestFine(r)
    BY <1>0, <2>2, FreshFine
  <2> QED BY <1>5, <2>1, <2>3, StartType DEF leaveWorkspace
<1>6. ASSUME NEW p \in Plans, updateWorkspaceLimit(p) PROVE TypeInv'
  <2> DEFINE f == [m \in rows |-> [m EXCEPT !.limit = @ + spaceDifference(p)]]
             w == {f[m] : m \in rows}
  <2>1. spaceDifference(p) \in Int /\ unusedSpace(p) \in Int
    <3>1. spaceDifference(p) \in Int
      BY <1>0, DifferenceIsInt
    <3>2. plan.limit \in Nat /\ p.limit \in Nat /\ Cardinality(rows) \in Nat
      BY <1>0, FS_CardinalityType DEF Plan, TypeInv, RowsFine
    <3> QED BY <3>1, <3>2 DEF unusedSpace
  <2>2. \A m \in rows : f[m] \in Row
    BY <2>1 DEF Row, TypeInv, RowsFine
  <2>3. w = {[m EXCEPT !.limit = @ + spaceDifference(p)] : m \in rows}
    OBVIOUS
  <2>4. PICK r : r = [Req("plan", "writeRows", Owner, unusedSpace(p)) EXCEPT !.writes = w, !.target = p]
    OBVIOUS
  <2>5. Start(r) /\ UNCHANGED <<plan, rows, invites, usage, excused>>
    BY <1>6, <2>3, <2>4 DEF updateWorkspaceLimit
  <2> HIDE DEF f
  <2>6. f \in Surjection(rows, w)
    BY DEF Surjection, f
  <2>7. IsFiniteSet(w) /\ w \in SUBSET Row
    BY <2>2, <2>6, FS_Surjection DEF TypeInv, RowsFine
  <2> HIDE DEF w
  <2>8. r = Fresh("plan", "writeRows", Owner, unusedSpace(p), {}, w, p)
    BY <2>4 DEF Req, Fresh
  <2>9. RequestFine(r)
    BY <1>0, <2>1, <2>7, <2>8, FreshFine
  <2> QED BY <2>5, <2>9, StartType
<1> QED BY <1>1, <1>2, <1>3, <1>4, <1>5, <1>6

----------------------------------------------------------------------------
(* Requests that go on.                                                    *)

\* Goto and Finish, with all the rest unchanged.
LEMMA GoOnType ==
    ASSUME TypeInv, NEW r \in requests, alone' = alone, plan' \in Plan,
           excused' \subseteq Excuses, RowsFine', usage' \in [Users -> Nat],
           invites' \subseteq Invite, IsFiniteSet(invites'),
           \/ Finish(r)
           \/ \E step \in StepsOf[r.op] : Goto(r, step)
           \/ \E s : RequestFine(s) /\ s.nr = r.nr /\ Continue(r, s)
    PROVE  TypeInv'
<1>1. RequestsFine
  BY DEF TypeInv
<1>2. RequestsFine'
  BY <1>1, FinishFine, GotoFine, ContinueFine
<1> QED BY <1>2 DEF TypeInv

\* A record whose step or amount is replaced, one whose invitation is, and one
\* whose copies are.
LEMMA RequestChanged ==
    ASSUME NEW r, RequestFine(r), NEW step \in StepsOf[r.op], NEW a \in Int,
           r.op = "invite" => a \in Nat, NEW i \in SUBSET Invite, IsFiniteSet(i),
           NEW w \in SUBSET Row, IsFiniteSet(w),
           NEW s, s = [nr |-> r.nr, op |-> r.op, step |-> step, user |-> r.user, amount |-> a,
                       invite |-> i, writes |-> w, target |-> r.target]
    PROVE  RequestFine(s) /\ s.nr = r.nr
<1>1. step \in {"createInvite", "mail", "insert", "join", "uninvite", "rollback",
                "readOwner", "writeOwner", "writeRows", "setStorage", "setSeats",
                "createFile", "writeUsage", "transfer", "readMember", "deleteRows"}
  BY DEF StepsOf, RequestFine, Request
<1>2. s \in Request
  BY <1>1 DEF Request, RequestFine
<1>3. s.op = r.op /\ s.step = step /\ s.amount = a /\ s.invite = i /\ s.writes = w /\ s.nr = r.nr
  OBVIOUS
<1> QED BY <1>2, <1>3 DEF RequestFine

LEMMA InvitationStepsType ==
    ASSUME TypeInv, NEW r \in requests, alone' = alone
    PROVE  /\ createInvite(r) => TypeInv'
           /\ sendInvitation(r) \/ deleteInvite(r) => TypeInv'
<1>0. RequestFine(r) /\ r \in Request /\ r.user \in Users
  BY DEF TypeInv, RequestsFine, RequestFine, Request
<1>1. ASSUME createInvite(r) PROVE TypeInv'
  <2>1. r.op = "invite" /\ r.amount \in Nat
    BY <1>0, <1>1 DEF createInvite, RequestFine, StepsOf, Request
  <2>2. PICK i : i = [id |-> FreshId(r.user), user |-> r.user, space |-> r.amount]
    OBVIOUS
  <2>3. i \in Invite /\ IsFiniteSet({i})
    BY <1>0, <2>1, <2>2, FreshIdIsNew, FS_Singleton DEF Invite
  <2>4. /\ invites' = invites \cup {i}
        /\ Continue(r, [r EXCEPT !.step = "mail", !.invite = {i}])
        /\ UNCHANGED <<plan, rows, usage, excused>>
    BY <1>1, <2>2 DEF createInvite
  <2>5. invites' \subseteq Invite /\ IsFiniteSet(invites')
    BY <2>3, <2>4, OneMore DEF TypeInv
  <2>6. PICK s : s = [r EXCEPT !.step = "mail", !.invite = {i}]
    OBVIOUS
  <2>7. s = [nr |-> r.nr, op |-> r.op, step |-> "mail", user |-> r.user, amount |-> r.amount,
             invite |-> {i}, writes |-> r.writes, target |-> r.target]
    BY <1>0, <2>6 DEF Request
  <2>8. "mail" \in StepsOf[r.op] /\ {i} \in SUBSET Invite
    BY <2>1, <2>3 DEF StepsOf
  <2>9. r.writes \in SUBSET Row /\ IsFiniteSet(r.writes) /\ r.amount \in Int
    BY <1>0 DEF Request, RequestFine
  <2>10. RequestFine(s) /\ s.nr = r.nr
    BY <1>0, <2>1, <2>3, <2>7, <2>8, <2>9, RequestChanged
  <2>11. RowsFine' /\ plan' \in Plan /\ usage' \in [Users -> Nat] /\ excused' \subseteq Excuses
    BY <2>4 DEF TypeInv, RowsFine
  <2> QED BY <2>4, <2>5, <2>6, <2>10, <2>11, GoOnType
<1>2. ASSUME sendInvitation(r) \/ deleteInvite(r) PROVE TypeInv'
  <2>1. invites' \subseteq invites /\ UNCHANGED <<plan, rows, usage, excused>>
    BY <1>2 DEF sendInvitation, deleteInvite
  <2>2. invites' \subseteq Invite /\ IsFiniteSet(invites')
    BY <2>1, FS_Subset DEF TypeInv
  <2>3. Finish(r) \/ \E step \in StepsOf[r.op] : Goto(r, step)
    <3>1. CASE sendInvitation(r)
      BY <3>1 DEF sendInvitation
    <3>2. CASE deleteInvite(r)
      <4>1. r.op = "accept"
        BY <1>0, <3>2 DEF deleteInvite, RequestFine, StepsOf, Request
      <4>2. "readOwner" \in StepsOf[r.op]
        BY <4>1 DEF StepsOf
      <4> QED BY <3>2, <4>2 DEF deleteInvite
    <3> QED BY <1>2, <3>1, <3>2
  <2>4. RowsFine' /\ plan' \in Plan /\ usage' \in [Users -> Nat] /\ excused' \subseteq Excuses
    BY <2>1 DEF TypeInv, RowsFine
  <2> QED BY <2>1, <2>2, <2>3, <2>4, GoOnType
<1> QED BY <1>1, <1>2

\* The operation a step belongs to.
LEMMA OpOfStep ==
    ASSUME NEW r, RequestFine(r)
    PROVE  /\ r.step \in {"insert", "join", "uninvite", "rollback"} => r.op = "accept"
           /\ r.step \in {"readOwner", "writeOwner"} => r.op \in {"accept", "change", "plan", "leave"}
           /\ r.step = "writeRows" => r.op \in {"change", "plan", "upload"}
           /\ r.step \in {"setStorage", "setSeats"} => r.op = "plan"
           /\ r.step \in {"createInvite", "mail"} => r.op = "invite"
           /\ r.step = "createFile" => r.op = "upload"
           /\ r.step = "writeUsage" => r.op = "sync"
           /\ r.step \in {"transfer", "readMember", "deleteRows"} => r.op = "leave"
BY DEF RequestFine, StepsOf, Request

LEMMA JoiningStepsType ==
    ASSUME TypeInv, NEW r \in requests, alone' = alone
    PROVE  /\ addUserToWorkspace(r) => TypeInv'
           /\ addUserToTeam(r) => TypeInv'
           /\ rollbackUserAddedToWorkspace(r) \/ deleteUserFromWorkspace(r) => TypeInv'
<1>0. RequestFine(r) /\ r.user \in Users /\ r.amount \in Int
  BY DEF TypeInv, RequestsFine, RequestFine, Request
<1>1. ASSUME addUserToWorkspace(r) PROVE TypeInv'
  <2>1. r.op = "accept" /\ UNCHANGED <<plan, invites, usage, excused>>
    BY <1>0, <1>1, OpOfStep DEF addUserToWorkspace
  <2>2. \E step \in StepsOf[r.op] : Goto(r, step)
    <3>1. "join" \in StepsOf[r.op]
      BY <2>1 DEF StepsOf
    <3> QED BY <1>1, <3>1 DEF addUserToWorkspace
  <2>3. RowsFine'
    <3>1. rows' = rows \cup {[id |-> FreshId(r.user), user |-> r.user,
                               limit |-> r.amount, drive |-> 0]}
      BY <1>1 DEF addUserToWorkspace
    <3> QED BY <1>0, <3>1, RowAdded
  <2>4. plan' \in Plan /\ usage' \in [Users -> Nat] /\ excused' \subseteq Excuses
        /\ invites' \subseteq Invite /\ IsFiniteSet(invites')
    BY <2>1 DEF TypeInv
  <2> QED BY <2>2, <2>3, <2>4, GoOnType
<1>2. ASSUME addUserToTeam(r) PROVE TypeInv'
  <2>1. r.op = "accept" /\ UNCHANGED <<plan, rows, invites, usage, excused>>
    BY <1>0, <1>2, OpOfStep DEF addUserToTeam
  <2>2. "uninvite" \in StepsOf[r.op]
    BY <2>1 DEF StepsOf
  <2>3. plan' \in Plan /\ usage' \in [Users -> Nat] /\ excused' \subseteq Excuses /\ RowsFine'
        /\ invites' \subseteq Invite /\ IsFiniteSet(invites')
    BY <2>1 DEF TypeInv, RowsFine
  <2> QED BY <1>2, <2>2, <2>3, GoOnType DEF addUserToTeam
<1>3. ASSUME rollbackUserAddedToWorkspace(r) \/ deleteUserFromWorkspace(r) PROVE TypeInv'
  <2>1. /\ rows' \subseteq rows /\ Finish(r) /\ UNCHANGED <<plan, invites, usage, excused>>
    BY <1>3 DEF rollbackUserAddedToWorkspace, deleteUserFromWorkspace
  <2>2. RowsFine'
    BY <2>1, RowsDeleted DEF TypeInv
  <2>3. plan' \in Plan /\ usage' \in [Users -> Nat] /\ excused' \subseteq Excuses
        /\ invites' \subseteq Invite /\ IsFiniteSet(invites')
    BY <2>1 DEF TypeInv
  <2> QED BY <2>1, <2>2, <2>3, GoOnType
<1> QED BY <1>1, <1>2, <1>3

LEMMA OwnerStepsType ==
    ASSUME WorkspaceConstants, TypeInv, NEW r \in requests, alone' = alone
    PROVE  /\ adjustOwnerStorage(r) => TypeInv'
           /\ updateOwnerLimit(r) => TypeInv'
<1>0. /\ RequestFine(r) /\ r \in Request /\ r.amount \in Int
      /\ r.writes \in SUBSET Row /\ IsFiniteSet(r.writes)
      /\ r.invite \in SUBSET Invite /\ IsFiniteSet(r.invite)
  BY DEF TypeInv, RequestsFine, RequestFine, Request
<1>1. ASSUME adjustOwnerStorage(r) PROVE TypeInv'
  <2>1. /\ r.op \in {"accept", "change", "plan", "leave"}
        /\ UNCHANGED <<plan, rows, invites, usage>>
    BY <1>0, <1>1, OpOfStep DEF adjustOwnerStorage
  <2>2. excused' \subseteq Excuses
    BY <1>1 DEF adjustOwnerStorage, TypeInv, Excuse, Excuses
  <2>3. \/ Finish(r)
        \/ r.op = "accept" /\ Goto(r, "rollback")
        \/ \E o \in RowsOf(Owner) :
              Continue(r, [r EXCEPT !.step = "writeOwner", !.amount = newOwnerLimit(r, o)])
    BY <1>1 DEF adjustOwnerStorage
  <2>4. ASSUME NEW o \in RowsOf(Owner),
               Continue(r, [r EXCEPT !.step = "writeOwner", !.amount = newOwnerLimit(r, o)])
        PROVE  \E s : RequestFine(s) /\ s.nr = r.nr /\ Continue(r, s)
    <3>1. PICK a \in Int : a = newOwnerLimit(r, o)
      BY <1>0 DEF newOwnerLimit, RowsOf, TypeInv, RowsFine, Row
    <3>2. PICK s : s = [r EXCEPT !.step = "writeOwner", !.amount = a]
      OBVIOUS
    <3>3. s = [nr |-> r.nr, op |-> r.op, step |-> "writeOwner", user |-> r.user, amount |-> a,
               invite |-> r.invite, writes |-> r.writes, target |-> r.target]
      BY <1>0, <3>2 DEF Request
    <3>4. "writeOwner" \in StepsOf[r.op] /\ r.op # "invite"
      BY <2>1 DEF StepsOf
    <3>5. RequestFine(s) /\ s.nr = r.nr
      BY <1>0, <3>3, <3>4, RequestChanged
    <3> QED BY <2>4, <3>1, <3>2, <3>5
  <2>5. r.op = "accept" => "rollback" \in StepsOf[r.op]
    BY DEF StepsOf
  <2>6. plan' \in Plan /\ usage' \in [Users -> Nat] /\ RowsFine'
        /\ invites' \subseteq Invite /\ IsFiniteSet(invites')
    BY <2>1 DEF TypeInv, RowsFine
  <2> QED BY <2>2, <2>3, <2>4, <2>5, <2>6, GoOnType
<1>2. ASSUME updateOwnerLimit(r) PROVE TypeInv'
  <2>1. /\ r.op \in {"accept", "change", "plan", "leave"}
        /\ UNCHANGED <<plan, invites, usage, excused>>
    BY <1>0, <1>2, OpOfStep DEF updateOwnerLimit
  <2>2. RowsFine'
    <3> DEFINE f == [m \in rows |-> IF m.user = Owner THEN [m EXCEPT !.limit = r.amount] ELSE m]
    <3>1. \A m \in rows : f[m] \in Row /\ SameId(f[m], m)
      BY <1>0 DEF TypeInv, RowsFine, Row, SameId
    <3>2. rows' = {f[m] : m \in rows}
      BY <1>2 DEF updateOwnerLimit
    <3>3. f \in [rows -> Row]
      BY <3>1
    <3> HIDE DEF f
    <3> QED BY <3>1, <3>2, <3>3, RowsWritten DEF TypeInv
  <2>3. Finish(r) \/ \E step \in StepsOf[r.op] : Goto(r, step)
    <3>1. r.op # "accept" => NextStep[r.op] \in StepsOf[r.op]
      BY <2>1 DEF NextStep, StepsOf
    <3> QED BY <1>2, <3>1 DEF updateOwnerLimit
  <2>4. plan' \in Plan /\ usage' \in [Users -> Nat] /\ excused' \subseteq Excuses
        /\ invites' \subseteq Invite /\ IsFiniteSet(invites')
    BY <2>1 DEF TypeInv
  <2> QED BY <2>2, <2>3, <2>4, GoOnType
<1> QED BY <1>1, <1>2

LEMMA RowStepsType ==
    ASSUME TypeInv, NEW r \in requests, alone' = alone
    PROVE  /\ updateWorkspaceUser(r) => TypeInv'
           /\ updateDriveUsage(r) => TypeInv'
<1>0. /\ RequestFine(r) /\ r \in Request /\ r.amount \in Int
      /\ r.writes \in SUBSET Row /\ IsFiniteSet(r.writes)
      /\ r.invite \in SUBSET Invite /\ IsFiniteSet(r.invite)
      /\ r.op = "invite" => r.amount \in Nat
  BY DEF TypeInv, RequestsFine, RequestFine, Request
<1>1. ASSUME updateWorkspaceUser(r) PROVE TypeInv'
  <2>1. PICK w \in r.writes :
           /\ rows' = {IF SameId(m, w) THEN w ELSE m : m \in rows}
           /\ LET s == [r EXCEPT !.writes = @ \ {w}] IN
                 IF s.writes # {} THEN Continue(r, s)
                 ELSE IF r.op = "plan" THEN Continue(r, [s EXCEPT !.step = "setStorage"])
                 ELSE Finish(r)
           /\ Excuse(r, r.op = "change" /\ w.user = Owner)
    BY <1>1 DEF updateWorkspaceUser
  <2>2. RowsFine'
    BY <1>0, <2>1, CopyWritten DEF TypeInv
  <2>3. PICK left : left = r.writes \ {w}
    OBVIOUS
  <2>4. left \in SUBSET Row /\ IsFiniteSet(left)
    BY <1>0, <2>3, FS_Subset
  <2>5. PICK s : s = [r EXCEPT !.writes = left]
    OBVIOUS
  <2>6. PICK t : t = [s EXCEPT !.step = "setStorage"]
    OBVIOUS
  <2>7. /\ s = [nr |-> r.nr, op |-> r.op, step |-> "writeRows", user |-> r.user, amount |-> r.amount,
                invite |-> r.invite, writes |-> left, target |-> r.target]
        /\ t = [nr |-> r.nr, op |-> r.op, step |-> "setStorage", user |-> r.user, amount |-> r.amount,
                invite |-> r.invite, writes |-> left, target |-> r.target]
    BY <1>0, <1>1, <2>5, <2>6 DEF Request, updateWorkspaceUser
  <2>8. r.step \in StepsOf[r.op] /\ r.step = "writeRows"
    BY <1>0, <1>1 DEF RequestFine, updateWorkspaceUser
  <2>9. RequestFine(s) /\ s.nr = r.nr
    BY <1>0, <2>4, <2>7, <2>8, RequestChanged
  <2>10. r.op = "plan" => RequestFine(t) /\ t.nr = r.nr
    <3>1. r.op = "plan" => "setStorage" \in StepsOf[r.op]
      BY DEF StepsOf
    <3> QED BY <1>0, <2>4, <2>7, <3>1, RequestChanged
  <2>11. \/ Continue(r, s) \/ Finish(r)
         \/ r.op = "plan" /\ Continue(r, t)
    BY <2>1, <2>3, <2>5, <2>6
  <2>12. UNCHANGED <<plan, invites, usage>>
    BY <1>1 DEF updateWorkspaceUser
  <2>13. plan' \in Plan /\ usage' \in [Users -> Nat] /\ excused' \subseteq Excuses
         /\ invites' \subseteq Invite /\ IsFiniteSet(invites')
    <3>1. r.op = "change" => r.op \in Excuses
      BY DEF Excuses
    <3> QED BY <2>1, <2>12, <3>1 DEF TypeInv, Excuse
  <2> QED BY <2>2, <2>9, <2>10, <2>11, <2>13, GoOnType
<1>2. ASSUME updateDriveUsage(r) PROVE TypeInv'
  <2>1. PICK w \in r.writes :
           rows' = {IF SameId(m, w) THEN [m EXCEPT !.drive = w.drive] ELSE m : m \in rows}
    BY <1>2 DEF updateDriveUsage
  <2>2. RowsFine'
    <3> DEFINE f == [m \in rows |-> IF SameId(m, w) THEN [m EXCEPT !.drive = w.drive] ELSE m]
    <3>1. \A m \in rows : f[m] \in Row /\ SameId(f[m], m)
      BY <1>0 DEF TypeInv, RowsFine, Row, SameId
    <3>2. rows' = {f[m] : m \in rows}
      BY <2>1
    <3>3. f \in [rows -> Row]
      BY <3>1
    <3> HIDE DEF f
    <3> QED BY <3>1, <3>2, <3>3, RowsWritten DEF TypeInv
  <2>3. Finish(r) /\ UNCHANGED <<plan, invites, usage, excused>>
    BY <1>2 DEF updateDriveUsage
  <2>4. plan' \in Plan /\ usage' \in [Users -> Nat] /\ excused' \subseteq Excuses
        /\ invites' \subseteq Invite /\ IsFiniteSet(invites')
    BY <2>3 DEF TypeInv
  <2> QED BY <2>2, <2>3, <2>4, GoOnType
<1> QED BY <1>1, <1>2

LEMMA OtherStepsType ==
    ASSUME WorkspaceConstants, TypeInv, NEW r \in requests, alone' = alone
    PROVE  /\ setStorage(r) \/ updateWorkspaceMemberCount(r) => TypeInv'
           /\ createFile(r) => TypeInv'
           /\ transferPersonalItemsToWorkspaceOwner(r) => TypeInv'
           /\ readLeavingMember(r) => TypeInv'
<1>0. /\ RequestFine(r) /\ r \in Request /\ r.user \in Users /\ r.target \in Plan
      /\ r.writes \in SUBSET Row /\ IsFiniteSet(r.writes)
      /\ r.invite \in SUBSET Invite /\ IsFiniteSet(r.invite)
  BY DEF TypeInv, RequestsFine, RequestFine, Request
<1>1. ASSUME setStorage(r) \/ updateWorkspaceMemberCount(r) PROVE TypeInv'
  <2>1. r.op = "plan" /\ UNCHANGED <<rows, invites, usage>> /\ excused' \subseteq Excuses
    BY <1>0, <1>1, OpOfStep DEF setStorage, updateWorkspaceMemberCount, TypeInv
  <2>2. plan' \in Plan
    BY <1>0, <1>1 DEF setStorage, updateWorkspaceMemberCount, TypeInv, Plan
  <2>3. "readOwner" \in StepsOf[r.op]
    BY <2>1 DEF StepsOf
  <2>4. Finish(r) \/ \E step \in StepsOf[r.op] : Goto(r, step)
    BY <1>1, <2>3 DEF setStorage, updateWorkspaceMemberCount
  <2>5. RowsFine' /\ usage' \in [Users -> Nat] /\ invites' \subseteq Invite /\ IsFiniteSet(invites')
    BY <2>1 DEF TypeInv, RowsFine
  <2> QED BY <2>1, <2>2, <2>4, <2>5, GoOnType
<1>2. ASSUME createFile(r) PROVE TypeInv'
  <2>1. r.op = "upload" /\ UNCHANGED <<plan, rows, invites, excused>>
    BY <1>0, <1>2, OpOfStep DEF createFile
  <2>2. usage' \in [Users -> Nat]
    BY <1>0, <1>2 DEF createFile, TypeInv
  <2>3. "writeRows" \in StepsOf[r.op]
    BY <2>1 DEF StepsOf
  <2>4. RowsFine' /\ plan' \in Plan /\ excused' \subseteq Excuses
        /\ invites' \subseteq Invite /\ IsFiniteSet(invites')
    BY <2>1 DEF TypeInv, RowsFine
  <2> QED BY <1>2, <2>2, <2>3, <2>4, GoOnType DEF createFile
<1>3. ASSUME transferPersonalItemsToWorkspaceOwner(r) PROVE TypeInv'
  <2>1. r.op = "leave" /\ UNCHANGED <<plan, rows, invites, excused>>
    BY <1>0, <1>3, OpOfStep DEF transferPersonalItemsToWorkspaceOwner
  <2>2. usage' \in [Users -> Nat]
    BY <1>0, <1>3 DEF transferPersonalItemsToWorkspaceOwner, TypeInv, WorkspaceConstants
  <2>3. "readMember" \in StepsOf[r.op]
    BY <2>1 DEF StepsOf
  <2>4. RowsFine' /\ plan' \in Plan /\ excused' \subseteq Excuses
        /\ invites' \subseteq Invite /\ IsFiniteSet(invites')
    BY <2>1 DEF TypeInv, RowsFine
  <2> QED BY <1>3, <2>2, <2>3, <2>4, GoOnType DEF transferPersonalItemsToWorkspaceOwner
<1>4. ASSUME readLeavingMember(r) PROVE TypeInv'
  <2>1. r.op = "leave" /\ UNCHANGED <<plan, rows, invites, usage, excused>>
    BY <1>0, <1>4, OpOfStep DEF readLeavingMember
  <2>2. ASSUME NEW m \in RowsOf(r.user),
               Continue(r, [r EXCEPT !.step = "readOwner", !.amount = m.limit])
        PROVE  \E s : RequestFine(s) /\ s.nr = r.nr /\ Continue(r, s)
    <3>1. m.limit \in Int
      BY DEF RowsOf, TypeInv, RowsFine, Row
    <3>2. PICK s : s = [r EXCEPT !.step = "readOwner", !.amount = m.limit]
      OBVIOUS
    <3>3. s = [nr |-> r.nr, op |-> r.op, step |-> "readOwner", user |-> r.user, amount |-> m.limit,
               invite |-> r.invite, writes |-> r.writes, target |-> r.target]
      BY <1>0, <3>2 DEF Request
    <3>4. "readOwner" \in StepsOf[r.op] /\ r.op # "invite"
      BY <2>1 DEF StepsOf
    <3>5. RequestFine(s) /\ s.nr = r.nr
      BY <1>0, <3>1, <3>3, <3>4, RequestChanged
    <3> QED BY <2>2, <3>2, <3>5
  <2>3. RowsFine' /\ plan' \in Plan /\ excused' \subseteq Excuses /\ usage' \in [Users -> Nat]
        /\ invites' \subseteq Invite /\ IsFiniteSet(invites')
    BY <2>1 DEF TypeInv, RowsFine
  <2> QED BY <1>4, <2>2, <2>3, GoOnType DEF readLeavingMember
<1> QED BY <1>1, <1>2, <1>3, <1>4

\* What a request that fails does, whichever it is.
LEMMA FailsType ==
    ASSUME TypeInv, NEW r \in requests, alone' = alone, fails(r)
    PROVE  TypeInv'
<1>0. RequestFine(r) /\ UNCHANGED <<plan, rows, invites, usage>>
  BY DEF TypeInv, RequestsFine, fails
<1>1. excused' \subseteq Excuses
  <2>1. HalfDone(r) => r.op \in Excuses
    BY <1>0, OpOfStep DEF HalfDone, Excuses
  <2> QED BY <2>1 DEF fails, Excuse, TypeInv
<1>2. Finish(r) \/ \E step \in StepsOf[r.op] : Goto(r, step)
  <2>1. r.op = "accept" => "rollback" \in StepsOf[r.op]
    BY DEF StepsOf
  <2> QED BY <2>1 DEF fails
<1>3. plan' \in Plan /\ usage' \in [Users -> Nat] /\ RowsFine'
      /\ invites' \subseteq Invite /\ IsFiniteSet(invites')
  BY <1>0 DEF TypeInv, RowsFine
<1> QED BY <1>1, <1>2, <1>3, GoOnType

LEMMA RequestStepType ==
    ASSUME WorkspaceConstants, TypeInv, alone' = alone, RequestStep
    PROVE  TypeInv'
BY InvitationStepsType, JoiningStepsType, OwnerStepsType, RowStepsType, OtherStepsType, FailsType
   DEF RequestStep

----------------------------------------------------------------------------
(* Types.                                                                  *)

LEMMA TypeInvariant == Spec => []TypeInv
<1>1. Init => TypeInv
  <2> SUFFICES ASSUME Init PROVE TypeInv
    OBVIOUS
  <2>1. plan \in Plan /\ usage \in [Users -> Nat] /\ excused \subseteq Excuses /\ alone \in BOOLEAN
    BY WorkspaceConstants DEF Init, Plan, WorkspaceConstants
  <2>2. PICK m : m = [id |-> 1, user |-> Owner, limit |-> plan.limit, drive |-> 0]
    OBVIOUS
  <2>3. m \in Row
    BY <2>1, <2>2, WorkspaceConstants DEF Row, Plan, WorkspaceConstants
  <2>4. RowsFine
    BY <2>2, <2>3, FS_Singleton DEF Init, RowsFine
  <2>5. RequestsFine /\ invites \subseteq Invite /\ IsFiniteSet(invites)
    BY FS_EmptySet DEF Init, RequestsFine
  <2> QED BY <2>1, <2>4, <2>5 DEF TypeInv
<1>2. TypeInv /\ [Next]_vars => TypeInv'
  <2> SUFFICES ASSUME TypeInv, [Next]_vars PROVE TypeInv'
    OBVIOUS
  <2>1. CASE UNCHANGED vars
    BY <2>1 DEF vars, TypeInv, RequestsFine, RowsFine
  <2>2. ASSUME NEW i \in invites, removeWorkspaceInvite(i), alone' = alone PROVE TypeInv'
    <3>1. invites' \subseteq invites /\ UNCHANGED <<plan, rows, usage, requests, excused>>
      BY <2>2 DEF removeWorkspaceInvite
    <3>2. IsFiniteSet(invites')
      BY <3>1, FS_Subset DEF TypeInv
    <3> QED BY <2>2, <3>1, <3>2 DEF TypeInv, RequestsFine, RowsFine
  <2>3. ASSUME NEW u \in Users, deleteFile(u), alone' = alone PROVE TypeInv'
    <3>1. usage' \in [Users -> Nat]
      BY <2>3 DEF deleteFile, TypeInv
    <3> QED BY <2>3, <3>1 DEF deleteFile, TypeInv, RequestsFine, RowsFine
  <2>4. CASE Next
    BY <2>2, <2>3, <2>4, WorkspaceConstants, StartsType, RequestStepType
       DEF Next, Step, acceptInviteOfMember
  <2> QED BY <2>1, <2>4
<1> QED BY <1>1, <1>2, PTL DEF Spec

\* TypeOK, for any plans, sizes and requests that race: usages stay numbers,
\* and ids that are only fresh for their user stay unique.
THEOREM TypeCorrect == Spec => []TypeOK
<1>1. TypeInv => TypeOK
  BY DEF TypeInv, TypeOK, RequestsFine, RequestFine, RowsFine
<1> QED BY <1>1, TypeInvariant, PTL
----------------------------------------------------------------------------
(* Seats.                                                                  *)

\* The seats a plan on sale has.
SeatNumbers == {p.seats : p \in Plans}

Inserting(S) == {r \in S : r.step = "insert"}

\* A request that is about to insert a member was started when the workspace
\* was not full.  If it runs alone that is still so.  If not, each of the
\* others about to insert may have taken a seat meanwhile, and no more than
\* those.
SeatsInv ==
    /\ plan.seats \in SeatNumbers
    /\ \A r \in requests : r.target.seats \in SeatNumbers
    /\ alone => \A r, s \in requests : r = s
    /\ Inserting(requests) # {} =>
          IF alone THEN Cardinality(rows) < plan.seats
          ELSE \E n \in SeatNumbers :
                  Cardinality(rows) + Cardinality(Inserting(requests)) < n + MaxInFlight

\* The number of a request tells it from the others, so that there are no more
\* requests than numbers.
LEMMA RequestsBounded ==
    ASSUME WorkspaceConstants, NEW S, \A r \in S : r.nr \in 1 .. MaxInFlight,
           \A r, s \in S : r.nr = s.nr => r = s
    PROVE  /\ IsFiniteSet(Inserting(S))
           /\ Cardinality(Inserting(S)) \in 0 .. MaxInFlight
<1> DEFINE f == [r \in Inserting(S) |-> r.nr]
<1>1. f \in Injection(Inserting(S), 1 .. MaxInFlight)
  BY DEF Inserting, Injection, IsInjective
<1>2. MaxInFlight \in Nat
  BY DEF WorkspaceConstants
<1>3. IsFiniteSet(1 .. MaxInFlight) /\ Cardinality(1 .. MaxInFlight) = MaxInFlight
  <2>1. 1 \in Int /\ MaxInFlight \in Int
    BY <1>2
  <2>2. IsFiniteSet(1 .. MaxInFlight)
    BY <2>1, FS_Interval
  <2>3. Cardinality(1 .. MaxInFlight) = MaxInFlight
    BY <1>2, FS_Interval
  <2> QED BY <2>2, <2>3
<1> HIDE DEF f
<1>4. IsFiniteSet(Inserting(S)) /\ Cardinality(Inserting(S)) <= MaxInFlight
  BY <1>1, <1>3, FS_Injection
<1>5. Cardinality(Inserting(S)) \in Nat
  BY <1>4, FS_CardinalityType
<1> QED BY <1>2, <1>4, <1>5

\* What any step does to the requests, the members and the seats: a request
\* begins, to insert a member only if a seat is free; a request goes on or ends,
\* and the one that inserts adds one member; or neither.
Begins ==
    \E s : /\ Quiet /\ requests' = requests \cup {s}
           /\ s.target.seats \in SeatNumbers
           /\ s.step = "insert" => ~ isWorkspaceFull
           /\ UNCHANGED <<plan, rows>>

GoesOn(r) ==
    /\ \/ Finish(r)
       \/ \E s : Continue(r, s) /\ s.step # "insert" /\ s.target = r.target
    /\ plan'.seats \in {plan.seats, r.target.seats}
    /\ Cardinality(rows') <= Cardinality(rows) + (IF r.step = "insert" THEN 1 ELSE 0)

LEMMA Begun ==
    ASSUME NEW op, NEW step, NEW u, NEW a, NEW i, NEW w, NEW t,
           Start(Fresh(op, step, u, a, i, w, t)), UNCHANGED <<plan, rows>>,
           t.seats \in SeatNumbers, step = "insert" => ~ isWorkspaceFull
    PROVE  Begins
<1>1. PICK k \in 1 .. MaxInFlight :
         requests' = requests \cup {[Fresh(op, step, u, a, i, w, t) EXCEPT !.nr = k]}
  BY DEF Start
<1>2. PICK s : s = [Fresh(op, step, u, a, i, w, t) EXCEPT !.nr = k]
  OBVIOUS
<1>3. s.step = step /\ s.target = t
  BY <1>2 DEF Fresh
<1>4. Quiet
  BY DEF Start
<1> QED BY <1>1, <1>2, <1>3, <1>4 DEF Begins

LEMMA StartsBegin ==
    ASSUME SeatsInv
    PROVE  /\ \A u \in Users, s \in Spaces \cup {plan.limit \div plan.seats} :
                 inviteUserToWorkspace(u, s) => Begins
           /\ \A i \in invites : acceptWorkspaceInvite(i) => Begins
           /\ \A m \in rows : /\ \A s \in Spaces : changeUserAssignedSpace(m, s) => Begins
                              /\ uploadFile(m) \/ getUserUsageInWorkspace(m) => Begins
           /\ \A u \in Users : leaveWorkspace(u) => Begins
           /\ \A p \in Plans : updateWorkspaceLimit(p) => Begins
<1>0. plan.seats \in SeatNumbers
  BY DEF SeatsInv
<1>1. ASSUME NEW u, NEW s, inviteUserToWorkspace(u, s) PROVE Begins
  <2>1. Req("invite", "createInvite", u, s) = Fresh("invite", "createInvite", u, s, {}, {}, plan)
    BY DEF Req, Fresh
  <2>2. Start(Fresh("invite", "createInvite", u, s, {}, {}, plan)) /\ UNCHANGED <<plan, rows>>
    BY <1>1, <2>1 DEF inviteUserToWorkspace
  <2> QED BY <1>0, <2>2, Begun
<1>2. ASSUME NEW i, acceptWorkspaceInvite(i) PROVE Begins
  <2>1. [Req("accept", "insert", i.user, i.space) EXCEPT !.invite = {i}]
          = Fresh("accept", "insert", i.user, i.space, {i}, {}, plan)
    BY DEF Req, Fresh
  <2>2. Start(Fresh("accept", "insert", i.user, i.space, {i}, {}, plan))
        /\ UNCHANGED <<plan, rows>> /\ ~ isWorkspaceFull
    BY <1>2, <2>1 DEF acceptWorkspaceInvite
  <2> QED BY <1>0, <2>2, Begun
<1>3. ASSUME NEW m, NEW s, changeUserAssignedSpace(m, s) PROVE Begins
  <2>1. PICK w, a : w = [m EXCEPT !.limit = s] /\ a = s - m.limit
    OBVIOUS
  <2>2. [Req("change", "readOwner", m.user, a) EXCEPT !.writes = {w}]
          = Fresh("change", "readOwner", m.user, a, {}, {w}, plan)
    BY DEF Req, Fresh
  <2>3. Start(Fresh("change", "readOwner", m.user, a, {}, {w}, plan)) /\ UNCHANGED <<plan, rows>>
    BY <1>3, <2>1, <2>2 DEF changeUserAssignedSpace
  <2> QED BY <1>0, <2>3, Begun
<1>4. ASSUME NEW m, uploadFile(m) \/ getUserUsageInWorkspace(m) PROVE Begins
  <2>1. PICK w, op, step :
           /\ UNCHANGED <<plan, rows>> /\ step # "insert"
           /\ Start([Req(op, step, m.user, 0) EXCEPT !.writes = {w}])
    BY <1>4 DEF uploadFile, getUserUsageInWorkspace
  <2>2. [Req(op, step, m.user, 0) EXCEPT !.writes = {w}] = Fresh(op, step, m.user, 0, {}, {w}, plan)
    BY DEF Req, Fresh
  <2> QED BY <1>0, <2>1, <2>2, Begun
<1>5. ASSUME NEW u, leaveWorkspace(u) PROVE Begins
  <2>1. Req("leave", "transfer", u, 0) = Fresh("leave", "transfer", u, 0, {}, {}, plan)
    BY DEF Req, Fresh
  <2> QED BY <1>0, <1>5, <2>1, Begun DEF leaveWorkspace
<1>6. ASSUME NEW p \in Plans, updateWorkspaceLimit(p) PROVE Begins
  <2>1. PICK w, a : /\ w = {[m EXCEPT !.limit = @ + spaceDifference(p)] : m \in rows}
                    /\ a = unusedSpace(p)
    OBVIOUS
  <2>2. PICK r : r = [Req("plan", "writeRows", Owner, a) EXCEPT !.writes = w, !.target = p]
    OBVIOUS
  <2>3. Start(r) /\ UNCHANGED <<plan, rows>>
    BY <1>6, <2>1, <2>2 DEF updateWorkspaceLimit
  <2>4. p.seats \in SeatNumbers
    BY DEF SeatNumbers
  <2>5. r = Fresh("plan", "writeRows", Owner, a, {}, w, p)
    BY <2>2 DEF Req, Fresh
  <2>6. Start(Fresh("plan", "writeRows", Owner, a, {}, w, p))
    BY <2>3, <2>5
  <2> QED BY <2>3, <2>4, <2>6, Begun
<1> QED BY <1>1, <1>2, <1>3, <1>4, <1>5, <1>6
LEMMA RequestGoesOn ==
    ASSUME TypeInv, TypeInv', NEW r \in requests
    PROVE  /\ createInvite(r) \/ sendInvitation(r) \/ addUserToWorkspace(r) => GoesOn(r)
           /\ addUserToTeam(r) \/ deleteInvite(r) => GoesOn(r)
           /\ rollbackUserAddedToWorkspace(r) \/ deleteUserFromWorkspace(r) => GoesOn(r)
           /\ adjustOwnerStorage(r) => GoesOn(r)
           /\ updateOwnerLimit(r) => GoesOn(r)
           /\ updateWorkspaceUser(r) => GoesOn(r)
           /\ setStorage(r) \/ updateWorkspaceMemberCount(r) => GoesOn(r)
           /\ updateDriveUsage(r) => GoesOn(r)
           /\ createFile(r) \/ transferPersonalItemsToWorkspaceOwner(r) => GoesOn(r)
           /\ readLeavingMember(r) => GoesOn(r)
           /\ fails(r) => GoesOn(r)
<1>0. /\ r \in Request /\ RequestFine(r) /\ RowsFine /\ plan \in Plan
      /\ r.writes \in SUBSET Row /\ r.amount \in Int /\ r.user \in Users
      /\ Cardinality(rows) \in Nat
  BY FS_CardinalityType DEF TypeInv, RequestsFine, RequestFine, Request, RowsFine
<1> DEFINE Changed(s) == s.step # "insert" /\ s.target = r.target
<1>1. \A step : Changed([r EXCEPT !.step = step]) \/ step = "insert"
  BY <1>0 DEF Request
<1>2. ASSUME UNCHANGED <<plan, rows>>,
             \/ Finish(r)
             \/ \E s : Changed(s) /\ Continue(r, s)
      PROVE  GoesOn(r)
  BY <1>0, <1>2 DEF GoesOn
<1>3. ASSUME NEW step, step # "insert", Goto(r, step)
      PROVE  \E s : Changed(s) /\ Continue(r, s)
  BY <1>1, <1>3 DEF Goto
<1>4. \A i : Changed([r EXCEPT !.step = "mail", !.invite = i])
  BY <1>0 DEF Request
<1>5. \A a : /\ Changed([r EXCEPT !.step = "writeOwner", !.amount = a])
             /\ Changed([r EXCEPT !.step = "readOwner", !.amount = a])
  BY <1>0 DEF Request
<1>6. ASSUME createInvite(r) \/ sendInvitation(r) PROVE GoesOn(r)
  <2>1. CASE createInvite(r)
    <3>1. \E i : Continue(r, [r EXCEPT !.step = "mail", !.invite = i])
      BY <2>1 DEF createInvite
    <3> QED BY <1>2, <1>4, <2>1, <3>1 DEF createInvite
  <2>2. CASE sendInvitation(r)
    BY <1>2, <2>2 DEF sendInvitation
  <2> QED BY <1>6, <2>1, <2>2
<1>7. ASSUME addUserToWorkspace(r) PROVE GoesOn(r)
  <2>1. \E s : Changed(s) /\ Continue(r, s)
    BY <1>3, <1>7 DEF addUserToWorkspace
  <2>2. Cardinality(rows') <= Cardinality(rows) + 1
    <3>1. rows' = rows \cup {[id |-> FreshId(r.user), user |-> r.user,
                               limit |-> r.amount, drive |-> 0]}
      BY <1>7 DEF addUserToWorkspace
    <3> QED BY <1>0, <3>1, RowAdded
  <2> QED BY <1>7, <2>1, <2>2 DEF addUserToWorkspace, GoesOn
<1>8. ASSUME addUserToTeam(r) \/ deleteInvite(r) PROVE GoesOn(r)
  BY <1>2, <1>3, <1>8 DEF addUserToTeam, deleteInvite
<1>9. ASSUME NEW n \in Nat, n <= Cardinality(rows), Cardinality(rows') = n, UNCHANGED plan,
             \/ Finish(r)
             \/ \E s : Changed(s) /\ Continue(r, s)
      PROVE  GoesOn(r)
  BY <1>0, <1>9 DEF GoesOn
<1>10. Cardinality(rows') \in Nat
  BY FS_CardinalityType DEF TypeInv, RowsFine
<1>11. ASSUME rollbackUserAddedToWorkspace(r) \/ deleteUserFromWorkspace(r) PROVE GoesOn(r)
  <2>1. rows' \subseteq rows /\ Finish(r) /\ UNCHANGED plan
    BY <1>11 DEF rollbackUserAddedToWorkspace, deleteUserFromWorkspace
  <2> QED BY <1>0, <1>9, <1>10, <2>1, RowsDeleted
<1>12. ASSUME adjustOwnerStorage(r) PROVE GoesOn(r)
  <2>1. \/ Finish(r) \/ Goto(r, "rollback")
        \/ \E a : Continue(r, [r EXCEPT !.step = "writeOwner", !.amount = a])
    BY <1>12 DEF adjustOwnerStorage
  <2> QED BY <1>2, <1>3, <1>5, <1>12, <2>1 DEF adjustOwnerStorage
<1>13. ASSUME updateOwnerLimit(r) PROVE GoesOn(r)
  <2>1. Cardinality(rows') <= Cardinality(rows)
    <3> DEFINE f == [m \in rows |-> IF m.user = Owner THEN [m EXCEPT !.limit = r.amount] ELSE m]
    <3>1. \A m \in rows : f[m] \in Row /\ SameId(f[m], m)
      BY <1>0 DEF RowsFine, Row, SameId
    <3>2. rows' = {f[m] : m \in rows}
      BY <1>13 DEF updateOwnerLimit
    <3>3. f \in [rows -> Row]
      BY <3>1
    <3> HIDE DEF f
    <3> QED BY <1>0, <3>1, <3>2, <3>3, RowsWritten
  <2>2. r.op \in {"accept", "change", "plan", "leave"}
    BY <1>0, <1>13, OpOfStep DEF updateOwnerLimit
  <2>3. r.op # "accept" => NextStep[r.op] # "insert"
    BY <2>2 DEF NextStep
  <2>4. Finish(r) \/ \E s : Changed(s) /\ Continue(r, s)
    BY <1>3, <1>13, <2>3 DEF updateOwnerLimit
  <2> QED BY <1>9, <1>10, <1>13, <2>1, <2>4 DEF updateOwnerLimit
<1>14. ASSUME updateWorkspaceUser(r) PROVE GoesOn(r)
  <2>1. PICK w \in r.writes :
           /\ rows' = {IF SameId(m, w) THEN w ELSE m : m \in rows}
           /\ LET s == [r EXCEPT !.writes = @ \ {w}] IN
                 IF s.writes # {} THEN Continue(r, s)
                 ELSE IF r.op = "plan" THEN Continue(r, [s EXCEPT !.step = "setStorage"])
                 ELSE Finish(r)
    BY <1>14 DEF updateWorkspaceUser
  <2>2. Cardinality(rows') <= Cardinality(rows)
    BY <1>0, <2>1, CopyWritten
  <2>3. PICK s, t : /\ s = [r EXCEPT !.writes = r.writes \ {w}]
                    /\ t = [s EXCEPT !.step = "setStorage"]
    OBVIOUS
  <2>4. Continue(r, s) \/ Continue(r, t) \/ Finish(r)
    BY <2>1, <2>3
  <2>5. r.step = "writeRows"
    BY <1>14 DEF updateWorkspaceUser
  <2>6. Changed(s) /\ Changed(t)
    BY <1>0, <2>3, <2>5 DEF Request
  <2> QED BY <1>9, <1>10, <1>14, <2>2, <2>4, <2>6 DEF updateWorkspaceUser
<1>15. ASSUME setStorage(r) \/ updateWorkspaceMemberCount(r) PROVE GoesOn(r)
  <2>1. plan'.seats \in {plan.seats, r.target.seats} /\ UNCHANGED rows
    BY <1>0, <1>15 DEF setStorage, updateWorkspaceMemberCount, Plan
  <2>2. Finish(r) \/ \E s : Changed(s) /\ Continue(r, s)
    BY <1>3, <1>15 DEF setStorage, updateWorkspaceMemberCount
  <2> QED BY <1>0, <2>1, <2>2 DEF GoesOn
<1>16. ASSUME updateDriveUsage(r) PROVE GoesOn(r)
  <2>1. PICK w \in r.writes :
           rows' = {IF SameId(m, w) THEN [m EXCEPT !.drive = w.drive] ELSE m : m \in rows}
    BY <1>16 DEF updateDriveUsage
  <2>2. Cardinality(rows') <= Cardinality(rows)
    <3> DEFINE f == [m \in rows |-> IF SameId(m, w) THEN [m EXCEPT !.drive = w.drive] ELSE m]
    <3>1. \A m \in rows : f[m] \in Row /\ SameId(f[m], m)
      BY <1>0 DEF RowsFine, Row, SameId
    <3>2. rows' = {f[m] : m \in rows}
      BY <2>1
    <3>3. f \in [rows -> Row]
      BY <3>1
    <3> HIDE DEF f
    <3> QED BY <1>0, <3>1, <3>2, <3>3, RowsWritten
  <2> QED BY <1>9, <1>10, <1>16, <2>2 DEF updateDriveUsage
<1>17. ASSUME createFile(r) \/ transferPersonalItemsToWorkspaceOwner(r) PROVE GoesOn(r)
  BY <1>2, <1>3, <1>17 DEF createFile, transferPersonalItemsToWorkspaceOwner
<1>18. ASSUME readLeavingMember(r) PROVE GoesOn(r)
  <2>1. \/ Finish(r)
        \/ \E a : Continue(r, [r EXCEPT !.step = "readOwner", !.amount = a])
    BY <1>18 DEF readLeavingMember
  <2> QED BY <1>2, <1>5, <1>18, <2>1 DEF readLeavingMember
<1>19. ASSUME fails(r) PROVE GoesOn(r)
  BY <1>2, <1>3, <1>19 DEF fails
<1> QED BY <1>6, <1>7, <1>8, <1>11, <1>12, <1>13, <1>14, <1>15, <1>16, <1>17, <1>18, <1>19

LEMMA StepKinds ==
    ASSUME TypeInv, TypeInv', SeatsInv, Next
    PROVE  /\ alone' = alone
           /\ \/ Begins
              \/ \E r \in requests : GoesOn(r)
              \/ UNCHANGED <<requests, rows, plan>>
<1>1. RequestStep => \E r \in requests : GoesOn(r)
  BY RequestGoesOn DEF RequestStep
<1>2. \A i : removeWorkspaceInvite(i) => UNCHANGED <<requests, rows, plan>>
  BY DEF removeWorkspaceInvite
<1>3. \A u : deleteFile(u) => UNCHANGED <<requests, rows, plan>>
  BY DEF deleteFile
<1> QED BY <1>1, <1>2, <1>3, StartsBegin DEF Next, Step, acceptInviteOfMember

\* Whoever joins is one of those who were about to be inserted.
LEMMA JoinBounded ==
    ASSUME WorkspaceConstants, TypeInv, SeatsInv, NEW r \in requests, GoesOn(r),
           TypeInv', Cardinality(rows') > Cardinality(rows)
    PROVE  IF alone THEN Cardinality(rows') <= plan.seats
           ELSE \E n \in SeatNumbers : Cardinality(rows') < n + MaxInFlight
<1>1. /\ Cardinality(rows) \in Nat /\ Cardinality(rows') \in Nat
      /\ SeatNumbers \subseteq Nat /\ MaxInFlight \in Nat
  BY FS_CardinalityType DEF TypeInv, RowsFine, SeatNumbers, WorkspaceConstants
<1>2. r.step = "insert" /\ Cardinality(rows') <= Cardinality(rows) + 1
  BY <1>1 DEF GoesOn
<1>3. IsFiniteSet(Inserting(requests)) /\ Cardinality(Inserting(requests)) \in Nat
      /\ r \in Inserting(requests)
  <2>1. /\ \A q \in requests : q.nr \in 1 .. MaxInFlight
        /\ \A q, s \in requests : q.nr = s.nr => q = s
    BY DEF TypeInv, RequestsFine
  <2>2. IsFiniteSet(Inserting(requests)) /\ Cardinality(Inserting(requests)) \in 0 .. MaxInFlight
    BY <2>1, WorkspaceConstants, RequestsBounded
  <2> QED BY <1>1, <1>2, <2>2 DEF Inserting
<1>4. Cardinality(Inserting(requests)) >= 1
  BY <1>3, FS_EmptySet
<1>5. CASE alone
  <2>1. Cardinality(rows) < plan.seats /\ plan.seats \in Nat
    BY <1>1, <1>3, <1>5 DEF SeatsInv
  <2>2. Cardinality(rows') <= plan.seats
    BY <1>1, <1>2, <2>1
  <2> QED BY <1>5, <2>2
<1>6. CASE ~ alone
  <2>1. PICK n \in SeatNumbers :
           Cardinality(rows) + Cardinality(Inserting(requests)) < n + MaxInFlight
    BY <1>3, <1>6 DEF SeatsInv
  <2>2. Cardinality(rows') < n + MaxInFlight
    BY <1>1, <1>2, <1>3, <1>4, <2>1
  <2> QED BY <1>6, <2>2
<1> QED BY <1>5, <1>6
LEMMA SeatsStep ==
    ASSUME WorkspaceConstants, TypeInv, TypeInv', SeatsInv, [Next]_vars
    PROVE  SeatsInv'
<1>0. /\ Cardinality(rows) \in Nat /\ Cardinality(rows') \in Nat
      /\ SeatNumbers \subseteq Nat /\ MaxInFlight \in Nat
  BY FS_CardinalityType DEF TypeInv, RowsFine, SeatNumbers, WorkspaceConstants
<1>5. /\ IsFiniteSet(Inserting(requests)) /\ IsFiniteSet(Inserting(requests'))
      /\ Cardinality(Inserting(requests)) \in Nat
      /\ Cardinality(Inserting(requests')) \in 0 .. MaxInFlight
  <2>1. /\ \A r \in requests : r.nr \in 1 .. MaxInFlight
        /\ \A r, s \in requests : r.nr = s.nr => r = s
    BY DEF TypeInv, RequestsFine
  <2>2. /\ \A r \in requests' : r.nr \in 1 .. MaxInFlight
        /\ \A r, s \in requests' : r.nr = s.nr => r = s
    BY DEF TypeInv, RequestsFine
  <2>3. /\ IsFiniteSet(Inserting(requests))
        /\ Cardinality(Inserting(requests)) \in 0 .. MaxInFlight
    BY <2>1, WorkspaceConstants, RequestsBounded
  <2>4. /\ IsFiniteSet(Inserting(requests'))
        /\ Cardinality(Inserting(requests')) \in 0 .. MaxInFlight
    BY <2>2, WorkspaceConstants, RequestsBounded
  <2> QED BY <2>3, <2>4
<1>1. CASE UNCHANGED vars
  BY <1>1 DEF vars, SeatsInv, Inserting
<1>2. ASSUME Next, Begins PROVE SeatsInv'
  <2>1. PICK s : /\ requests' = requests \cup {s}
                 /\ s.target.seats \in SeatNumbers
                 /\ s.step = "insert" => ~ isWorkspaceFull
                 /\ Quiet /\ UNCHANGED <<plan, rows, alone>>
    BY <1>2, StepKinds DEF Begins
  <2>2. alone' => \A q, r \in requests' : q = r
    BY <2>1 DEF Quiet
  <2>3. s.step = "insert" => Cardinality(rows) < plan.seats
    BY <1>0, <2>1 DEF isWorkspaceFull, TypeInv, Plan
  <2>4. ASSUME alone, Inserting(requests') # {} PROVE Cardinality(rows) < plan.seats
    BY <2>1, <2>3, <2>4 DEF Quiet, Inserting
  <2>5. ASSUME ~ alone, Inserting(requests') # {}
        PROVE  \E n \in SeatNumbers :
                  Cardinality(rows) + Cardinality(Inserting(requests')) < n + MaxInFlight
    <3>1. CASE s.step = "insert"
      <4>1. plan.seats \in SeatNumbers
        BY DEF SeatsInv
      <4>2. Cardinality(rows) + Cardinality(Inserting(requests')) < plan.seats + MaxInFlight
        <5> DEFINE c == Cardinality(rows)
                   i == Cardinality(Inserting(requests'))
        <5>1. c \in Nat /\ plan.seats \in Nat /\ MaxInFlight \in Nat /\ i \in 0 .. MaxInFlight
          BY <1>0, <1>5, <4>1
        <5>2. c < plan.seats
          BY <2>3, <3>1
        <5> HIDE DEF c, i
        <5>3. c + i < plan.seats + MaxInFlight
          BY <5>1, <5>2
        <5> QED BY <5>3 DEF c, i
      <4> QED BY <4>1, <4>2
    <3>2. CASE s.step # "insert"
      <4>1. Inserting(requests') = Inserting(requests)
        BY <2>1, <3>2 DEF Inserting
      <4> QED BY <2>5, <4>1 DEF SeatsInv
    <3> QED BY <3>1, <3>2
  <2> QED BY <2>1, <2>2, <2>4, <2>5 DEF SeatsInv, Inserting
<1>3. ASSUME Next, NEW r \in requests, GoesOn(r) PROVE SeatsInv'
  <2>1. alone' = alone
    BY <1>3, StepKinds
  <2>2. /\ plan'.seats \in SeatNumbers
        /\ \A q \in requests' : q.target.seats \in SeatNumbers
    BY <1>3 DEF GoesOn, SeatsInv, Finish, Continue
  <2>3. alone' => \A q, s \in requests' : q = s
    BY <1>3, <2>1 DEF GoesOn, SeatsInv, Finish, Continue
  <2>4. Inserting(requests') = Inserting(requests) \ {r}
    BY <1>3 DEF GoesOn, Finish, Continue, Inserting
  <2>5. alone => Inserting(requests') = {}
    BY <2>4 DEF SeatsInv, Inserting
  <2>6. ASSUME ~ alone, Inserting(requests') # {}
        PROVE  \E n \in SeatNumbers :
                  Cardinality(rows') + Cardinality(Inserting(requests')) < n + MaxInFlight
    <3>1. PICK n \in SeatNumbers :
             Cardinality(rows) + Cardinality(Inserting(requests)) < n + MaxInFlight
      BY <2>4, <2>6 DEF SeatsInv
    <3>2. Cardinality(Inserting(requests'))
            = Cardinality(Inserting(requests)) - (IF r.step = "insert" THEN 1 ELSE 0)
      <4>1. r \in Inserting(requests) <=> r.step = "insert"
        BY DEF Inserting
      <4> QED BY <1>0, <1>5, <2>4, <4>1, FS_RemoveElement
    <3>3. Cardinality(rows') <= Cardinality(rows) + (IF r.step = "insert" THEN 1 ELSE 0)
      BY <1>3 DEF GoesOn
    <3>4. Cardinality(rows') + Cardinality(Inserting(requests')) < n + MaxInFlight
      BY <1>0, <1>5, <3>1, <3>2, <3>3
    <3> QED BY <3>4
  <2> QED BY <2>1, <2>2, <2>3, <2>5, <2>6 DEF SeatsInv
<1>4. ASSUME Next, UNCHANGED <<requests, rows, plan>> PROVE SeatsInv'
  <2>1. alone' = alone
    BY <1>4, StepKinds
  <2> QED BY <1>4, <2>1 DEF SeatsInv, Inserting
<1> QED BY <1>1, <1>2, <1>3, <1>4, StepKinds

\* SeatsBounded, for any plans, invitations and number of requests: a workspace
\* never takes in more members than the seats of a plan and, beyond those, the
\* acceptances that race; one at a time never more than its own seats.
THEOREM SeatsAreBounded == Spec => SeatsBounded
<1> DEFINE Grows == Cardinality(rows') > Cardinality(rows) =>
                       IF alone THEN Cardinality(rows') <= plan.seats
                       ELSE \E p \in Plans : Cardinality(rows') < p.seats + MaxInFlight
<1>1. Init => SeatsInv
  <2> SUFFICES ASSUME Init PROVE SeatsInv
    OBVIOUS
  <2>1. requests = {} /\ plan.seats \in SeatNumbers
    BY DEF Init, SeatNumbers
  <2> QED BY <2>1 DEF SeatsInv, Inserting
<1>2. TypeInv /\ TypeInv' /\ SeatsInv /\ [Next]_vars => SeatsInv'
  BY WorkspaceConstants, SeatsStep
<1>3. TypeInv /\ TypeInv' /\ SeatsInv /\ [Next]_vars => [Grows]_vars
  <2> SUFFICES ASSUME TypeInv, TypeInv', SeatsInv, Next, Cardinality(rows') > Cardinality(rows)
               PROVE  Grows
    BY DEF vars
  <2>1. Cardinality(rows) \in Nat
    BY FS_CardinalityType DEF TypeInv, RowsFine
  <2>2. ~ UNCHANGED rows
    BY <2>1
  <2>3. PICK r \in requests : GoesOn(r)
    BY <2>2, StepKinds DEF Begins
  <2>4. IF alone THEN Cardinality(rows') <= plan.seats
        ELSE \E n \in SeatNumbers : Cardinality(rows') < n + MaxInFlight
    BY <2>3, WorkspaceConstants, JoinBounded
  <2> QED BY <2>4 DEF SeatNumbers
<1>4. SeatsBounded <=> [][Grows]_vars
  BY DEF SeatsBounded
<1> QED BY <1>1, <1>2, <1>3, <1>4, TypeInvariant, PTL DEF Spec

----------------------------------------------------------------------------
(* Space is set aside once.                                                *)

\* What a request that runs alone knows of the rows and the invitations: whom
\* it invites has neither, whom it takes in has the one invitation it read,
\* until it has deleted it.
Reserves(r) ==
    /\ r.step = "createInvite" =>
          RowsOf(r.user) = {} /\ \A i \in invites : i.user # r.user
    /\ r.step \in {"insert", "join", "uninvite"} =>
          \E i \in invites : r.invite = {i} /\ i.user = r.user
    /\ r.op = "accept" /\ r.step \in {"readOwner", "writeOwner"} =>
          \A i \in invites : i.user # r.user

\* Is u's row there already while its invitation is about to go?
Joining(u) ==
    \E r \in requests : r.step \in {"join", "uninvite", "rollback"} /\ r.user = u

OnePerUser == \A i, j \in invites : i.user = j.user => i = j

\* Between two requests nobody joins, so that this is InvitesReserveOnce.
ReserveInv ==
    alone /\ "accept" \notin excused =>
        /\ OnePerUser
        /\ \A i \in invites : RowsOf(i.user) = {} \/ Joining(i.user)
        /\ \A r \in requests : Reserves(r)

\* Every write but that of a new member leaves the members among those there were.
NobodyNew == \A m \in rows' : \E n \in rows : n.user = m.user

LEMMA NobodyNewRows ==
    ASSUME NobodyNew, NEW u, RowsOf(u) = {} PROVE RowsOf(u)' = {}
BY DEF NobodyNew, RowsOf

\* Alone a request begins when there is no other.
LEMMA BeginReserves ==
    ASSUME alone, "accept" \notin excused, ReserveInv, NEW op, NEW step, NEW u, NEW a, NEW i, NEW w, NEW t,
           Start(Fresh(op, step, u, a, i, w, t)), UNCHANGED <<rows, invites>>,
           step \notin {"join", "uninvite"}, op = "accept" => step = "insert",
           step = "createInvite" => RowsOf(u) = {} /\ \A j \in invites : j.user # u,
           step = "insert" => \E j \in invites : i = {j} /\ j.user = u
    PROVE  ReserveInv'
<1>1. requests = {}
  BY DEF Start, Quiet
<1>2. PICK k \in 1 .. MaxInFlight :
         requests' = requests \cup {[Fresh(op, step, u, a, i, w, t) EXCEPT !.nr = k]}
  BY DEF Start
<1>3. PICK s : s = [Fresh(op, step, u, a, i, w, t) EXCEPT !.nr = k]
  OBVIOUS
<1>4. s.op = op /\ s.step = step /\ s.user = u /\ s.invite = i
  BY <1>3 DEF Fresh
<1>5. requests' = {s}
  BY <1>1, <1>2, <1>3
<1>6. Reserves(s)'
  <2>1. s.step = "createInvite" => RowsOf(s.user)' = {} /\ \A j \in invites' : j.user # s.user
    BY <1>4 DEF RowsOf
  <2>2. s.step = "insert" => \E j \in invites' : s.invite = {j} /\ j.user = s.user
    BY <1>4
  <2>3. /\ s.step \notin {"join", "uninvite"}
        /\ ~ (s.op = "accept" /\ s.step \in {"readOwner", "writeOwner"})
    BY <1>4
  <2> QED BY <2>1, <2>2, <2>3 DEF Reserves
<1>7. \A j \in invites' : RowsOf(j.user)' = {}
  BY <1>1 DEF ReserveInv, Joining, RowsOf
<1> QED BY <1>5, <1>6, <1>7 DEF ReserveInv, OnePerUser

LEMMA BeginningsReserve ==
    ASSUME alone, "accept" \notin excused, ReserveInv
    PROVE  /\ \A u, s : inviteUserToWorkspace(u, s) => ReserveInv'
           /\ \A i \in invites : acceptWorkspaceInvite(i) => ReserveInv'
           /\ \A m, s : changeUserAssignedSpace(m, s) => ReserveInv'
           /\ \A m : uploadFile(m) \/ getUserUsageInWorkspace(m) => ReserveInv'
           /\ \A u : leaveWorkspace(u) => ReserveInv'
           /\ \A p : updateWorkspaceLimit(p) => ReserveInv'
<1>1. ASSUME NEW u, NEW s, inviteUserToWorkspace(u, s) PROVE ReserveInv'
  <2>1. Start(Fresh("invite", "createInvite", u, s, {}, {}, plan))
    BY <1>1 DEF inviteUserToWorkspace, Req, Fresh
  <2>2. RowsOf(u) = {} /\ (\A j \in invites : j.user # u) /\ UNCHANGED <<rows, invites>>
    BY <1>1 DEF inviteUserToWorkspace
  <2> QED BY <2>1, <2>2, BeginReserves
<1>2. ASSUME NEW i \in invites, acceptWorkspaceInvite(i) PROVE ReserveInv'
  <2>1. Start(Fresh("accept", "insert", i.user, i.space, {i}, {}, plan))
    BY <1>2 DEF acceptWorkspaceInvite, Req, Fresh
  <2>2. UNCHANGED <<rows, invites>>
    BY <1>2 DEF acceptWorkspaceInvite
  <2>3. \E j \in invites : {i} = {j} /\ j.user = i.user
    OBVIOUS
  <2> QED BY <2>1, <2>2, <2>3, BeginReserves
<1>3. ASSUME NEW m, NEW s, changeUserAssignedSpace(m, s) PROVE ReserveInv'
  <2>1. Start(Fresh("change", "readOwner", m.user, s - m.limit, {}, {[m EXCEPT !.limit = s]}, plan))
    BY <1>3 DEF changeUserAssignedSpace, Req, Fresh
  <2>2. UNCHANGED <<rows, invites>>
    BY <1>3 DEF changeUserAssignedSpace
  <2> QED BY <2>1, <2>2, BeginReserves
<1>4. ASSUME NEW m, uploadFile(m) \/ getUserUsageInWorkspace(m) PROVE ReserveInv'
  <2>1. PICK w1, w2 : w1 = {addDriveUsage(m)} /\ w2 = {[m EXCEPT !.drive = usage[m.user]]}
    OBVIOUS
  <2>2. \/ Start(Fresh("upload", "createFile", m.user, 0, {}, w1, plan))
        \/ Start(Fresh("sync", "writeUsage", m.user, 0, {}, w2, plan))
    <3>1. CASE uploadFile(m)
      BY <2>1, <3>1 DEF uploadFile, Req, Fresh
    <3>2. CASE getUserUsageInWorkspace(m)
      <4>1. PICK q : q = [Req("sync", "writeUsage", m.user, 0) EXCEPT !.writes = w2]
        OBVIOUS
      <4>2. Start(q)
        BY <2>1, <3>2, <4>1 DEF getUserUsageInWorkspace
      <4>3. q = Fresh("sync", "writeUsage", m.user, 0, {}, w2, plan)
        BY <4>1 DEF Req, Fresh
      <4> QED BY <4>2, <4>3
    <3> QED BY <1>4, <3>1, <3>2
  <2>3. UNCHANGED <<rows, invites>>
    BY <1>4 DEF uploadFile, getUserUsageInWorkspace
  <2> QED BY <2>2, <2>3, BeginReserves
<1>5. ASSUME NEW u, leaveWorkspace(u) PROVE ReserveInv'
  <2>1. Start(Fresh("leave", "transfer", u, 0, {}, {}, plan))
    BY <1>5 DEF leaveWorkspace, Req, Fresh
  <2>2. UNCHANGED <<rows, invites>>
    BY <1>5 DEF leaveWorkspace
  <2> QED BY <2>1, <2>2, BeginReserves
<1>6. ASSUME NEW p, updateWorkspaceLimit(p) PROVE ReserveInv'
  <2>1. PICK w, a : /\ w = {[m EXCEPT !.limit = @ + spaceDifference(p)] : m \in rows}
                    /\ a = unusedSpace(p)
    OBVIOUS
  <2>2. PICK r : r = [Req("plan", "writeRows", Owner, a) EXCEPT !.writes = w, !.target = p]
    OBVIOUS
  <2>3. Start(r) /\ UNCHANGED <<rows, invites>>
    BY <1>6, <2>1, <2>2 DEF updateWorkspaceLimit
  <2>4. r = Fresh("plan", "writeRows", Owner, a, {}, w, p)
    BY <2>2 DEF Req, Fresh
  <2>5. Start(Fresh("plan", "writeRows", Owner, a, {}, w, p))
    BY <2>3, <2>4
  <2> QED BY <2>3, <2>5, BeginReserves
<1> QED BY <1>1, <1>2, <1>3, <1>4, <1>5, <1>6

\* An invitation is taken back, or one of somebody who has become a member goes.
LEMMA RemovalReserves ==
    ASSUME alone, "accept" \notin excused, ReserveInv, NEW i, removeWorkspaceInvite(i) PROVE ReserveInv'
<1>1. requests = {} /\ requests' = {} /\ invites' \subseteq invites /\ UNCHANGED rows
  BY DEF removeWorkspaceInvite, Quiet
<1>2. \A j \in invites' : RowsOf(j.user)' = {}
  BY <1>1 DEF ReserveInv, Joining, RowsOf
<1> QED BY <1>1, <1>2 DEF ReserveInv, OnePerUser

\* What becomes of the one request: it ends, or is at another step.
Ends(r, s) == requests' = {} \/ (requests' = {s} /\ s.op = r.op /\ s.user = r.user)

LEMMA OnlyRequest ==
    ASSUME alone, SeatsInv, NEW r \in requests
    PROVE  /\ requests = {r}
           /\ Finish(r) => requests' = {}
           /\ \A s : Continue(r, s) => requests' = {s}
BY DEF SeatsInv, Finish, Continue

\* Steps that neither invite nor take in anybody.
LEMMA OthersReserve ==
    ASSUME alone, "accept" \notin excused, ReserveInv, NEW r \in requests, requests = {r},
           r.step \notin {"join", "uninvite", "rollback"},
           NobodyNew, UNCHANGED invites, NEW s, Ends(r, s),
           \/ requests' = {}
           \/ s.step = "rollback"
           \/ s.step = "writeOwner" /\ r.step = "readOwner"
           \/ s.op # "accept" /\ s.step \notin {"createInvite", "insert", "join", "uninvite"}
    PROVE  ReserveInv'
<1>1. \A j \in invites' : RowsOf(j.user) = {}
  BY DEF ReserveInv, Joining
<1>2. \A j \in invites' : RowsOf(j.user)' = {}
  BY <1>1, NobodyNewRows
<1>3. requests' = {s} => Reserves(s)'
  BY DEF Ends, ReserveInv, Reserves
<1> QED BY <1>2, <1>3 DEF ReserveInv, OnePerUser, Ends

\* Inviting: whom the request invites has no row and no other invitation.
LEMMA InvitingReserves ==
    ASSUME alone, "accept" \notin excused, TypeInv, SeatsInv, ReserveInv, NEW r \in requests,
           createInvite(r) \/ sendInvitation(r)
    PROVE  ReserveInv'
<1>0. r \in Request /\ requests = {r}
  BY OnlyRequest DEF TypeInv, RequestsFine, RequestFine
<1>1. \A i \in invites : RowsOf(i.user) = {}
  BY <1>0 DEF ReserveInv, Joining, createInvite, sendInvitation
<1>2. CASE createInvite(r)
  <2>1. PICK i : /\ i.user = r.user /\ invites' = invites \cup {i}
                 /\ Continue(r, [r EXCEPT !.step = "mail", !.invite = {i}])
    BY <1>2 DEF createInvite
  <2>2. PICK s : s = [r EXCEPT !.step = "mail", !.invite = {i}]
    OBVIOUS
  <2>3. s.step = "mail" /\ requests' = {s}
    BY <1>0, <2>1, <2>2, OnlyRequest DEF Request
  <2>4. RowsOf(r.user) = {} /\ \A j \in invites : j.user # r.user
    BY <1>2 DEF createInvite, ReserveInv, Reserves
  <2>5. OnePerUser'
    BY <2>1, <2>4 DEF ReserveInv, OnePerUser
  <2>6. \A j \in invites' : RowsOf(j.user)' = {}
    BY <1>1, <1>2, <2>1, <2>4 DEF createInvite, RowsOf
  <2>7. Reserves(s)'
    BY <2>3 DEF Reserves
  <2> QED BY <2>3, <2>5, <2>6, <2>7 DEF ReserveInv
<1>3. CASE sendInvitation(r)
  <2>1. requests' = {} /\ invites' \subseteq invites /\ UNCHANGED rows
    BY <1>3, OnlyRequest DEF sendInvitation
  <2>2. \A j \in invites' : RowsOf(j.user)' = {}
    BY <1>1, <2>1 DEF RowsOf
  <2> QED BY <2>1, <2>2 DEF ReserveInv, OnePerUser
<1> QED BY <1>2, <1>3

\* Accepting: the invitation outlives the row until it is deleted, or else the
\* row goes.
LEMMA AcceptingReserves ==
    ASSUME alone, "accept" \notin excused, TypeInv, SeatsInv, ReserveInv, NEW r \in requests,
           \/ addUserToWorkspace(r) \/ addUserToTeam(r) \/ deleteInvite(r)
           \/ rollbackUserAddedToWorkspace(r)
    PROVE  ReserveInv'
<1>0. r \in Request /\ requests = {r} /\ r.op = "accept"
  BY OnlyRequest, OpOfStep
     DEF TypeInv, RequestsFine, RequestFine, addUserToWorkspace, addUserToTeam, deleteInvite,
         rollbackUserAddedToWorkspace
<1>1. \A step : Goto(r, step) =>
         \E s : requests' = {s} /\ s.step = step /\ s.op = "accept" /\ s.user = r.user
                /\ s.invite = r.invite
  <2> SUFFICES ASSUME NEW step, Goto(r, step)
               PROVE  \E s : requests' = {s} /\ s.step = step /\ s.op = "accept"
                             /\ s.user = r.user /\ s.invite = r.invite
    OBVIOUS
  <2>1. PICK s : s = [r EXCEPT !.step = step]
    OBVIOUS
  <2>2. s.step = step /\ s.op = "accept" /\ s.user = r.user /\ s.invite = r.invite
    BY <1>0, <2>1 DEF Request
  <2>3. requests' = {s}
    BY <2>1, OnlyRequest DEF Goto
  <2> QED BY <2>2, <2>3
<1>2. \A j \in invites : RowsOf(j.user) = {} \/ j.user = r.user
  BY <1>0 DEF ReserveInv, Joining
<1>3. ASSUME addUserToWorkspace(r) PROVE ReserveInv'
  <2>1. UNCHANGED invites /\ \A m \in rows' \ rows : m.user = r.user
    BY <1>3 DEF addUserToWorkspace
  <2>2. PICK s : /\ requests' = {s} /\ s.step = "join" /\ s.op = "accept"
                 /\ s.user = r.user /\ s.invite = r.invite
    BY <1>1, <1>3 DEF addUserToWorkspace
  <2>3. \A j \in invites' : RowsOf(j.user)' = {} \/ j.user = s.user
    BY <1>2, <2>1, <2>2 DEF RowsOf
  <2>4. \E i \in invites' : s.invite = {i} /\ i.user = s.user
    BY <1>3, <2>1, <2>2 DEF addUserToWorkspace, ReserveInv, Reserves
  <2>5. Reserves(s)'
    BY <2>2, <2>4 DEF Reserves
  <2> QED BY <2>1, <2>2, <2>3, <2>5 DEF ReserveInv, OnePerUser, Joining
<1>4. ASSUME addUserToTeam(r) PROVE ReserveInv'
  <2>1. UNCHANGED <<rows, invites>>
    BY <1>4 DEF addUserToTeam
  <2>2. PICK s : /\ requests' = {s} /\ s.step = "uninvite" /\ s.op = "accept"
                 /\ s.user = r.user /\ s.invite = r.invite
    BY <1>1, <1>4 DEF addUserToTeam
  <2>3. \A j \in invites' : RowsOf(j.user)' = {} \/ j.user = s.user
    BY <1>2, <2>1, <2>2 DEF RowsOf
  <2>4. \E i \in invites' : s.invite = {i} /\ i.user = s.user
    BY <1>4, <2>1, <2>2 DEF addUserToTeam, ReserveInv, Reserves
  <2>5. Reserves(s)'
    BY <2>2, <2>4 DEF Reserves
  <2> QED BY <2>1, <2>2, <2>3, <2>5 DEF ReserveInv, OnePerUser, Joining
<1>5. ASSUME deleteInvite(r) PROVE ReserveInv'
  <2>1. PICK i \in invites : r.invite = {i} /\ i.user = r.user
    BY <1>5 DEF deleteInvite, ReserveInv, Reserves
  <2>2. invites' = invites \ {i} /\ UNCHANGED rows
    BY <1>5, <2>1 DEF deleteInvite
  <2>3. \A j \in invites' : j.user # r.user
    BY <2>1, <2>2 DEF ReserveInv, OnePerUser
  <2>4. PICK s : requests' = {s} /\ s.step = "readOwner" /\ s.op = "accept" /\ s.user = r.user
    BY <1>1, <1>5 DEF deleteInvite
  <2>5. \A j \in invites' : RowsOf(j.user)' = {}
    BY <1>2, <2>2, <2>3 DEF RowsOf
  <2>6. Reserves(s)'
    BY <2>3, <2>4 DEF Reserves
  <2> QED BY <2>2, <2>4, <2>5, <2>6 DEF ReserveInv, OnePerUser
<1>6. ASSUME rollbackUserAddedToWorkspace(r) PROVE ReserveInv'
  <2>1. requests' = {} /\ UNCHANGED invites /\ rows' = rows \ RowsOf(r.user)
    BY <1>6, OnlyRequest DEF rollbackUserAddedToWorkspace
  <2>2. \A j \in invites' : RowsOf(j.user)' = {}
    BY <1>2, <2>1 DEF RowsOf
  <2> QED BY <2>1, <2>2 DEF ReserveInv, OnePerUser
<1> QED BY <1>3, <1>4, <1>5, <1>6

\* Space that moves, files and members who leave.
LEMMA MovesReserve ==
    ASSUME alone, "accept" \notin excused, TypeInv, SeatsInv, ReserveInv, NEW r \in requests,
           \/ adjustOwnerStorage(r) \/ updateOwnerLimit(r) \/ updateWorkspaceUser(r)
           \/ setStorage(r) \/ updateWorkspaceMemberCount(r)
           \/ createFile(r) \/ updateDriveUsage(r)
           \/ transferPersonalItemsToWorkspaceOwner(r) \/ readLeavingMember(r)
           \/ deleteUserFromWorkspace(r)
    PROVE  ReserveInv'
<1>0. r \in Request /\ requests = {r} /\ RequestFine(r)
  BY OnlyRequest DEF TypeInv, RequestsFine, RequestFine
<1> DEFINE Moves(s) == s.op = r.op /\ s.user = r.user
<1>1. ASSUME NEW step, NEW a,
             Goto(r, step) \/ Continue(r, [r EXCEPT !.step = step, !.amount = a])
      PROVE  \E s : Continue(r, s) /\ requests' = {s} /\ Moves(s) /\ s.step = step
  <2>1. PICK s, t : s = [r EXCEPT !.step = step] /\ t = [r EXCEPT !.step = step, !.amount = a]
    OBVIOUS
  <2>2. Moves(s) /\ s.step = step /\ Moves(t) /\ t.step = step
    BY <1>0, <2>1 DEF Request
  <2>3. Continue(r, s) \/ Continue(r, t)
    BY <1>1, <2>1 DEF Goto
  <2> QED BY <2>2, <2>3, OnlyRequest
<1>2. \A step : Goto(r, step) => \E s : requests' = {s} /\ Moves(s) /\ s.step = step
  BY <1>1
<1>3. ASSUME adjustOwnerStorage(r) PROVE ReserveInv'
  <2>1. NobodyNew /\ UNCHANGED invites /\ r.step = "readOwner"
    BY <1>3 DEF adjustOwnerStorage, NobodyNew
  <2>2. \/ \E a : Continue(r, [r EXCEPT !.step = "writeOwner", !.amount = a])
        \/ Goto(r, "rollback")
        \/ Finish(r)
    BY <1>3 DEF adjustOwnerStorage
  <2>3. CASE Finish(r)
    <3>1. Ends(r, r) /\ requests' = {}
      BY <2>3, OnlyRequest DEF Ends
    <3> QED BY <1>0, <2>1, <3>1, OthersReserve
  <2>4. CASE Goto(r, "rollback")
    <3>1. PICK s : requests' = {s} /\ Moves(s) /\ s.step = "rollback"
      BY <1>2, <2>4
    <3>2. Ends(r, s)
      BY <3>1 DEF Ends
    <3> QED BY <1>0, <2>1, <3>1, <3>2, OthersReserve
  <2>5. CASE \E a : Continue(r, [r EXCEPT !.step = "writeOwner", !.amount = a])
    <3>1. PICK s : requests' = {s} /\ Moves(s) /\ s.step = "writeOwner"
      BY <1>1, <2>5
    <3>2. Ends(r, s)
      BY <3>1 DEF Ends
    <3> QED BY <1>0, <2>1, <3>1, <3>2, OthersReserve
  <2> QED BY <2>2, <2>3, <2>4, <2>5
<1>4. ASSUME NobodyNew, UNCHANGED invites, r.step \notin {"join", "uninvite", "rollback"},
             \/ Finish(r)
             \/ /\ r.op # "accept"
                /\ \E s : /\ Continue(r, s) /\ Moves(s)
                          /\ s.step \notin {"createInvite", "insert", "join", "uninvite"}
      PROVE  ReserveInv'
  <2>1. CASE Finish(r)
    <3>1. Ends(r, r) /\ requests' = {}
      BY <2>1, OnlyRequest DEF Ends
    <3> QED BY <1>0, <1>4, <3>1, OthersReserve
  <2>2. CASE ~ Finish(r)
    <3>1. PICK s : /\ Continue(r, s) /\ Moves(s) /\ r.op # "accept"
                   /\ s.step \notin {"createInvite", "insert", "join", "uninvite"}
      BY <1>4, <2>2
    <3>2. Ends(r, s)
      BY <3>1, OnlyRequest DEF Ends
    <3> QED BY <1>0, <1>4, <3>1, <3>2, OthersReserve
  <2> QED BY <2>1, <2>2
<1>5. ASSUME NEW step, step \notin {"createInvite", "insert", "join", "uninvite"}, Goto(r, step)
      PROVE  \E s : /\ Continue(r, s) /\ Moves(s)
                    /\ s.step \notin {"createInvite", "insert", "join", "uninvite"}
  BY <1>1, <1>5
<1>6. ASSUME updateOwnerLimit(r) PROVE ReserveInv'
  <2>1. NobodyNew
    <3> SUFFICES ASSUME NEW m \in rows' PROVE \E n \in rows : n.user = m.user
      BY DEF NobodyNew
    <3>1. PICK n \in rows : m = IF n.user = Owner THEN [n EXCEPT !.limit = r.amount] ELSE n
      BY <1>6 DEF updateOwnerLimit
    <3>2. m.user = n.user
      BY <3>1 DEF TypeInv, RowsFine, Row
    <3> QED BY <3>2
  <2>2. r.op \in {"accept", "change", "plan", "leave"} /\ r.step = "writeOwner"
    BY <1>0, <1>6, OpOfStep DEF updateOwnerLimit
  <2>3. r.op # "accept" => NextStep[r.op] \notin {"createInvite", "insert", "join", "uninvite"}
    BY <2>2 DEF NextStep
  <2>4. IF r.op = "accept" THEN Finish(r) ELSE Goto(r, NextStep[r.op])
    BY <1>6 DEF updateOwnerLimit
  <2>5. UNCHANGED invites
    BY <1>6 DEF updateOwnerLimit
  <2> QED BY <1>4, <1>5, <2>1, <2>2, <2>3, <2>4, <2>5
<1>7. ASSUME updateWorkspaceUser(r) PROVE ReserveInv'
  <2>1. PICK w \in r.writes :
           /\ rows' = {IF SameId(m, w) THEN w ELSE m : m \in rows}
           /\ LET s == [r EXCEPT !.writes = @ \ {w}] IN
                 IF s.writes # {} THEN Continue(r, s)
                 ELSE IF r.op = "plan" THEN Continue(r, [s EXCEPT !.step = "setStorage"])
                 ELSE Finish(r)
    BY <1>7 DEF updateWorkspaceUser
  <2>2. NobodyNew
    BY <2>1 DEF NobodyNew, SameId
  <2>3. PICK s, t : /\ s = [r EXCEPT !.writes = r.writes \ {w}]
                    /\ t = [s EXCEPT !.step = "setStorage"]
    OBVIOUS
  <2>4. Continue(r, s) \/ Continue(r, t) \/ Finish(r)
    BY <2>1, <2>3
  <2>5. r.step = "writeRows" /\ UNCHANGED invites
    BY <1>7 DEF updateWorkspaceUser
  <2>6. Moves(s) /\ s.step = "writeRows" /\ Moves(t) /\ t.step = "setStorage"
    BY <1>0, <2>3, <2>5 DEF Request
  <2>7. r.op # "accept"
    BY <1>0, <2>5, OpOfStep
  <2>8. Finish(r) \/ \E q : /\ Continue(r, q) /\ Moves(q)
                            /\ q.step \notin {"createInvite", "insert", "join", "uninvite"}
    BY <2>4, <2>6
  <2> QED BY <1>4, <2>2, <2>5, <2>7, <2>8
<1>8. ASSUME setStorage(r) \/ updateWorkspaceMemberCount(r) PROVE ReserveInv'
  <2>1. /\ NobodyNew /\ UNCHANGED invites
        /\ r.step \in {"setStorage", "setSeats"}
        /\ Finish(r) \/ Goto(r, "readOwner")
    BY <1>8 DEF setStorage, updateWorkspaceMemberCount, NobodyNew
  <2>2. r.op # "accept"
    BY <1>0, <2>1, OpOfStep
  <2> QED BY <1>4, <1>5, <2>1, <2>2
<1>9. ASSUME updateDriveUsage(r) PROVE ReserveInv'
  <2>1. NobodyNew
    <3> SUFFICES ASSUME NEW m \in rows' PROVE \E n \in rows : n.user = m.user
      BY DEF NobodyNew
    <3>1. PICK w : rows' = {IF SameId(n, w) THEN [n EXCEPT !.drive = w.drive] ELSE n : n \in rows}
      BY <1>9 DEF updateDriveUsage
    <3>2. PICK n \in rows : m = IF SameId(n, w) THEN [n EXCEPT !.drive = w.drive] ELSE n
      BY <3>1
    <3>3. m.user = n.user
      BY <3>2 DEF TypeInv, RowsFine, Row
    <3> QED BY <3>3
  <2>2. UNCHANGED invites /\ r.step = "writeUsage" /\ Finish(r)
    BY <1>9 DEF updateDriveUsage
  <2> QED BY <1>4, <2>1, <2>2
<1>10. ASSUME createFile(r) \/ transferPersonalItemsToWorkspaceOwner(r) PROVE ReserveInv'
  <2>1. /\ NobodyNew /\ UNCHANGED invites /\ r.step \in {"createFile", "transfer"}
        /\ Goto(r, "writeRows") \/ Goto(r, "readMember")
    BY <1>10 DEF createFile, transferPersonalItemsToWorkspaceOwner, NobodyNew
  <2>2. r.op # "accept"
    BY <1>0, <2>1, OpOfStep
  <2>3. \E s : /\ Continue(r, s) /\ Moves(s)
               /\ s.step \notin {"createInvite", "insert", "join", "uninvite"}
    BY <1>5, <2>1
  <2> QED BY <1>4, <2>1, <2>2, <2>3
<1>11. ASSUME readLeavingMember(r) PROVE ReserveInv'
  <2>1. /\ NobodyNew /\ UNCHANGED invites /\ r.step = "readMember"
        /\ \/ Finish(r)
           \/ \E a : Continue(r, [r EXCEPT !.step = "readOwner", !.amount = a])
    BY <1>11 DEF readLeavingMember, NobodyNew
  <2>2. r.op # "accept"
    BY <1>0, <2>1, OpOfStep
  <2>3. Finish(r) \/ \E s : /\ Continue(r, s) /\ Moves(s)
                            /\ s.step \notin {"createInvite", "insert", "join", "uninvite"}
    <3>1. CASE \E a : Continue(r, [r EXCEPT !.step = "readOwner", !.amount = a])
      <4>1. PICK a : Continue(r, [r EXCEPT !.step = "readOwner", !.amount = a])
        BY <3>1
      <4>2. \E s : Continue(r, s) /\ Moves(s) /\ s.step = "readOwner"
        BY <1>1, <4>1
      <4> QED BY <4>2
    <3> QED BY <2>1, <3>1
  <2> QED BY <1>4, <2>1, <2>2, <2>3
<1>12. ASSUME deleteUserFromWorkspace(r) PROVE ReserveInv'
  <2>1. NobodyNew /\ UNCHANGED invites /\ r.step = "deleteRows" /\ Finish(r)
    BY <1>12 DEF deleteUserFromWorkspace, NobodyNew
  <2> QED BY <1>4, <2>1
<1> QED BY <1>3, <1>6, <1>7, <1>8, <1>9, <1>10, <1>11, <1>12

\* A request that fails is the last one of an acceptance that can, or goes on
\* to the rollback.
LEMMA FailuresReserve ==
    ASSUME alone, "accept" \notin excused, TypeInv, SeatsInv, ReserveInv, NEW r \in requests, fails(r)
    PROVE  ReserveInv'
<1>0. r \in Request /\ requests = {r} /\ RequestFine(r) /\ UNCHANGED <<rows, invites>>
  BY OnlyRequest DEF TypeInv, RequestsFine, RequestFine, fails
<1>1. CASE "accept" \in excused'
  BY <1>1 DEF ReserveInv
<1>2. \A j \in invites : RowsOf(j.user) = {} \/ Joining(j.user)
  BY DEF ReserveInv
<1>3. CASE r.op = "accept" /\ r.step # "rollback"
  <2>1. Goto(r, "rollback")
    BY <1>3 DEF fails
  <2>2. PICK s : s = [r EXCEPT !.step = "rollback"]
    OBVIOUS
  <2>3. s.step = "rollback" /\ s.user = r.user
    BY <1>0, <2>2 DEF Request
  <2>4. requests' = {s}
    BY <2>1, <2>2, OnlyRequest DEF Goto
  <2>5. Reserves(s)'
    BY <2>3 DEF Reserves
  <2>6. \A j \in invites' : RowsOf(j.user)' = {} \/ Joining(j.user)'
    BY <1>0, <1>2, <2>3, <2>4 DEF Joining, RowsOf
  <2> QED BY <1>0, <2>4, <2>5, <2>6 DEF ReserveInv, OnePerUser
<1>4. CASE ~ (r.op = "accept" /\ r.step # "rollback") /\ "accept" \notin excused'
  <2>1. requests' = {}
    BY <1>4, OnlyRequest DEF fails
  <2>2. r.step = "rollback" => RowsOf(r.user) = {}
    <3>1. r.step = "rollback" => r.op = "accept"
      BY <1>0, OpOfStep
    <3> QED BY <1>4, <3>1 DEF fails, Excuse, HalfDone
  <2>3. r.step \notin {"join", "uninvite"}
    BY <1>0, <1>4, OpOfStep
  <2>4. \A j \in invites' : RowsOf(j.user)' = {}
    BY <1>0, <1>2, <2>2, <2>3 DEF Joining, RowsOf
  <2> QED BY <1>0, <2>1, <2>4 DEF ReserveInv, OnePerUser
<1> QED BY <1>1, <1>3, <1>4

\* What a request has left half done stays so.
LEMMA ExcusedStays == ASSUME Next PROVE excused \subseteq excused' /\ alone' = alone
BY DEF Next, Step, RequestStep, inviteUserToWorkspace, createInvite, sendInvitation,
       removeWorkspaceInvite, acceptInviteOfMember, acceptWorkspaceInvite,
       addUserToWorkspace, addUserToTeam, deleteInvite, rollbackUserAddedToWorkspace,
       adjustOwnerStorage, updateOwnerLimit, updateWorkspaceUser, changeUserAssignedSpace,
       updateWorkspaceLimit, setStorage, updateWorkspaceMemberCount, uploadFile, createFile,
       deleteFile, getUserUsageInWorkspace, updateDriveUsage, leaveWorkspace,
       transferPersonalItemsToWorkspaceOwner, readLeavingMember, deleteUserFromWorkspace,
       fails, Excuse

LEMMA ReserveStep ==
    ASSUME TypeInv, SeatsInv, ReserveInv, [Next]_vars PROVE ReserveInv'
<1>1. CASE UNCHANGED vars
  BY <1>1 DEF vars, ReserveInv, OnePerUser, RowsOf, Joining, Reserves
<1>2. CASE Next /\ (~ alone \/ "accept" \in excused)
  BY <1>2, ExcusedStays DEF ReserveInv
<1>3. ASSUME Next, alone, "accept" \notin excused PROVE ReserveInv'
  <2>1. RequestStep => ReserveInv'
    BY <1>3, InvitingReserves, AcceptingReserves, MovesReserve, FailuresReserve DEF RequestStep
  <2>2. ASSUME NEW i, \/ removeWorkspaceInvite(i) \/ acceptInviteOfMember(i)
        PROVE  ReserveInv'
    BY <1>3, <2>2, RemovalReserves DEF acceptInviteOfMember
  <2>3. \A u : deleteFile(u) => ReserveInv'
    BY <1>3 DEF deleteFile, Next, ReserveInv, OnePerUser, RowsOf, Joining, Reserves
  <2> QED BY <1>3, <2>1, <2>2, <2>3, BeginningsReserve DEF Next, Step
<1> QED BY <1>1, <1>2, <1>3

\* InvitesReserveOnce, the half of SpaceAccountedAlone that needs no sum: of
\* requests that run alone none leaves two invitations of a user, or one of a
\* user who is a member, whether it ends well, fails or is rolled back, as long
\* as no rollback has failed.
THEOREM InvitesAreReservedOnce == Spec => [](alone => InvitesReserveOnce)
<1>1. Init => SeatsInv /\ ReserveInv
  <2> SUFFICES ASSUME Init PROVE SeatsInv /\ ReserveInv
    OBVIOUS
  <2>1. requests = {} /\ invites = {} /\ plan.seats \in SeatNumbers
    BY DEF Init, SeatNumbers
  <2> QED BY <2>1 DEF SeatsInv, Inserting, ReserveInv, OnePerUser
<1>2. TypeInv /\ TypeInv' /\ SeatsInv /\ ReserveInv /\ [Next]_vars => SeatsInv' /\ ReserveInv'
  BY WorkspaceConstants, SeatsStep, ReserveStep
<1>3. ReserveInv => (alone => InvitesReserveOnce)
  BY DEF ReserveInv, InvitesReserveOnce, Joining, OnePerUser
<1> QED BY <1>1, <1>2, <1>3, TypeInvariant, PTL DEF Spec

----------------------------------------------------------------------------
(* Sums of rows.  The library's induction is over operators; these two     *)
(* lemmas are the same about sets, of numbers and of subsets.              *)

Before == {p \in Nat \X Nat : p[1] < p[2]}

LEMMA BeforeWF == IsWellFoundedOn(Before, Nat)
BY NatLessThanWellFounded DEF OpToRel, Before

\* What holds of 0, and of n + 1 where it holds of n, holds of each number.
LEMMA Induction ==
    ASSUME NEW S, 0 \in S, \A n \in Nat : n \in S => n + 1 \in S
    PROVE  Nat \subseteq S
<1> SUFFICES ASSUME Nat \ S # {} PROVE FALSE
  OBVIOUS
<1>1. PICK n \in Nat \ S : \A k \in Nat \ S : ~ (<<k, n>> \in Before)
  <2>1. Nat \ S \subseteq Nat
    OBVIOUS
  <2> QED BY <2>1, BeforeWF, WFMin
<1>2. n - 1 \in Nat /\ <<n - 1, n>> \in Before
  BY <1>1 DEF Before
<1>3. n - 1 \in S
  BY <1>1, <1>2
<1> QED BY <1>1, <1>2, <1>3

SumOf(R) == MapThenSumSet(LAMBDA m : m.limit, R)

\* The row a sum takes next.
NextRow(s) == CHOOSE m \in s : TRUE

\* What the sum of each set of rows is, when the smaller ones are in f.
Summed(f, s) == IF s = {} THEN 0 ELSE NextRow(s).limit + f[s \ {NextRow(s)}]

Sums(R) == CHOOSE f : f = [s \in SUBSET R |-> Summed(f, s)]

LEMMA SumOfIsSums ==
    ASSUME NEW R PROVE SumOf(R) = Sums(R)[R]
BY DEF SumOf, MapThenSumSet, MapThenFoldSet, Sums, Summed, NextRow

LEMMA NextIsOne == ASSUME NEW s, s # {} PROVE NextRow(s) \in s
BY DEF NextRow

Limits(R) == IsFiniteSet(R) /\ \A m \in R : m.limit \in Int

\* There are sums of the sets up to a size, for each size.
LEMMA SumsExist ==
    ASSUME NEW R, Limits(R)
    PROVE  Sums(R) \in [SUBSET R -> Int] /\ \A s \in SUBSET R : Sums(R)[s] = Summed(Sums(R), s)
<1> DEFINE UpTo(n) == {s \in SUBSET R : Cardinality(s) <= n}
           Fits(f, n) == f \in [UpTo(n) -> Int] /\ \A s \in UpTo(n) : f[s] = Summed(f, s)
           Good == {n \in Nat : \E f : Fits(f, n)}
<1>1. \A s \in SUBSET R : IsFiniteSet(s) /\ Cardinality(s) \in Nat /\ Cardinality(s) <= Cardinality(R)
  BY FS_Subset, FS_CardinalityType DEF Limits
<1>2. Cardinality(R) \in Nat
  BY <1>1
<1>3. \A n \in Nat : \A s \in UpTo(n + 1) : s # {} => s \ {NextRow(s)} \in UpTo(n) /\ NextRow(s).limit \in Int
  <2> SUFFICES ASSUME NEW n \in Nat, NEW s \in UpTo(n + 1), s # {}
               PROVE  s \ {NextRow(s)} \in UpTo(n) /\ NextRow(s).limit \in Int
    OBVIOUS
  <2>1. NextRow(s) \in s /\ s \in SUBSET R /\ IsFiniteSet(s) /\ Cardinality(s) \in Nat
    BY <1>1, NextIsOne
  <2>2. Cardinality(s \ {NextRow(s)}) = Cardinality(s) - 1
    BY <2>1, FS_RemoveElement
  <2> QED BY <2>1, <2>2 DEF Limits
<1>4. 0 \in Good
  <2>1. \A s \in UpTo(0) : s = {}
    BY <1>1, FS_EmptySet
  <2>2. Fits([s \in UpTo(0) |-> 0], 0)
    BY <2>1 DEF Summed
  <2> QED BY <2>2
<1>5. ASSUME NEW n \in Nat, n \in Good PROVE n + 1 \in Good
  <2>1. PICK f : Fits(f, n)
    BY <1>5
  <2> DEFINE g == [s \in UpTo(n + 1) |-> Summed(f, s)]
  <2>2. \A s \in UpTo(n) : s \in UpTo(n + 1) /\ g[s] = f[s]
    BY <1>1, <2>1
  <2>3. \A s \in UpTo(n + 1) : g[s] = Summed(g, s) /\ g[s] \in Int
    <3> SUFFICES ASSUME NEW s \in UpTo(n + 1) PROVE g[s] = Summed(g, s) /\ g[s] \in Int
      OBVIOUS
    <3>1. CASE s = {}
      BY <3>1 DEF Summed
    <3>2. CASE s # {}
      <4>1. s \ {NextRow(s)} \in UpTo(n) /\ NextRow(s).limit \in Int
        BY <1>3, <3>2
      <4>2. g[s \ {NextRow(s)}] = f[s \ {NextRow(s)}] /\ f[s \ {NextRow(s)}] \in Int
        BY <2>1, <2>2, <4>1
      <4>3. g[s] = NextRow(s).limit + f[s \ {NextRow(s)}] /\ Summed(g, s) = NextRow(s).limit + g[s \ {NextRow(s)}]
        BY <3>2 DEF Summed
      <4> HIDE DEF g
      <4> QED BY <4>1, <4>2, <4>3
    <3> QED BY <3>1, <3>2
  <2>4. g \in [UpTo(n + 1) -> Int]
    BY <2>3
  <2>5. Fits(g, n + 1)
    BY <2>3, <2>4
  <2> HIDE DEF g, Fits
  <2> QED BY <2>5
<1>6. Cardinality(R) \in Good
  <2> HIDE DEF Good
  <2>1. Nat \subseteq Good
    BY <1>4, <1>5, Induction
  <2> QED BY <1>2, <2>1
<1>7. PICK f : Fits(f, Cardinality(R))
  BY <1>6
<1>8. UpTo(Cardinality(R)) = SUBSET R
  BY <1>1
<1>9. f = [s \in SUBSET R |-> Summed(f, s)]
  BY <1>7, <1>8
<1>10. Sums(R) = [s \in SUBSET R |-> Summed(Sums(R), s)]
  BY <1>9 DEF Sums
<1> DEFINE h == Sums(R)
<1>11. \A s \in SUBSET R : h[s] = Summed(h, s)
  BY <1>10
<1>12. \A s \in SUBSET R : h[s] \in Int
  <2> DEFINE Whole == {n \in Nat : \A s \in UpTo(n) : h[s] \in Int}
  <2>1. 0 \in Whole
    BY <1>1, <1>11, FS_EmptySet DEF Summed
  <2>2. ASSUME NEW n \in Nat, n \in Whole PROVE n + 1 \in Whole
    <3> SUFFICES ASSUME NEW s \in UpTo(n + 1) PROVE h[s] \in Int
      OBVIOUS
    <3>1. CASE s = {}
      BY <1>11, <3>1 DEF Summed
    <3>2. CASE s # {}
      <4>1. s \ {NextRow(s)} \in UpTo(n) /\ NextRow(s).limit \in Int
        BY <1>3, <3>2
      <4>2. h[s \ {NextRow(s)}] \in Int /\ h[s] = NextRow(s).limit + h[s \ {NextRow(s)}]
        BY <1>11, <2>2, <3>2, <4>1 DEF Summed
      <4> HIDE DEF h
      <4> QED BY <4>1, <4>2
    <3> QED BY <3>1, <3>2
  <2>3. Cardinality(R) \in Whole
    <3> HIDE DEF Whole
    <3>1. Nat \subseteq Whole
      BY <2>1, <2>2, Induction
    <3> QED BY <1>2, <3>1
  <2> QED BY <1>8, <2>3
<1> QED BY <1>10, <1>11, <1>12

\* A set without what is bad of smaller ones has nothing bad.
LEMMA SetInduction ==
    ASSUME NEW R, IsFiniteSet(R), NEW Good,
           \A s \in SUBSET R : (\A t \in SUBSET s : t # s => t \in Good) => s \in Good
    PROVE  SUBSET R \subseteq Good
<1> DEFINE Upto == {n \in Nat : \A s \in SUBSET R : Cardinality(s) <= n => s \in Good}
<1>1. \A s \in SUBSET R : IsFiniteSet(s) /\ Cardinality(s) \in Nat /\ Cardinality(s) <= Cardinality(R)
  BY FS_Subset, FS_CardinalityType
<1>2. ASSUME NEW s \in SUBSET R, NEW t \in SUBSET s, t # s
      PROVE  t \in SUBSET R /\ Cardinality(t) < Cardinality(s) /\ Cardinality(t) \in Nat /\ Cardinality(s) \in Nat
  <2>1. IsFiniteSet(s) /\ t \in SUBSET R
    BY <1>1
  <2>2. Cardinality(t) <= Cardinality(s) /\ Cardinality(t) # Cardinality(s)
    BY <1>2, <2>1, FS_Subset
  <2> QED BY <1>1, <2>1, <2>2
<1>3. 0 \in Upto
  <2> SUFFICES ASSUME NEW s \in SUBSET R, Cardinality(s) <= 0 PROVE s \in Good
    OBVIOUS
  <2>1. s = {}
    BY <1>1, FS_EmptySet
  <2>2. \A t \in SUBSET s : t = s
    BY <2>1
  <2> QED BY <2>2
<1>4. ASSUME NEW n \in Nat, n \in Upto PROVE n + 1 \in Upto
  <2> SUFFICES ASSUME NEW s \in SUBSET R, Cardinality(s) <= n + 1 PROVE s \in Good
    OBVIOUS
  <2>1. ASSUME NEW t \in SUBSET s, t # s PROVE t \in Good
    <3>1. t \in SUBSET R /\ Cardinality(t) <= n
      BY <1>2, <2>1
    <3> QED BY <1>4, <3>1
  <2> QED BY <2>1
<1>5. Cardinality(R) \in Upto
  <2>1. Cardinality(R) \in Nat
    BY <1>1
  <2> HIDE DEF Upto
  <2>2. Nat \subseteq Upto
    BY <1>3, <1>4, Induction
  <2> QED BY <2>1, <2>2
<1> QED BY <1>1, <1>5

\* It does not matter which row a sum takes next.
Recurs(f, R) == f \in [SUBSET R -> Int] /\ \A s \in SUBSET R : f[s] = Summed(f, s)

AnyOrder(f, R) == \A s \in SUBSET R : \A m \in s : f[s] = m.limit + f[s \ {m}]

LEMMA AnyNext ==
    ASSUME NEW R, Limits(R), NEW f, Recurs(f, R)
    PROVE  AnyOrder(f, R)
<1>0. f \in [SUBSET R -> Int] /\ \A s \in SUBSET R : f[s] = Summed(f, s)
  BY DEF Recurs
<1> DEFINE Good == {s \in SUBSET R : \A m \in s : f[s] = m.limit + f[s \ {m}]}
<1>1. ASSUME NEW s \in SUBSET R, \A t \in SUBSET s : t # s => t \in Good PROVE s \in Good
  <2> SUFFICES ASSUME NEW m \in s PROVE f[s] = m.limit + f[s \ {m}]
    OBVIOUS
  <2>1. PICK x \in s : x = NextRow(s) /\ f[s] = x.limit + f[s \ {x}]
    BY <1>0, NextIsOne DEF Summed
  <2>2. CASE m = x
    BY <2>1, <2>2
  <2>3. CASE m # x
    <3>1. s \ {x} \in Good /\ s \ {m} \in Good
      BY <1>1
    <3>2. f[s \ {x}] = m.limit + f[(s \ {x}) \ {m}] /\ f[s \ {m}] = x.limit + f[(s \ {m}) \ {x}]
      BY <2>3, <3>1
    <3>3. (s \ {x}) \ {m} = (s \ {m}) \ {x} /\ (s \ {m}) \ {x} \in SUBSET R
      OBVIOUS
    <3>4. m.limit \in Int /\ x.limit \in Int /\ f[(s \ {m}) \ {x}] \in Int
      BY <1>0, <3>3 DEF Limits
    <3>5. f[s] = x.limit + (m.limit + f[(s \ {m}) \ {x}])
      BY <2>1, <3>2, <3>3
    <3> QED BY <3>2, <3>4, <3>5
  <2> QED BY <2>2, <2>3
<1>2. SUBSET R \subseteq Good
  <2> HIDE DEF Good
  <2> QED BY <1>1, SetInduction DEF Limits
<1> QED BY <1>2 DEF AnyOrder

LEMMA SumsAgree ==
    ASSUME NEW R, Limits(R), NEW Q \in SUBSET R,
           NEW f, \A s \in SUBSET R : f[s] = Summed(f, s),
           NEW g, \A s \in SUBSET Q : g[s] = Summed(g, s)
    PROVE  \A s \in SUBSET Q : f[s] = g[s]
<1> DEFINE Good == {s \in SUBSET Q : f[s] = g[s]}
<1>1. ASSUME NEW s \in SUBSET Q, \A t \in SUBSET s : t # s => t \in Good PROVE s \in Good
  <2>1. CASE s = {}
    BY <2>1 DEF Summed
  <2>2. CASE s # {}
    <3>1. NextRow(s) \in s
      BY <2>2, NextIsOne
    <3>2. f[s \ {NextRow(s)}] = g[s \ {NextRow(s)}]
      BY <1>1, <3>1
    <3> QED BY <2>2, <3>2 DEF Summed
  <2> QED BY <2>1, <2>2
<1>2. SUBSET Q \subseteq Good
  <2>1. IsFiniteSet(Q)
    BY FS_Subset DEF Limits
  <2> HIDE DEF Good
  <2> QED BY <1>1, <2>1, SetInduction
<1> QED BY <1>2

LEMMA SumOfRows ==
    ASSUME NEW R, Limits(R)
    PROVE  /\ SumOf({}) = 0 /\ SumOf(R) \in Int
           /\ \A m \in R : SumOf(R) = m.limit + SumOf(R \ {m})
<1>1. SumOf({}) = 0
  <2>1. Limits({})
    BY FS_EmptySet DEF Limits
  <2> QED BY <2>1, SumsExist, SumOfIsSums DEF Summed
<1>2. SumOf(R) \in Int
  BY SumsExist, SumOfIsSums
<1>3. ASSUME NEW m \in R PROVE SumOf(R) = m.limit + SumOf(R \ {m})
  <2>1. PICK Q, f, g : Q = R \ {m} /\ f = Sums(R) /\ g = Sums(Q)
    OBVIOUS
  <2>2. Limits(Q) /\ Q \in SUBSET R
    BY <2>1, FS_RemoveElement DEF Limits
  <2>3. f \in [SUBSET R -> Int] /\ \A s \in SUBSET R : f[s] = Summed(f, s)
    BY <2>1, SumsExist
  <2>4. \A s \in SUBSET Q : g[s] = Summed(g, s)
    BY <2>1, <2>2, SumsExist
  <2>5. SumOf(R) = f[R] /\ SumOf(Q) = g[Q]
    BY <2>1, SumOfIsSums
  <2>6. f[R] = m.limit + f[Q]
    <3>1. AnyOrder(f, R)
      BY <2>3, AnyNext DEF Recurs
    <3> QED BY <2>1, <3>1 DEF AnyOrder
  <2>7. f[Q] = g[Q]
    <3>1. \A s \in SUBSET Q : f[s] = g[s]
      BY <2>2, <2>3, <2>4, SumsAgree
    <3> QED BY <3>1
  <2> QED BY <2>1, <2>5, <2>6, <2>7
<1> QED BY <1>1, <1>2, <1>3
----------------------------------------------------------------------------
(* What the members hold adds up.                                          *)

\* What the members hold beyond the limit of the network.
Balance == SumOf(rows) - plan.limit

\* One row per user, and one of the owner's.
OneRow ==
    /\ \A m, n \in rows : m.user = n.user => m = n
    /\ RowsOf(Owner) # {}

\* How far the books are from balanced at each step, and what the one request
\* knows of the rows it is about.
InviteBooks(r) == Balance = 0

AcceptBooks(r) ==
    /\ r.step = "insert" => RowsOf(r.user) = {} /\ Balance = 0
    /\ r.step # "insert" => r.user # Owner
    /\ r.step \in {"join", "uninvite", "readOwner"} =>
          \E m \in RowsOf(r.user) : m.limit = r.amount /\ Balance = r.amount
    /\ r.step = "writeOwner" =>
          /\ \A o \in RowsOf(Owner) : Balance = o.limit - r.amount
          /\ \E m \in RowsOf(r.user) : Balance = m.limit
    /\ r.step = "rollback" => /\ RowsOf(r.user) = {} => Balance = 0
                              /\ \A m \in RowsOf(r.user) : Balance = m.limit

ChangeBooks(r) ==
    \E w \in r.writes, m \in rows :
        /\ r.writes = {w} /\ SameId(m, w)
        /\ r.step \in {"readOwner", "writeOwner"} => Balance = 0
        /\ r.step = "readOwner" => w.limit - m.limit = r.amount
        /\ w.user # Owner =>
              /\ r.step = "writeOwner" =>
                    \A o \in RowsOf(Owner) : Balance + (r.amount - o.limit) + (w.limit - m.limit) = 0
              /\ r.step = "writeRows" => Balance + (w.limit - m.limit) = 0

PlanBooks(r) ==
    /\ r.step = "writeRows" =>
          /\ SumOf(rows) + spaceDifference(r.target) * Cardinality(r.writes) + r.amount = r.target.limit
          /\ \A w, v \in r.writes : SameId(w, v) => w = v
          /\ \A w \in r.writes : \E m \in rows : SameId(m, w) /\ w.limit = m.limit + spaceDifference(r.target)
    /\ r.step = "setStorage" => SumOf(rows) + r.amount = r.target.limit
    /\ r.step = "readOwner" => Balance + r.amount = 0
    /\ r.step = "writeOwner" => \A o \in RowsOf(Owner) : Balance = o.limit - r.amount
    /\ r.step = "setSeats" => Balance = 0

\* Uploads write a copy with the limit as it is.
UploadBooks(r) ==
    /\ Balance = 0
    /\ \E w \in r.writes, m \in rows : r.writes = {w} /\ SameId(m, w) /\ m.limit = w.limit

LeaveBooks(r) ==
    /\ r.user # Owner
    /\ r.step \in {"transfer", "readMember", "readOwner", "writeOwner"} => Balance = 0
    /\ r.step = "readOwner" => \E m \in RowsOf(r.user) : m.limit = r.amount
    /\ r.step = "writeOwner" =>
          \E m \in RowsOf(r.user) : \A o \in RowsOf(Owner) : r.amount = o.limit + m.limit
    /\ r.step = "deleteRows" => \E m \in RowsOf(r.user) : Balance = m.limit

Books(r) ==
    /\ r.op = "invite" \/ r.op = "sync" => InviteBooks(r)
    /\ r.op = "accept" => AcceptBooks(r)
    /\ r.op = "change" => ChangeBooks(r)
    /\ r.op = "plan" => PlanBooks(r)
    /\ r.op = "upload" => UploadBooks(r)
    /\ r.op = "leave" => LeaveBooks(r)

BooksInv ==
    alone /\ excused = {} =>
        /\ OneRow
        /\ requests = {} => Balance = 0
        /\ \A r \in requests : Books(r)

LEMMA RowsHaveLimits ==
    ASSUME RowsFine PROVE Limits(rows) /\ SumOf(rows) \in Int
<1>1. Limits(rows)
  BY DEF RowsFine, Row, Limits
<1> QED BY <1>1, SumOfRows

\* A row takes the place of another of its user.
LEMMA RowReplaced ==
    ASSUME RowsFine, OneRow, NEW m \in rows, NEW n \in Row, n.user = m.user,
           rows' = (rows \ {m}) \cup {n}
    PROVE  /\ SumOf(rows)' = SumOf(rows) - m.limit + n.limit
           /\ OneRow' /\ RowsOf(m.user) = {m} /\ RowsOf(m.user)' = {n}
           /\ \A u : u # m.user => RowsOf(u)' = RowsOf(u)
<1>1. n \notin rows \ {m} /\ rows' \ {n} = rows \ {m} /\ n \in rows'
  BY DEF OneRow
<1>2. Limits(rows) /\ Limits(rows')
  <2>1. IsFiniteSet(rows') /\ \A k \in rows' : k \in Row
    BY FS_AddElement, FS_RemoveElement DEF RowsFine
  <2> QED BY <2>1, RowsHaveLimits DEF Limits, Row
<1>3. SumOf(rows) = m.limit + SumOf(rows \ {m}) /\ SumOf(rows)' = n.limit + SumOf(rows \ {m})
  <2>1. SumOf(rows) = m.limit + SumOf(rows \ {m})
    BY <1>2, SumOfRows
  <2>2. SumOf(rows') = n.limit + SumOf(rows' \ {n})
    BY <1>1, <1>2, SumOfRows
  <2>3. SumOf(rows)' = SumOf(rows')
    OBVIOUS
  <2> QED BY <1>1, <2>1, <2>2, <2>3
<1>4. m.limit \in Int /\ n.limit \in Int /\ SumOf(rows \ {m}) \in Int
  <2>1. Limits(rows \ {m})
    BY <1>2, FS_RemoveElement DEF Limits
  <2>2. SumOf(rows \ {m}) \in Int
    BY <2>1, SumOfRows
  <2> QED BY <2>2 DEF RowsFine, Row
<1>5. RowsOf(m.user) = {m} /\ RowsOf(m.user)' = {n}
  BY <1>1 DEF OneRow, RowsOf
<1>6. \A u : u # m.user => RowsOf(u)' = RowsOf(u)
  BY DEF RowsOf
<1>7. OneRow'
  <2>1. \A x, y \in rows' : x.user = y.user => x = y
    BY DEF OneRow
  <2>2. RowsOf(Owner)' # {}
    BY <1>5, <1>6 DEF OneRow
  <2> QED BY <2>1, <2>2 DEF OneRow
<1> QED BY <1>3, <1>4, <1>5, <1>6, <1>7

LEMMA RowGone ==
    ASSUME RowsFine, OneRow, NEW m \in rows, m.user # Owner, rows' = rows \ RowsOf(m.user)
    PROVE  SumOf(rows)' = SumOf(rows) - m.limit /\ OneRow'
<1>1. rows' = rows \ {m}
  BY DEF OneRow, RowsOf
<1>2. SumOf(rows) = m.limit + SumOf(rows \ {m}) /\ SumOf(rows)' = SumOf(rows \ {m})
  BY <1>1, RowsHaveLimits, SumOfRows
<1>3. Limits(rows \ {m})
  BY RowsHaveLimits, FS_RemoveElement DEF Limits
<1>4. m.limit \in Int /\ SumOf(rows \ {m}) \in Int
  BY <1>3, SumOfRows DEF RowsFine, Row
<1>5. OneRow'
  BY <1>1 DEF OneRow, RowsOf
<1> QED BY <1>2, <1>4, <1>5

LEMMA RowNew ==
    ASSUME RowsFine, OneRow, NEW n \in Row, RowsOf(n.user) = {}, rows' = rows \cup {n}
    PROVE  SumOf(rows)' = SumOf(rows) + n.limit /\ OneRow' /\ n \in RowsOf(n.user)'
<1>1. n \notin rows /\ rows' \ {n} = rows /\ n \in rows'
  BY DEF RowsOf
<1>2. Limits(rows')
  <2>1. IsFiniteSet(rows') /\ \A k \in rows' : k \in Row
    BY FS_AddElement DEF RowsFine
  <2> QED BY <2>1 DEF Limits, Row
<1>3. SumOf(rows') = n.limit + SumOf(rows)
  BY <1>1, <1>2, SumOfRows
<1>4. SumOf(rows)' = SumOf(rows') /\ SumOf(rows) \in Int /\ n.limit \in Int
  BY RowsHaveLimits DEF Row
<1>5. OneRow'
  BY DEF OneRow, RowsOf
<1> QED BY <1>1, <1>3, <1>4, <1>5 DEF RowsOf

\* Alone a request begins with the books balanced.
LEMMA BeginsAlone ==
    ASSUME alone, NEW op, NEW step, NEW u, NEW a, NEW i, NEW w, NEW t,
           Start(Fresh(op, step, u, a, i, w, t))
    PROVE  /\ requests = {}
           /\ \E s : /\ requests' = {s} /\ s.op = op /\ s.step = step /\ s.user = u
                     /\ s.amount = a /\ s.invite = i /\ s.writes = w /\ s.target = t
<1>1. requests = {}
  BY DEF Start, Quiet
<1>2. PICK k : requests' = requests \cup {[Fresh(op, step, u, a, i, w, t) EXCEPT !.nr = k]}
  BY DEF Start
<1>3. PICK s : s = [Fresh(op, step, u, a, i, w, t) EXCEPT !.nr = k]
  OBVIOUS
<1>4. /\ s.op = op /\ s.step = step /\ s.user = u
      /\ s.amount = a /\ s.invite = i /\ s.writes = w /\ s.target = t
  BY <1>3 DEF Fresh
<1>5. requests' = {s}
  BY <1>1, <1>2, <1>3
<1> QED BY <1>1, <1>4, <1>5

\* What books are about, as long as no row is written and the plan stays.
LEMMA BooksLeft ==
    ASSUME UNCHANGED <<rows, plan>>
    PROVE  /\ Balance' = Balance /\ SumOf(rows)' = SumOf(rows) /\ OneRow' = OneRow
           /\ \A u : RowsOf(u)' = RowsOf(u)
BY DEF Balance, OneRow, RowsOf

\* The books after a step of the one request.
LEMMA BooksAfter ==
    ASSUME OneRow',
           \/ requests' = {} /\ Balance' = 0
           \/ \E s : requests' = {s} /\ Books(s)'
    PROVE  BooksInv'
<1>1. CASE requests' = {} /\ Balance' = 0
  BY <1>1 DEF BooksInv
<1>2. CASE \E s : requests' = {s} /\ Books(s)'
  <2>1. PICK s : requests' = {s} /\ Books(s)'
    BY <1>2
  <2>2. requests' # {} /\ \A r \in requests' : r = s
    BY <2>1
  <2>3. \A r \in requests' : Books(r)'
    BY <2>1, <2>2
  <2> QED BY <2>2, <2>3 DEF BooksInv
<1> QED BY <1>1, <1>2

LEMMA BeginningsBalance ==
    ASSUME alone, excused = {}, TypeInv, BooksInv
    PROVE  /\ \A u, s : inviteUserToWorkspace(u, s) => BooksInv'
           /\ \A i \in invites : acceptWorkspaceInvite(i) => BooksInv'
           /\ \A m \in rows, s \in Int : changeUserAssignedSpace(m, s) => BooksInv'
           /\ \A m \in rows : uploadFile(m) \/ getUserUsageInWorkspace(m) => BooksInv'
           /\ \A u : leaveWorkspace(u) => BooksInv'
           /\ \A p \in Plan : updateWorkspaceLimit(p) => BooksInv'
<1>0. OneRow /\ (requests = {} => Balance = 0) /\ \A m \in rows : m \in Row
  BY DEF BooksInv, TypeInv, RowsFine
<1>1. ASSUME NEW u, NEW s, inviteUserToWorkspace(u, s) PROVE BooksInv'
  <2>1. Start(Fresh("invite", "createInvite", u, s, {}, {}, plan)) /\ UNCHANGED <<rows, plan>>
    BY <1>1 DEF inviteUserToWorkspace, Req, Fresh
  <2>2. PICK q : requests = {} /\ requests' = {q} /\ q.op = "invite"
    BY <2>1, BeginsAlone
  <2>3. OneRow' /\ Balance' = 0
    BY <1>0, <2>1, <2>2, BooksLeft
  <2>4. Books(q)'
    BY <2>2, <2>3 DEF Books, InviteBooks
  <2> QED BY <2>2, <2>3, <2>4, BooksAfter
<1>2. ASSUME NEW i \in invites, acceptWorkspaceInvite(i) PROVE BooksInv'
  <2>1. /\ Start(Fresh("accept", "insert", i.user, i.space, {i}, {}, plan)) /\ UNCHANGED <<rows, plan>>
        /\ RowsOf(i.user) = {}
    BY <1>2 DEF acceptWorkspaceInvite, Req, Fresh
  <2>2. PICK q : requests = {} /\ requests' = {q} /\ q.op = "accept" /\ q.step = "insert" /\ q.user = i.user
    BY <2>1, BeginsAlone
  <2>3. OneRow' /\ Balance' = 0 /\ RowsOf(i.user)' = {}
    BY <1>0, <2>1, <2>2, BooksLeft
  <2>4. AcceptBooks(q)'
    BY <2>2, <2>3 DEF AcceptBooks
  <2>5. Books(q)'
    BY <2>2, <2>4 DEF Books
  <2> QED BY <2>2, <2>3, <2>5, BooksAfter
<1>3. ASSUME NEW m \in rows, NEW s \in Int, changeUserAssignedSpace(m, s) PROVE BooksInv'
  <2>1. PICK w : w = [m EXCEPT !.limit = s]
    OBVIOUS
  <2>2. Start(Fresh("change", "readOwner", m.user, s - m.limit, {}, {w}, plan)) /\ UNCHANGED <<rows, plan>>
    <3>1. PICK r : r = [Req("change", "readOwner", m.user, s - m.limit) EXCEPT !.writes = {w}]
      OBVIOUS
    <3>2. Start(r) /\ UNCHANGED <<rows, plan>>
      BY <1>3, <2>1, <3>1 DEF changeUserAssignedSpace
    <3>3. r = Fresh("change", "readOwner", m.user, s - m.limit, {}, {w}, plan)
      BY <3>1 DEF Req, Fresh
    <3> QED BY <3>2, <3>3
  <2>3. PICK q : /\ requests = {} /\ requests' = {q} /\ q.op = "change" /\ q.step = "readOwner"
                 /\ q.amount = s - m.limit /\ q.writes = {w}
    BY <2>2, BeginsAlone
  <2>4. OneRow' /\ Balance' = 0 /\ m \in rows'
    BY <1>0, <2>2, <2>3, BooksLeft
  <2>5. SameId(m, w) /\ w.limit - m.limit = s - m.limit
    BY <1>0, <2>1 DEF SameId, Row
  <2>6. ChangeBooks(q)'
    BY <2>3, <2>4, <2>5 DEF ChangeBooks
  <2>7. Books(q)'
    BY <2>3, <2>6 DEF Books
  <2> QED BY <2>3, <2>4, <2>7, BooksAfter
<1>4. ASSUME NEW m \in rows, uploadFile(m) PROVE BooksInv'
  <2>1. PICK w : w = addDriveUsage(m)
    OBVIOUS
  <2>2. Start(Fresh("upload", "createFile", m.user, 0, {}, {w}, plan)) /\ UNCHANGED <<rows, plan>>
    BY <1>4, <2>1 DEF uploadFile, Req, Fresh
  <2>3. PICK q : requests = {} /\ requests' = {q} /\ q.op = "upload" /\ q.writes = {w}
    BY <2>2, BeginsAlone
  <2>4. OneRow' /\ Balance' = 0 /\ m \in rows'
    BY <1>0, <2>2, <2>3, BooksLeft
  <2>5. SameId(m, w) /\ m.limit = w.limit
    BY <1>0, <2>1 DEF SameId, Row, addDriveUsage
  <2>6. UploadBooks(q)'
    BY <2>3, <2>4, <2>5 DEF UploadBooks
  <2>7. Books(q)'
    BY <2>3, <2>6 DEF Books
  <2> QED BY <2>3, <2>4, <2>7, BooksAfter
<1>5. ASSUME NEW m \in rows, getUserUsageInWorkspace(m) PROVE BooksInv'
  <2>1. PICK w : w = {[m EXCEPT !.drive = usage[m.user]]}
    OBVIOUS
  <2>2. Start(Fresh("sync", "writeUsage", m.user, 0, {}, w, plan)) /\ UNCHANGED <<rows, plan>>
    <3>1. PICK r : r = [Req("sync", "writeUsage", m.user, 0) EXCEPT !.writes = w]
      OBVIOUS
    <3>2. Start(r) /\ UNCHANGED <<rows, plan>>
      BY <1>5, <2>1, <3>1 DEF getUserUsageInWorkspace
    <3>3. r = Fresh("sync", "writeUsage", m.user, 0, {}, w, plan)
      BY <3>1 DEF Req, Fresh
    <3> QED BY <3>2, <3>3
  <2>3. PICK q : requests = {} /\ requests' = {q} /\ q.op = "sync"
    BY <2>2, BeginsAlone
  <2>4. OneRow' /\ Balance' = 0
    BY <1>0, <2>2, <2>3, BooksLeft
  <2>5. Books(q)'
    BY <2>3, <2>4 DEF Books, InviteBooks
  <2> QED BY <2>3, <2>4, <2>5, BooksAfter
<1>6. ASSUME NEW u, leaveWorkspace(u) PROVE BooksInv'
  <2>1. Start(Fresh("leave", "transfer", u, 0, {}, {}, plan)) /\ UNCHANGED <<rows, plan>> /\ u # Owner
    BY <1>6 DEF leaveWorkspace, Req, Fresh
  <2>2. PICK q : requests = {} /\ requests' = {q} /\ q.op = "leave" /\ q.step = "transfer" /\ q.user = u
    BY <2>1, BeginsAlone
  <2>3. OneRow' /\ Balance' = 0
    BY <1>0, <2>1, <2>2, BooksLeft
  <2>4. LeaveBooks(q)'
    BY <2>1, <2>2, <2>3 DEF LeaveBooks
  <2>5. Books(q)'
    BY <2>2, <2>4 DEF Books
  <2> QED BY <2>2, <2>3, <2>5, BooksAfter
<1>7. ASSUME NEW p \in Plan, updateWorkspaceLimit(p) PROVE BooksInv'
  <2>1. PICK d, a : d = spaceDifference(p) /\ a = unusedSpace(p)
    OBVIOUS
  <2>2. PICK f : f = [m \in rows |-> [m EXCEPT !.limit = @ + d]]
    OBVIOUS
  <2>3. PICK w : w = {f[m] : m \in rows}
    OBVIOUS
  <2>4. w = {[m EXCEPT !.limit = @ + spaceDifference(p)] : m \in rows}
    BY <2>1, <2>2, <2>3
  <2>5. Start(Fresh("plan", "writeRows", Owner, a, {}, w, p)) /\ UNCHANGED <<rows, plan>>
    <3>1. PICK r : r = [Req("plan", "writeRows", Owner, a) EXCEPT !.writes = w, !.target = p]
      OBVIOUS
    <3>2. Start(r) /\ UNCHANGED <<rows, plan>>
      BY <1>7, <2>1, <2>4, <3>1 DEF updateWorkspaceLimit
    <3>3. r = Fresh("plan", "writeRows", Owner, a, {}, w, p)
      BY <3>1 DEF Req, Fresh
    <3> QED BY <3>2, <3>3
  <2>6. PICK q : /\ requests = {} /\ requests' = {q} /\ q.op = "plan" /\ q.step = "writeRows"
                 /\ q.amount = a /\ q.writes = w /\ q.target = p
    BY <2>5, BeginsAlone
  <2>7. OneRow' /\ Balance' = 0 /\ Balance = 0 /\ SumOf(rows)' = SumOf(rows)
    BY <1>0, <2>5, <2>6, BooksLeft
  <2>8. d \in Int /\ Cardinality(rows) \in Nat
    <3>1. spaceDifference(p) \in Int
      BY DifferenceIsInt DEF TypeInv
    <3> QED BY <2>1, <3>1, FS_CardinalityType DEF TypeInv, RowsFine
  <2>9. \A m \in rows : f[m].id = m.id /\ f[m].user = m.user /\ f[m].limit = m.limit + d
    BY <1>0, <2>2 DEF Row
  <2>10. Cardinality(w) = Cardinality(rows)
    <3>1. \A m, n \in rows : f[m] = f[n] => m = n
      BY <1>0, <2>9 DEF OneRow
    <3>2. f \in Surjection(rows, w) /\ f \in Injection(rows, w)
      BY <2>2, <2>3, <3>1 DEF Surjection, Injection, IsInjective
    <3> QED BY <3>2, FS_Surjection DEF TypeInv, RowsFine
  <2>11. \A x, y \in w : SameId(x, y) => x = y
    BY <1>0, <2>3, <2>9 DEF OneRow, SameId
  <2>12. \A x \in w : \E m \in rows' : SameId(m, x) /\ x.limit = m.limit + d
    BY <2>3, <2>5, <2>9 DEF SameId
  <2>13. SumOf(rows)' + d * Cardinality(w) + a = p.limit
    <3>1. PICK x \in Int : x = d * Cardinality(rows)
      BY <2>8
    <3>2. a = p.limit - plan.limit - x
      BY <2>1, <3>1 DEF unusedSpace
    <3>3. SumOf(rows) = plan.limit
      <4>1. SumOf(rows) \in Int /\ plan.limit \in Int
        BY RowsHaveLimits DEF TypeInv, Plan
      <4> QED BY <2>7, <4>1 DEF Balance
    <3>4. p.limit \in Int /\ plan.limit \in Int
      BY DEF TypeInv, Plan
    <3> QED BY <2>7, <2>10, <3>1, <3>2, <3>3, <3>4
  <2>14. spaceDifference(p)' = d
    BY <2>1, <2>5 DEF spaceDifference
  <2>15. PlanBooks(q)'
    BY <2>6, <2>11, <2>12, <2>13, <2>14 DEF PlanBooks
  <2>16. Books(q)'
    BY <2>6, <2>15 DEF Books
  <2> QED BY <2>6, <2>7, <2>16, BooksAfter
<1> QED BY <1>1, <1>2, <1>3, <1>4, <1>5, <1>6, <1>7

\* A request that goes on, in its columns.
LEMMA GoesAlone ==
    ASSUME alone, TypeInv, SeatsInv, NEW r \in requests
    PROVE  /\ requests = {r} /\ RequestFine(r) /\ r \in Request
           /\ Finish(r) => requests' = {}
BY OnlyRequest DEF TypeInv, RequestsFine, RequestFine

LEMMA GotoAlone ==
    ASSUME alone, TypeInv, SeatsInv, NEW r \in requests, NEW step, Goto(r, step)
    PROVE  \E s : /\ requests' = {s} /\ s.op = r.op /\ s.step = step /\ s.user = r.user
                  /\ s.amount = r.amount /\ s.writes = r.writes /\ s.target = r.target
<1>1. PICK s : s = [r EXCEPT !.step = step]
  OBVIOUS
<1>2. /\ s.op = r.op /\ s.step = step /\ s.user = r.user
      /\ s.amount = r.amount /\ s.writes = r.writes /\ s.target = r.target
  BY <1>1, GoesAlone DEF Request
<1>3. requests' = {s}
  BY <1>1, OnlyRequest DEF Goto
<1> QED BY <1>2, <1>3

\* Invitations and uses of files leave the limits of rows as they are.
LEMMA UsesBalance ==
    ASSUME alone, excused = {}, TypeInv, SeatsInv, BooksInv, NEW r \in requests,
           \/ createInvite(r) \/ sendInvitation(r) \/ createFile(r) \/ updateDriveUsage(r)
    PROVE  BooksInv'
<1>0. OneRow /\ Books(r) /\ r \in Request /\ requests = {r} /\ RequestFine(r)
  BY GoesAlone DEF BooksInv, TypeInv, RequestsFine
<1>1. CASE createInvite(r)
  <2>1. UNCHANGED <<rows, plan>> /\ r.op = "invite"
    BY <1>0, <1>1, GoesAlone, OpOfStep DEF createInvite
  <2>2. PICK i : Continue(r, [r EXCEPT !.step = "mail", !.invite = {i}])
    BY <1>1 DEF createInvite
  <2>3. PICK s : s = [r EXCEPT !.step = "mail", !.invite = {i}]
    OBVIOUS
  <2>4. requests' = {s} /\ s.op = "invite"
    BY <1>0, <2>1, <2>2, <2>3, OnlyRequest DEF Request
  <2>5. OneRow' /\ Balance' = 0
    BY <1>0, <2>1, BooksLeft DEF Books, InviteBooks
  <2>6. Books(s)'
    BY <2>4, <2>5 DEF Books, InviteBooks
  <2> QED BY <2>4, <2>5, <2>6, BooksAfter
<1>2. CASE sendInvitation(r)
  <2>1. UNCHANGED <<rows, plan>> /\ r.op = "invite" /\ requests' = {}
    BY <1>0, <1>2, GoesAlone, OpOfStep DEF sendInvitation
  <2>2. OneRow' /\ Balance' = 0
    BY <1>0, <2>1, BooksLeft DEF Books, InviteBooks
  <2> QED BY <2>1, <2>2, BooksAfter
<1>3. CASE createFile(r)
  <2>1. UNCHANGED <<rows, plan>> /\ r.op = "upload" /\ Goto(r, "writeRows")
    BY <1>0, <1>3, GoesAlone, OpOfStep DEF createFile
  <2>2. PICK s : requests' = {s} /\ s.op = "upload" /\ s.writes = r.writes
    BY <2>1, GotoAlone
  <2>3. OneRow' /\ Balance' = Balance /\ UploadBooks(r)
    BY <1>0, <2>1, BooksLeft DEF Books
  <2>4. UploadBooks(s)'
    BY <2>1, <2>2, <2>3 DEF UploadBooks
  <2>5. Books(s)'
    BY <2>2, <2>4 DEF Books
  <2> QED BY <2>2, <2>3, <2>5, BooksAfter
<1>4. CASE updateDriveUsage(r)
  <2>1. PICK w \in r.writes : rows' = {IF SameId(m, w) THEN [m EXCEPT !.drive = w.drive] ELSE m : m \in rows}
    BY <1>4 DEF updateDriveUsage
  <2>2. UNCHANGED plan /\ r.op = "sync" /\ requests' = {} /\ w \in Row
    BY <1>0, <1>4, GoesAlone, OpOfStep DEF updateDriveUsage, Request
  <2>3. Balance = 0 /\ SumOf(rows) \in Int
    BY <1>0, <2>2, RowsHaveLimits DEF Books, InviteBooks, TypeInv
  <2>4. CASE \E m \in rows : SameId(m, w)
    <3>1. PICK m \in rows : SameId(m, w)
      BY <2>4
    <3>2. PICK n : n = [m EXCEPT !.drive = w.drive]
      OBVIOUS
    <3>3. n \in Row /\ n.user = m.user /\ n.limit = m.limit /\ m.limit \in Int
      BY <2>2, <3>2 DEF TypeInv, RowsFine, Row
    <3>4. \A k \in rows : SameId(k, w) => k = m
      BY <3>1 DEF TypeInv, RowsFine, SameId
    <3>5. rows' = (rows \ {m}) \cup {n}
      BY <2>1, <3>1, <3>2, <3>4
    <3>6. OneRow' /\ SumOf(rows)' = SumOf(rows) - m.limit + n.limit
      BY <1>0, <3>3, <3>5, RowReplaced DEF TypeInv
    <3>7. Balance' = 0
      BY <2>2, <2>3, <3>3, <3>6 DEF Balance
    <3> QED BY <2>2, <3>6, <3>7, BooksAfter
  <2>5. CASE ~ \E m \in rows : SameId(m, w)
    <3>1. UNCHANGED <<rows, plan>>
      <4>1. \A m \in rows : (IF SameId(m, w) THEN [m EXCEPT !.drive = w.drive] ELSE m) = m
        BY <2>5
      <4> QED BY <2>1, <2>2, <4>1
    <3>2. OneRow' /\ Balance' = 0
      BY <1>0, <2>3, <3>1, BooksLeft
    <3> QED BY <2>2, <3>2, BooksAfter
  <2> QED BY <2>4, <2>5
<1> QED BY <1>1, <1>2, <1>3, <1>4

\* A member joins with the space of the invitation, which the owner is to give;
\* or the row goes.
LEMMA JoiningBalances ==
    ASSUME alone, excused = {}, TypeInv, SeatsInv, BooksInv, NEW r \in requests,
           \/ addUserToWorkspace(r) \/ addUserToTeam(r) \/ deleteInvite(r)
           \/ rollbackUserAddedToWorkspace(r)
    PROVE  BooksInv'
<1>0. /\ OneRow /\ RequestFine(r) /\ r \in Request /\ requests = {r}
      /\ r.op = "accept" /\ AcceptBooks(r) /\ SumOf(rows) \in Int /\ plan.limit \in Int
  <2>1. OneRow /\ Books(r) /\ r \in Request /\ requests = {r} /\ RequestFine(r)
    BY GoesAlone DEF BooksInv
  <2>2. r.op = "accept"
    BY <2>1, OpOfStep DEF addUserToWorkspace, addUserToTeam, deleteInvite, rollbackUserAddedToWorkspace
  <2> QED BY <2>1, <2>2, RowsHaveLimits DEF Books, TypeInv, Plan
<1>1. ASSUME UNCHANGED <<rows, plan>>, NEW step, Goto(r, step),
             r.step \in {"join", "uninvite"}, step \in {"uninvite", "readOwner"}
      PROVE  BooksInv'
  <2>1. PICK s : /\ requests' = {s} /\ s.op = "accept" /\ s.step = step /\ s.user = r.user
                 /\ s.amount = r.amount
    BY <1>0, <1>1, GotoAlone
  <2>2. OneRow' /\ Balance' = Balance /\ \A u : RowsOf(u)' = RowsOf(u)
    BY <1>0, <1>1, BooksLeft
  <2>3. PICK m \in RowsOf(r.user) : m.limit = r.amount /\ Balance = r.amount /\ r.user # Owner
    BY <1>0, <1>1 DEF AcceptBooks
  <2>4. AcceptBooks(s)'
    BY <1>1, <2>1, <2>2, <2>3 DEF AcceptBooks
  <2>5. Books(s)'
    BY <2>1, <2>4 DEF Books
  <2> QED BY <2>1, <2>2, <2>5, BooksAfter
<1>2. CASE addUserToWorkspace(r)
  <2>1. PICK n : /\ n = [id |-> FreshId(r.user), user |-> r.user, limit |-> r.amount, drive |-> 0]
                 /\ rows' = rows \cup {n} /\ Goto(r, "join")
    BY <1>2 DEF addUserToWorkspace
  <2>2. n \in Row /\ n.user = r.user /\ n.limit = r.amount /\ r.amount \in Int
    <3>1. FreshId(r.user) \in Nat /\ r.user \in Users /\ r.amount \in Int
      BY <1>0, FreshIdIsNew DEF Request
    <3> QED BY <2>1, <3>1 DEF Row
  <2>3. RowsOf(r.user) = {} /\ Balance = 0 /\ r.user # Owner /\ UNCHANGED plan
    BY <1>0, <1>2 DEF addUserToWorkspace, AcceptBooks, OneRow
  <2>4. SumOf(rows)' = SumOf(rows) + n.limit /\ OneRow' /\ n \in RowsOf(r.user)'
    BY <1>0, <2>1, <2>2, <2>3, RowNew DEF TypeInv
  <2>5. Balance' = r.amount
    BY <1>0, <2>2, <2>3, <2>4 DEF Balance
  <2>6. PICK s : /\ requests' = {s} /\ s.op = "accept" /\ s.step = "join" /\ s.user = r.user
                 /\ s.amount = r.amount
    BY <1>0, <2>1, GotoAlone
  <2>7. AcceptBooks(s)'
    BY <2>2, <2>3, <2>4, <2>5, <2>6 DEF AcceptBooks
  <2>8. Books(s)'
    BY <2>6, <2>7 DEF Books
  <2> QED BY <2>4, <2>6, <2>8, BooksAfter
<1>3. CASE addUserToTeam(r)
  BY <1>1, <1>3 DEF addUserToTeam
<1>4. CASE deleteInvite(r)
  BY <1>1, <1>4 DEF deleteInvite
<1>5. CASE rollbackUserAddedToWorkspace(r)
  <2>1. /\ r.step = "rollback" /\ rows' = rows \ RowsOf(r.user) /\ requests' = {} /\ UNCHANGED plan
        /\ r.user # Owner
    BY <1>0, <1>5, GoesAlone DEF rollbackUserAddedToWorkspace, AcceptBooks
  <2>2. CASE RowsOf(r.user) = {}
    <3>1. UNCHANGED <<rows, plan>> /\ Balance = 0
      BY <1>0, <2>1, <2>2 DEF AcceptBooks
    <3>2. OneRow' /\ Balance' = 0
      BY <1>0, <3>1, BooksLeft
    <3> QED BY <2>1, <3>2, BooksAfter
  <2>3. CASE RowsOf(r.user) # {}
    <3>1. PICK m \in rows : m.user = r.user /\ Balance = m.limit
      BY <1>0, <2>1, <2>3 DEF AcceptBooks, RowsOf
    <3>2. SumOf(rows)' = SumOf(rows) - m.limit /\ OneRow'
      BY <1>0, <2>1, <3>1, RowGone DEF TypeInv
    <3>3. Balance' = 0
      BY <1>0, <2>1, <3>1, <3>2 DEF Balance
    <3> QED BY <2>1, <3>2, <3>3, BooksAfter
  <2> QED BY <2>2, <2>3
<1> QED BY <1>2, <1>3, <1>4, <1>5

\* The space an operation moves becomes the owner's new limit; or the operation
\* ends here.
LEMMA AdjustBalances ==
    ASSUME alone, excused = {}, TypeInv, SeatsInv, BooksInv, NEW r \in requests, adjustOwnerStorage(r)
    PROVE  BooksInv'
<1>0. /\ OneRow /\ RequestFine(r) /\ r \in Request /\ Books(r)
      /\ r.op \in {"accept", "change", "plan", "leave"} /\ r.step = "readOwner" /\ r.amount \in Int
      /\ UNCHANGED <<rows, plan>>
      /\ OneRow' /\ Balance' = Balance /\ \A u : RowsOf(u)' = RowsOf(u)
  <2>1. OneRow /\ Books(r) /\ r \in Request /\ RequestFine(r)
    BY GoesAlone DEF BooksInv
  <2>2. r.step = "readOwner" /\ UNCHANGED <<rows, plan>>
    BY DEF adjustOwnerStorage
  <2>3. OneRow' /\ Balance' = Balance /\ \A u : RowsOf(u)' = RowsOf(u)
    BY <2>1, <2>2, BooksLeft
  <2>4. r.op \in {"accept", "change", "plan", "leave"} /\ r.amount \in Int
    BY <2>1, <2>2, OpOfStep DEF Request
  <2> QED BY <2>1, <2>2, <2>3, <2>4
<1>1. Balance \in Int /\ \A m \in rows : m \in Row /\ m.limit \in Int
  BY RowsHaveLimits DEF TypeInv, RowsFine, Balance, Plan, Row
<1>2. PICK o \in RowsOf(Owner) :
         \/ Continue(r, [r EXCEPT !.step = "writeOwner", !.amount = newOwnerLimit(r, o)])
         \/ (IF r.op = "accept" THEN Goto(r, "rollback") ELSE Finish(r)) /\ (r.op = "plan" => excused' # {})
  BY DEF adjustOwnerStorage, Excuse
<1>3. o \in rows /\ o.limit \in Int /\ \A n \in RowsOf(Owner) : n = o
  BY <1>0, <1>1, <1>2 DEF OneRow, RowsOf
<1>4. CASE Continue(r, [r EXCEPT !.step = "writeOwner", !.amount = newOwnerLimit(r, o)])
  <2>1. PICK a : a = newOwnerLimit(r, o)
    OBVIOUS
  <2>2. PICK s : /\ requests' = {s} /\ s.op = r.op /\ s.step = "writeOwner" /\ s.user = r.user
                 /\ s.amount = a /\ s.writes = r.writes
    <3>1. PICK s : s = [r EXCEPT !.step = "writeOwner", !.amount = a]
      OBVIOUS
    <3>2. requests' = {s}
      BY <1>4, <2>1, <3>1, OnlyRequest
    <3>3. /\ s.op = r.op /\ s.step = "writeOwner" /\ s.user = r.user
          /\ s.amount = a /\ s.writes = r.writes
      BY <1>0, <3>1 DEF Request
    <3> QED BY <3>2, <3>3
  <2>3. CASE r.op = "accept"
    <3>1. r.user # Owner /\ Balance = r.amount /\ a = o.limit - r.amount
      BY <1>0, <2>1, <2>3 DEF Books, AcceptBooks, newOwnerLimit
    <3>2. Balance = o.limit - a
      BY <1>0, <1>3, <3>1
    <3>5. \E m \in RowsOf(r.user) : Balance = m.limit
      BY <1>0, <2>3 DEF Books, AcceptBooks
    <3>3. AcceptBooks(s)'
      BY <1>0, <1>3, <2>2, <2>3, <3>1, <3>2, <3>5 DEF AcceptBooks
    <3>4. Books(s)'
      BY <2>2, <2>3, <3>3 DEF Books
    <3> QED BY <1>0, <2>2, <3>4, BooksAfter
  <2>4. CASE r.op = "change"
    <3>1. PICK w \in r.writes, m \in rows :
             r.writes = {w} /\ SameId(m, w) /\ Balance = 0 /\ w.limit - m.limit = r.amount
      BY <1>0, <2>4 DEF Books, ChangeBooks
    <3>2. a = o.limit - r.amount
      BY <2>1, <2>4 DEF newOwnerLimit
    <3>3. Balance + (a - o.limit) + (w.limit - m.limit) = 0
      BY <1>0, <1>3, <3>1, <3>2
    <3>4. ChangeBooks(s)'
      BY <1>0, <1>3, <2>2, <3>1, <3>3 DEF ChangeBooks
    <3>5. Books(s)'
      BY <2>2, <2>4, <3>4 DEF Books
    <3> QED BY <1>0, <2>2, <3>5, BooksAfter
  <2>5. CASE r.op = "plan"
    <3>1. Balance + r.amount = 0 /\ a = o.limit + r.amount
      BY <1>0, <2>1, <2>5 DEF Books, PlanBooks, newOwnerLimit
    <3>2. Balance = o.limit - a
      BY <1>0, <1>1, <1>3, <3>1
    <3>3. PlanBooks(s)'
      BY <1>0, <1>3, <2>2, <3>2 DEF PlanBooks
    <3>4. Books(s)'
      BY <2>2, <2>5, <3>3 DEF Books
    <3> QED BY <1>0, <2>2, <3>4, BooksAfter
  <2>6. CASE r.op = "leave"
    <3>1. PICK m \in RowsOf(r.user) : m.limit = r.amount /\ r.user # Owner /\ Balance = 0
      BY <1>0, <2>6 DEF Books, LeaveBooks
    <3>2. a = o.limit + m.limit
      BY <2>1, <2>6, <3>1 DEF newOwnerLimit
    <3>3. LeaveBooks(s)'
      BY <1>0, <1>3, <2>2, <3>1, <3>2 DEF LeaveBooks
    <3>4. Books(s)'
      BY <2>2, <2>6, <3>3 DEF Books
    <3> QED BY <1>0, <2>2, <3>4, BooksAfter
  <2> QED BY <1>0, <2>3, <2>4, <2>5, <2>6
<1>5. CASE (IF r.op = "accept" THEN Goto(r, "rollback") ELSE Finish(r)) /\ (r.op = "plan" => excused' # {})
  <2>1. CASE r.op = "accept"
    <3>1. PICK s : requests' = {s} /\ s.op = "accept" /\ s.step = "rollback" /\ s.user = r.user
      BY <1>5, <2>1, GotoAlone
    <3>2. PICK m \in RowsOf(r.user) : m.limit = r.amount /\ r.user # Owner /\ Balance = r.amount
      BY <1>0, <2>1 DEF Books, AcceptBooks
    <3>3. \A n \in RowsOf(r.user) : n = m
      BY <1>0, <3>2 DEF OneRow, RowsOf
    <3>4. AcceptBooks(s)'
      BY <1>0, <3>1, <3>2, <3>3 DEF AcceptBooks
    <3>5. Books(s)'
      BY <3>1, <3>4 DEF Books
    <3> QED BY <1>0, <3>1, <3>5, BooksAfter
  <2>2. CASE r.op = "plan"
    BY <1>5, <2>2 DEF BooksInv
  <2>3. CASE r.op \in {"change", "leave"}
    <3>1. requests' = {}
      BY <1>5, <2>3, GoesAlone
    <3>2. Balance = 0
      BY <1>0, <2>3 DEF Books, ChangeBooks, LeaveBooks
    <3> QED BY <1>0, <3>1, <3>2, BooksAfter
  <2> QED BY <1>0, <2>1, <2>2, <2>3
<1> QED BY <1>2, <1>4, <1>5

\* The owner's row takes the new limit.
LEMMA OwnerLimitBalances ==
    ASSUME alone, excused = {}, TypeInv, SeatsInv, BooksInv, NEW r \in requests, updateOwnerLimit(r)
    PROVE  BooksInv'
<1>0. /\ OneRow /\ r \in Request /\ Books(r)
      /\ r.op \in {"accept", "change", "plan", "leave"} /\ r.step = "writeOwner" /\ r.amount \in Int
      /\ UNCHANGED plan
  <2>1. OneRow /\ Books(r) /\ r \in Request /\ RequestFine(r)
    BY GoesAlone DEF BooksInv
  <2>2. r.step = "writeOwner" /\ UNCHANGED plan
    BY DEF updateOwnerLimit
  <2>3. r.op \in {"accept", "change", "plan", "leave"} /\ r.amount \in Int
    BY <2>1, <2>2, OpOfStep DEF Request
  <2> QED BY <2>1, <2>2, <2>3
<1>1. Balance \in Int /\ plan.limit \in Int /\ \A m \in rows : m \in Row /\ m.limit \in Int
  BY RowsHaveLimits DEF TypeInv, RowsFine, Balance, Plan, Row
<1>2. PICK o \in RowsOf(Owner) : TRUE
  BY <1>0 DEF OneRow
<1>3. PICK n : n = [o EXCEPT !.limit = r.amount]
  OBVIOUS
<1>4. o \in rows /\ o.user = Owner /\ n \in Row /\ n.user = Owner /\ n.limit = r.amount /\ o.limit \in Int
  BY <1>0, <1>1, <1>2, <1>3 DEF RowsOf, Row
<1>5. rows' = (rows \ {o}) \cup {n}
  <2>1. rows' = {IF m.user = Owner THEN [m EXCEPT !.limit = r.amount] ELSE m : m \in rows}
    BY DEF updateOwnerLimit
  <2>2. \A m \in rows : m.user = Owner <=> m = o
    BY <1>0, <1>4 DEF OneRow
  <2> QED BY <1>3, <1>4, <2>1, <2>2
<1>6. /\ SumOf(rows)' = SumOf(rows) - o.limit + r.amount
      /\ OneRow' /\ RowsOf(Owner) = {o} /\ RowsOf(Owner)' = {n}
      /\ \A u : u # Owner => RowsOf(u)' = RowsOf(u)
  BY <1>0, <1>4, <1>5, RowReplaced DEF TypeInv
<1>7. Balance' = Balance + (r.amount - o.limit)
  BY <1>0, <1>1, <1>4, <1>6, RowsHaveLimits DEF Balance, TypeInv
<1>8. CASE r.op = "accept"
  <2>1. requests' = {} /\ Balance = o.limit - r.amount
    BY <1>0, <1>2, <1>8, GoesAlone DEF Books, AcceptBooks, updateOwnerLimit
  <2>2. Balance' = 0
    BY <1>0, <1>4, <1>7, <2>1
  <2> QED BY <1>6, <2>1, <2>2, BooksAfter
<1>9. ASSUME r.op # "accept"
      PROVE  \E s : /\ requests' = {s} /\ s.op = r.op /\ s.step = NextStep[r.op] /\ s.user = r.user
                    /\ s.amount = r.amount /\ s.writes = r.writes /\ s.target = r.target
  <2>1. Goto(r, NextStep[r.op])
    BY <1>9 DEF updateOwnerLimit
  <2> QED BY <2>1, GotoAlone
<1>10. CASE r.op = "change"
  <2>1. PICK s : requests' = {s} /\ s.op = "change" /\ s.step = "writeRows" /\ s.writes = r.writes
    BY <1>9, <1>10 DEF NextStep
  <2>2. PICK w \in r.writes, m \in rows :
           /\ r.writes = {w} /\ SameId(m, w)
           /\ w.user # Owner => Balance + (r.amount - o.limit) + (w.limit - m.limit) = 0
    BY <1>0, <1>2, <1>10 DEF Books, ChangeBooks
  <2>3. CASE w.user = Owner
    <3>1. SameId(n, w) /\ n \in rows'
      <4>1. m = o
        BY <1>0, <1>4, <2>2, <2>3 DEF OneRow, SameId
      <4>2. n.id = o.id
        BY <1>1, <1>3, <1>4 DEF Row
      <4> QED BY <1>4, <1>5, <2>2, <4>1, <4>2 DEF SameId
    <3>2. ChangeBooks(s)'
      BY <2>1, <2>2, <2>3, <3>1 DEF ChangeBooks
    <3>3. Books(s)'
      BY <2>1, <3>2 DEF Books
    <3> QED BY <1>6, <2>1, <3>3, BooksAfter
  <2>4. CASE w.user # Owner
    <3>1. m \in rows' /\ Balance' + (w.limit - m.limit) = 0
      BY <1>4, <1>5, <1>7, <2>2, <2>4 DEF SameId
    <3>2. ChangeBooks(s)'
      BY <2>1, <2>2, <3>1 DEF ChangeBooks
    <3>3. Books(s)'
      BY <2>1, <3>2 DEF Books
    <3> QED BY <1>6, <2>1, <3>3, BooksAfter
  <2> QED BY <2>3, <2>4
<1>11. CASE r.op = "plan"
  <2>1. PICK s : requests' = {s} /\ s.op = "plan" /\ s.step = "setSeats"
    BY <1>9, <1>11 DEF NextStep
  <2>2. Balance = o.limit - r.amount
    BY <1>0, <1>2, <1>11 DEF Books, PlanBooks
  <2>3. Balance' = 0
    BY <1>0, <1>4, <1>7, <2>2
  <2>4. PlanBooks(s)'
    BY <2>1, <2>3 DEF PlanBooks
  <2>5. Books(s)'
    BY <2>1, <2>4 DEF Books
  <2> QED BY <1>6, <2>1, <2>5, BooksAfter
<1>12. CASE r.op = "leave"
  <2>1. PICK s : requests' = {s} /\ s.op = "leave" /\ s.step = "deleteRows" /\ s.user = r.user
    BY <1>9, <1>12 DEF NextStep
  <2>2. PICK m \in RowsOf(r.user) : r.amount = o.limit + m.limit /\ r.user # Owner /\ Balance = 0
    BY <1>0, <1>2, <1>12 DEF Books, LeaveBooks
  <2>3. m \in RowsOf(r.user)' /\ m.limit \in Int
    BY <1>1, <1>6, <2>2 DEF RowsOf
  <2>4. Balance' = m.limit
    BY <1>0, <1>4, <1>7, <2>2, <2>3
  <2>5. LeaveBooks(s)'
    BY <2>1, <2>2, <2>3, <2>4 DEF LeaveBooks
  <2>6. Books(s)'
    BY <2>1, <2>5 DEF Books
  <2> QED BY <1>6, <2>1, <2>6, BooksAfter
<1> QED BY <1>0, <1>8, <1>10, <1>11, <1>12

\* A copy takes the place of its row: the space of an assignment or of a new
\* plan, or the limit as it was.
LEMMA CopyBalances ==
    ASSUME alone, excused = {}, TypeInv, SeatsInv, BooksInv, NEW r \in requests, updateWorkspaceUser(r)
    PROVE  BooksInv'
<1>0. /\ OneRow /\ r \in Request /\ Books(r) /\ RequestFine(r)
      /\ r.op \in {"change", "plan", "upload"} /\ r.step = "writeRows" /\ UNCHANGED plan
  <2>1. OneRow /\ Books(r) /\ r \in Request /\ RequestFine(r)
    BY GoesAlone DEF BooksInv
  <2>2. r.step = "writeRows" /\ UNCHANGED plan
    BY DEF updateWorkspaceUser
  <2> QED BY <2>1, <2>2, OpOfStep
<1>1. /\ SumOf(rows) \in Int /\ plan.limit \in Int /\ r.amount \in Int
      /\ \A m \in rows : m \in Row /\ m.limit \in Int
      /\ \A w \in r.writes : w \in Row /\ w.limit \in Int
  BY <1>0, RowsHaveLimits DEF TypeInv, RowsFine, Plan, Row, Request
<1>2. PICK w \in r.writes :
         /\ rows' = {IF SameId(m, w) THEN w ELSE m : m \in rows}
         /\ LET s == [r EXCEPT !.writes = @ \ {w}] IN
               IF s.writes # {} THEN Continue(r, s)
               ELSE IF r.op = "plan" THEN Continue(r, [s EXCEPT !.step = "setStorage"])
               ELSE Finish(r)
         /\ Excuse(r, r.op = "change" /\ w.user = Owner)
  BY DEF updateWorkspaceUser
<1>3. PICK s, t : /\ s = [r EXCEPT !.writes = r.writes \ {w}]
                  /\ t = [s EXCEPT !.step = "setStorage"]
  OBVIOUS
<1>4. /\ s.op = r.op /\ s.step = "writeRows" /\ s.amount = r.amount /\ s.target = r.target
      /\ s.writes = r.writes \ {w}
      /\ t.op = r.op /\ t.step = "setStorage" /\ t.amount = r.amount /\ t.target = r.target
  BY <1>0, <1>3 DEF Request
<1>5. IF s.writes # {} THEN requests' = {s}
      ELSE IF r.op = "plan" THEN requests' = {t}
      ELSE requests' = {}
  <2>1. IF s.writes # {} THEN Continue(r, s)
        ELSE IF r.op = "plan" THEN Continue(r, t)
        ELSE Finish(r)
    BY <1>2, <1>3
  <2> QED BY <2>1, OnlyRequest
<1>6. ASSUME NEW m \in rows, SameId(m, w)
      PROVE  /\ rows' = (rows \ {m}) \cup {w}
             /\ SumOf(rows)' = SumOf(rows) - m.limit + w.limit /\ OneRow'
  <2>1. \A k \in rows : SameId(k, w) => k = m
    BY <1>6 DEF TypeInv, RowsFine, SameId
  <2>2. rows' = (rows \ {m}) \cup {w}
    BY <1>2, <1>6, <2>1
  <2>3. w \in Row /\ w.user = m.user
    BY <1>1, <1>6 DEF SameId
  <2>4. SumOf(rows)' = SumOf(rows) - m.limit + w.limit /\ OneRow'
    BY <1>0, <2>2, <2>3, RowReplaced DEF TypeInv
  <2> QED BY <2>2, <2>4
<1>7. CASE r.op \in {"change", "upload"}
  <2>1. CASE excused' # {}
    BY <2>1 DEF BooksInv
  <2>2. CASE excused' = {}
    <3>1. PICK m \in rows : r.writes = {w} /\ SameId(m, w) /\ Balance + (w.limit - m.limit) = 0
      <4>1. CASE r.op = "change"
        <5>1. w.user # Owner
          BY <1>2, <2>2, <4>1 DEF Excuse
        <5> QED BY <1>0, <4>1, <5>1 DEF Books, ChangeBooks
      <4>2. CASE r.op = "upload"
        <5>1. PICK m \in rows : r.writes = {w} /\ SameId(m, w) /\ m.limit = w.limit /\ Balance = 0
          BY <1>0, <4>2 DEF Books, UploadBooks
        <5> QED BY <1>1, <5>1
      <4> QED BY <1>7, <4>1, <4>2
    <3>2. requests' = {}
      BY <1>4, <1>5, <1>7, <3>1
    <3>3. Balance' = 0 /\ OneRow'
      BY <1>0, <1>1, <1>6, <3>1 DEF Balance
    <3> QED BY <3>2, <3>3, BooksAfter
  <2> QED BY <2>1, <2>2
<1>8. CASE r.op = "plan"
  <2>1. PICK d, c : d = spaceDifference(r.target) /\ c = Cardinality(r.writes)
    OBVIOUS
  <2>2. /\ SumOf(rows) + d * c + r.amount = r.target.limit
        /\ \A x, y \in r.writes : SameId(x, y) => x = y
        /\ \A x \in r.writes : \E m \in rows : SameId(m, x) /\ x.limit = m.limit + d
    BY <1>0, <1>8, <2>1 DEF Books, PlanBooks
  <2>3. d \in Int /\ c \in Nat /\ d * c \in Int /\ r.target.limit \in Int
    <3>1. r.target \in Plan /\ plan \in Plan /\ IsFiniteSet(r.writes)
      BY <1>0 DEF TypeInv, Request, RequestFine
    <3>2. spaceDifference(r.target) \in Int
      BY <3>1, DifferenceIsInt
    <3>3. d \in Int /\ c \in Nat
      BY <2>1, <3>1, <3>2, FS_CardinalityType
    <3> QED BY <3>1, <3>3 DEF Plan
  <2>4. Cardinality(s.writes) = c - 1 /\ c - 1 \in Int
    <3>1. IsFiniteSet(r.writes)
      BY <1>0 DEF RequestFine
    <3>2. Cardinality(r.writes \ {w}) = Cardinality(r.writes) - 1
      BY <1>2, <3>1, FS_RemoveElement
    <3> QED BY <1>4, <2>1, <2>3, <3>2
  <2>5. d * (c - 1) = d * c - d
    BY <2>3
  <2>6. PICK m \in rows : SameId(m, w) /\ w.limit = m.limit + d
    BY <1>2, <2>2
  <2>7. SumOf(rows)' = SumOf(rows) + d /\ OneRow' /\ rows' = (rows \ {m}) \cup {w}
    BY <1>1, <1>6, <2>3, <2>6
  <2>8. SumOf(rows)' + d * (c - 1) + r.amount = r.target.limit
    BY <1>1, <2>2, <2>3, <2>5, <2>7
  <2>9. spaceDifference(r.target)' = d
    BY <1>0, <2>1 DEF spaceDifference
  <2>10. CASE s.writes # {}
    <3>1. \A x \in s.writes : \E n \in rows' : SameId(n, x) /\ x.limit = n.limit + d
      <4> SUFFICES ASSUME NEW x \in s.writes PROVE \E n \in rows' : SameId(n, x) /\ x.limit = n.limit + d
        OBVIOUS
      <4>1. PICK n \in rows : SameId(n, x) /\ x.limit = n.limit + d
        BY <1>4, <2>2
      <4>2. n # m
        BY <1>2, <1>4, <2>2, <2>6, <4>1 DEF SameId
      <4> QED BY <2>7, <4>1, <4>2
    <3>2. PlanBooks(s)'
      BY <1>4, <2>2, <2>4, <2>8, <2>9, <3>1 DEF PlanBooks
    <3>3. Books(s)'
      BY <1>4, <1>8, <3>2 DEF Books
    <3> QED BY <1>5, <2>7, <2>10, <3>3, BooksAfter
  <2>11. CASE s.writes = {}
    <3>1. c - 1 = 0
      BY <2>4, <2>11, FS_EmptySet
    <3>2. SumOf(rows)' + r.amount = r.target.limit
      BY <1>1, <2>3, <2>7, <2>8, <3>1
    <3>3. PlanBooks(t)'
      BY <1>4, <3>2 DEF PlanBooks
    <3>4. Books(t)'
      BY <1>4, <1>8, <3>3 DEF Books
    <3> QED BY <1>5, <1>8, <2>7, <2>11, <3>4, BooksAfter
  <2> QED BY <2>10, <2>11
<1> QED BY <1>0, <1>7, <1>8

\* The network takes the new limit, or the books stay unbalanced.
LEMMA PlanBalances ==
    ASSUME alone, excused = {}, TypeInv, SeatsInv, BooksInv, NEW r \in requests,
           setStorage(r) \/ updateWorkspaceMemberCount(r)
    PROVE  BooksInv'
<1>0. /\ OneRow /\ r \in Request /\ r.op = "plan" /\ PlanBooks(r) /\ UNCHANGED rows /\ OneRow'
      /\ SumOf(rows)' = SumOf(rows)
  <2>1. OneRow /\ Books(r) /\ r \in Request /\ RequestFine(r)
    BY GoesAlone DEF BooksInv
  <2>2. UNCHANGED rows /\ r.step \in {"setStorage", "setSeats"}
    BY DEF setStorage, updateWorkspaceMemberCount
  <2> QED BY <2>1, <2>2, OpOfStep DEF Books, OneRow, RowsOf
<1>1. SumOf(rows) \in Int /\ plan \in Plan /\ r.target.limit \in Int /\ r.amount \in Int
  BY <1>0, RowsHaveLimits DEF TypeInv, Request, Plan
<1>2. CASE setStorage(r)
  <2>1. CASE excused' # {}
    BY <2>1 DEF BooksInv
  <2>2. CASE excused' = {}
    <3>1. plan' = [plan EXCEPT !.limit = r.target.limit] /\ Goto(r, "readOwner")
      BY <1>2, <2>2 DEF setStorage
    <3>2. PICK s : requests' = {s} /\ s.op = "plan" /\ s.step = "readOwner" /\ s.amount = r.amount
      BY <1>0, <3>1, GotoAlone
    <3>3. plan'.limit = r.target.limit
      BY <1>1, <3>1 DEF Plan
    <3>4. SumOf(rows) + r.amount = r.target.limit
      BY <1>0, <1>2 DEF PlanBooks, setStorage
    <3>5. Balance' + r.amount = 0
      BY <1>0, <1>1, <3>3, <3>4 DEF Balance
    <3>6. PlanBooks(s)'
      BY <3>2, <3>5 DEF PlanBooks
    <3>7. Books(s)'
      BY <3>2, <3>6 DEF Books
    <3> QED BY <1>0, <3>2, <3>7, BooksAfter
  <2> QED BY <2>1, <2>2
<1>3. CASE updateWorkspaceMemberCount(r)
  <2>1. requests' = {} /\ r.step = "setSeats" /\ plan' = [plan EXCEPT !.seats = r.target.seats]
    BY <1>3, GoesAlone DEF updateWorkspaceMemberCount
  <2>2. plan'.limit = plan.limit
    BY <1>1, <2>1 DEF Plan
  <2>3. Balance' = 0
    BY <1>0, <2>1, <2>2 DEF PlanBooks, Balance
  <2> QED BY <1>0, <2>1, <2>3, BooksAfter
<1> QED BY <1>2, <1>3

\* A member's space goes back to the owner before the row goes.
LEMMA LeavingBalances ==
    ASSUME alone, excused = {}, TypeInv, SeatsInv, BooksInv, NEW r \in requests,
           \/ transferPersonalItemsToWorkspaceOwner(r) \/ readLeavingMember(r)
           \/ deleteUserFromWorkspace(r)
    PROVE  BooksInv'
<1>0. OneRow /\ r \in Request /\ r.op = "leave" /\ LeaveBooks(r) /\ UNCHANGED plan
  <2>1. OneRow /\ Books(r) /\ r \in Request /\ RequestFine(r)
    BY GoesAlone DEF BooksInv
  <2>2. UNCHANGED plan /\ r.step \in {"transfer", "readMember", "deleteRows"}
    BY DEF transferPersonalItemsToWorkspaceOwner, readLeavingMember, deleteUserFromWorkspace
  <2> QED BY <2>1, <2>2, OpOfStep DEF Books
<1>1. ASSUME UNCHANGED rows, r.step \in {"transfer", "readMember"}
      PROVE  /\ OneRow' /\ Balance' = 0 /\ \A u : RowsOf(u)' = RowsOf(u)
             /\ r.user # Owner
  BY <1>0, <1>1, BooksLeft DEF LeaveBooks
<1>2. CASE transferPersonalItemsToWorkspaceOwner(r)
  <2>1. UNCHANGED rows /\ r.step = "transfer" /\ Goto(r, "readMember")
    BY <1>2 DEF transferPersonalItemsToWorkspaceOwner
  <2>2. PICK s : requests' = {s} /\ s.op = "leave" /\ s.step = "readMember" /\ s.user = r.user
    BY <1>0, <2>1, GotoAlone
  <2>3. LeaveBooks(s)'
    BY <1>1, <2>1, <2>2 DEF LeaveBooks
  <2>4. Books(s)'
    BY <2>2, <2>3 DEF Books
  <2> QED BY <1>1, <2>1, <2>2, <2>4, BooksAfter
<1>3. CASE readLeavingMember(r)
  <2>1. UNCHANGED rows /\ r.step = "readMember"
    BY <1>3 DEF readLeavingMember
  <2>2. CASE Finish(r)
    <3>1. requests' = {}
      BY <2>2, GoesAlone
    <3> QED BY <1>1, <2>1, <3>1, BooksAfter
  <2>3. CASE \E m \in RowsOf(r.user) : Continue(r, [r EXCEPT !.step = "readOwner", !.amount = m.limit])
    <3>1. PICK m \in RowsOf(r.user) : Continue(r, [r EXCEPT !.step = "readOwner", !.amount = m.limit])
      BY <2>3
    <3>2. PICK s : s = [r EXCEPT !.step = "readOwner", !.amount = m.limit]
      OBVIOUS
    <3>3. requests' = {s}
      BY <3>1, <3>2, OnlyRequest
    <3>4. s.op = "leave" /\ s.step = "readOwner" /\ s.user = r.user /\ s.amount = m.limit
      BY <1>0, <3>2 DEF Request
    <3>5. LeaveBooks(s)'
      BY <1>1, <2>1, <3>4 DEF LeaveBooks
    <3>6. Books(s)'
      BY <3>4, <3>5 DEF Books
    <3> QED BY <1>1, <2>1, <3>3, <3>6, BooksAfter
  <2> QED BY <1>3, <2>2, <2>3 DEF readLeavingMember
<1>4. CASE deleteUserFromWorkspace(r)
  <2>1. requests' = {} /\ rows' = rows \ RowsOf(r.user) /\ r.step = "deleteRows"
    BY <1>4, GoesAlone DEF deleteUserFromWorkspace
  <2>2. PICK m \in rows : m.user = r.user /\ Balance = m.limit /\ m.user # Owner
    BY <1>0, <2>1 DEF LeaveBooks, RowsOf
  <2>3. SumOf(rows)' = SumOf(rows) - m.limit /\ OneRow'
    BY <1>0, <2>1, <2>2, RowGone DEF TypeInv
  <2>4. SumOf(rows) \in Int /\ plan.limit \in Int /\ m.limit \in Int
    BY RowsHaveLimits DEF TypeInv, Plan, RowsFine, Row
  <2>5. Balance' = 0
    BY <1>0, <2>2, <2>3, <2>4 DEF Balance
  <2> QED BY <2>1, <2>3, <2>5, BooksAfter
<1> QED BY <1>2, <1>3, <1>4

\* What a request that fails has written so far balances, or is excused.
LEMMA FailuresBalance ==
    ASSUME alone, excused = {}, TypeInv, SeatsInv, BooksInv, NEW r \in requests, fails(r)
    PROVE  BooksInv'
<1>0. /\ OneRow /\ Books(r) /\ r \in Request /\ RequestFine(r) /\ UNCHANGED <<rows, plan>>
      /\ OneRow' /\ Balance' = Balance /\ \A u : RowsOf(u)' = RowsOf(u)
  <2>1. OneRow /\ Books(r) /\ r \in Request /\ RequestFine(r)
    BY GoesAlone DEF BooksInv
  <2>2. UNCHANGED <<rows, plan>>
    BY DEF fails
  <2> QED BY <2>1, <2>2, BooksLeft
<1>1. CASE excused' # {}
  BY <1>1 DEF BooksInv
<1>2. CASE r.op = "accept" /\ r.step # "rollback"
  <2>1. PICK s : requests' = {s} /\ s.op = "accept" /\ s.step = "rollback" /\ s.user = r.user
    BY <1>2, GotoAlone DEF fails
  <2>2. AcceptBooks(r)
    BY <1>0, <1>2 DEF Books
  <2>3. r.step \in StepsOf["accept"]
    BY <1>0, <1>2 DEF RequestFine
  <2>4. CASE r.step = "insert"
    <3>1. AcceptBooks(s)'
      BY <1>0, <2>1, <2>2, <2>4 DEF AcceptBooks, OneRow
    <3>2. Books(s)'
      BY <2>1, <3>1 DEF Books
    <3> QED BY <1>0, <2>1, <3>2, BooksAfter
  <2>5. CASE r.step # "insert"
    <3>1. r.user # Owner /\ \E m \in RowsOf(r.user) : Balance = m.limit
      BY <1>2, <2>2, <2>3, <2>5 DEF AcceptBooks, StepsOf
    <3>2. PICK m \in RowsOf(r.user) : Balance = m.limit
      BY <3>1
    <3>3. \A n \in RowsOf(r.user) : n = m
      BY <1>0, <3>2 DEF OneRow, RowsOf
    <3>4. AcceptBooks(s)'
      BY <1>0, <2>1, <3>1, <3>2, <3>3 DEF AcceptBooks
    <3>5. Books(s)'
      BY <2>1, <3>4 DEF Books
    <3> QED BY <1>0, <2>1, <3>5, BooksAfter
  <2> QED BY <2>4, <2>5
<1>3. CASE ~ (r.op = "accept" /\ r.step # "rollback") /\ excused' = {}
  <2>1. requests' = {} /\ ~ HalfDone(r)
    BY <1>3, GoesAlone DEF fails, Excuse
  <2>2. r.step \in StepsOf[r.op] /\ r.op \in {"invite", "accept", "change", "plan", "upload", "sync", "leave"}
    BY <1>0 DEF RequestFine, Request
  <2>3. Balance = 0
    <3>1. CASE r.op = "accept"
      BY <1>0, <1>3, <2>1, <3>1 DEF Books, AcceptBooks, HalfDone
    <3>2. CASE r.op = "change"
      <4>1. r.step \in {"readOwner", "writeOwner"}
        BY <2>1, <2>2, <3>2 DEF HalfDone, StepsOf
      <4> QED BY <1>0, <3>2, <4>1 DEF Books, ChangeBooks
    <3>3. CASE r.op = "plan"
      BY <1>0, <2>1, <3>3 DEF Books, PlanBooks, HalfDone
    <3>4. CASE r.op = "leave"
      <4>1. r.step \in {"transfer", "readMember", "readOwner", "writeOwner"}
        BY <2>1, <2>2, <3>4 DEF HalfDone, StepsOf
      <4> QED BY <1>0, <3>4, <4>1 DEF Books, LeaveBooks
    <3>5. CASE r.op \in {"invite", "upload", "sync"}
      BY <1>0, <3>5 DEF Books, InviteBooks, UploadBooks
    <3> QED BY <2>2, <3>1, <3>2, <3>3, <3>4, <3>5
  <2> QED BY <1>0, <2>1, <2>3, BooksAfter
<1> QED BY <1>1, <1>2, <1>3

LEMMA BooksStep ==
    ASSUME TypeInv, SeatsInv, BooksInv, [Next]_vars PROVE BooksInv'
<1>1. CASE UNCHANGED vars
  <2>1. Balance' = Balance /\ SumOf(rows)' = SumOf(rows) /\ OneRow' = OneRow /\ \A u : RowsOf(u)' = RowsOf(u)
    BY <1>1, BooksLeft DEF vars
  <2>2. requests' = requests /\ alone' = alone /\ excused' = excused /\ rows' = rows /\ plan' = plan
    BY <1>1 DEF vars
  <2>3. \A r : Books(r)' = Books(r)
    BY <2>1, <2>2 DEF Books, InviteBooks, AcceptBooks, ChangeBooks, PlanBooks, UploadBooks, LeaveBooks,
                      spaceDifference
  <2> QED BY <2>1, <2>2, <2>3 DEF BooksInv
<1>2. CASE Next /\ (~ alone \/ excused # {})
  BY <1>2, ExcusedStays DEF BooksInv
<1>3. ASSUME Next, alone, excused = {} PROVE BooksInv'
  <2>1. RequestStep => BooksInv'
    BY <1>3, UsesBalance, JoiningBalances, AdjustBalances, OwnerLimitBalances, CopyBalances,
       PlanBalances, LeavingBalances, FailuresBalance DEF RequestStep
  <2>2. ASSUME UNCHANGED <<rows, plan, requests>> PROVE BooksInv'
    <3>1. Quiet => requests = {}
      BY <1>3 DEF Quiet
    <3>2. Balance' = Balance /\ SumOf(rows)' = SumOf(rows) /\ OneRow' = OneRow /\ \A u : RowsOf(u)' = RowsOf(u)
      BY <2>2, BooksLeft
    <3>3. \A r : Books(r)' = Books(r)
      BY <2>2, <3>2 DEF Books, InviteBooks, AcceptBooks, ChangeBooks, PlanBooks, UploadBooks, LeaveBooks,
                        spaceDifference
    <3> QED BY <1>3, <2>2, <3>2, <3>3 DEF BooksInv
  <2>3. ASSUME NEW i, removeWorkspaceInvite(i) \/ acceptInviteOfMember(i) PROVE BooksInv'
    BY <2>2, <2>3 DEF removeWorkspaceInvite, acceptInviteOfMember
  <2>4. \A u : deleteFile(u) => BooksInv'
    BY <2>2 DEF deleteFile
  <2>5. Spaces \subseteq Int /\ Plans \subseteq Plan
    BY WorkspaceConstants DEF Plan
  <2> QED BY <1>3, <2>1, <2>3, <2>4, <2>5, BeginningsBalance DEF Next, Step
<1> QED BY <1>1, <1>2, <1>3

\* SpaceAccountedAlone: of requests that run alone none leaves what the members
\* hold different from what the network allows the workspace, whichever of its
\* writes fails, but for the writes that the code does not undo, which are
\* excused; nor space set aside twice.
THEOREM SpaceIsAccounted == Spec => []SpaceAccountedAlone
<1>1. Init => SeatsInv /\ ReserveInv /\ BooksInv
  <2> SUFFICES ASSUME Init PROVE SeatsInv /\ ReserveInv /\ BooksInv
    OBVIOUS
  <2>1. requests = {} /\ invites = {} /\ plan.seats \in SeatNumbers
    BY DEF Init, SeatNumbers
  <2>2. PICK m : m = [id |-> 1, user |-> Owner, limit |-> plan.limit, drive |-> 0]
    OBVIOUS
  <2>3. rows = {m} /\ m.limit = plan.limit /\ m.user = Owner /\ plan.limit \in Int
    BY <2>2, WorkspaceConstants DEF Init
  <2>4. Limits(rows) /\ Limits({}) /\ rows \ {m} = {}
    BY <2>3, FS_Singleton, FS_EmptySet DEF Limits
  <2>5. SumOf(rows) = plan.limit
    <3>1. SumOf(rows) = m.limit + SumOf(rows \ {m})
      BY <2>3, <2>4, SumOfRows
    <3>2. SumOf({}) = 0
      BY <2>4, SumOfRows
    <3>3. PICK x, y : x = SumOf(rows) /\ y = SumOf(rows \ {m})
      OBVIOUS
    <3>4. y = 0
      BY <2>4, <3>2, <3>3
    <3>5. x = m.limit + y
      BY <3>1, <3>3
    <3>6. x = plan.limit
      BY <2>3, <3>4, <3>5
    <3> QED BY <3>3, <3>6
  <2>6. OneRow /\ Balance = 0
    BY <2>3, <2>5 DEF OneRow, RowsOf, Balance
  <2> QED BY <2>1, <2>6 DEF SeatsInv, Inserting, ReserveInv, OnePerUser, BooksInv
<1>2. TypeInv /\ TypeInv' /\ SeatsInv /\ ReserveInv /\ BooksInv /\ [Next]_vars
         => SeatsInv' /\ ReserveInv' /\ BooksInv'
  BY WorkspaceConstants, SeatsStep, ReserveStep, BooksStep
<1>3. TypeInv /\ ReserveInv /\ BooksInv => SpaceAccountedAlone
  <2> SUFFICES ASSUME TypeInv, ReserveInv, BooksInv, alone PROVE SpaceAccounted /\ InvitesReserveOnce
    BY DEF SpaceAccountedAlone
  <2>1. InvitesReserveOnce
    BY DEF ReserveInv, InvitesReserveOnce, Joining, OnePerUser
  <2>2. requests = {} /\ excused = {} => SumOf(rows) = plan.limit
    BY RowsHaveLimits DEF BooksInv, Balance, TypeInv, Plan
  <2>3. SpaceAccounted
    BY <2>2 DEF SpaceAccounted, SumOf
  <2> QED BY <2>1, <2>3
<1> QED BY <1>1, <1>2, <1>3, TypeInvariant, PTL DEF Spec

==============================================================================
