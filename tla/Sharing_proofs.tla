---------------------------- MODULE Sharing_proofs ----------------------------
(***************************************************************************)
(* Proofs about Sharing, for any items, people, limits and requests that   *)
(* race or stop half way, and about SharedNavigation, for any tree, teams  *)
(* and length of the walk.                                                 *)
(*                                                                         *)
(* That nobody is let in uninvited depends on what requests hold: one that *)
(* accepts has read an invite that may be gone by now, and one that signs  *)
(* a guest up holds ids of invites it is going to readdress, which must    *)
(* not have become somebody else's in the meantime.                        *)
(*                                                                         *)
(* Of requests that run alone, what the rows promise between two requests  *)
(* is kept by what each of them knows of the rows at each statement.       *)
(*                                                                         *)
(* That a walk does not leave the shared folder depends on tokens: until a *)
(* folder is moved, a token names the parent that its folder has.          *)
(***************************************************************************)
EXTENDS MCSharing, FiniteSetTheorems, FunctionTheorems, TLAPS

----------------------------------------------------------------------------
(* The strengthened invariant, part by part.                               *)

\* Rows and requests are records of their columns.
IsInvite(v) == v = [id |-> v.id, item |-> v.item, with |-> v.with, role |-> v.role,
                    expires |-> v.expires]

IsSharing(s) == s = [id |-> s.id, item |-> s.item, with |-> s.with, type |-> s.type,
                     role |-> s.role]

IsRequest(w) == w = [nr |-> w.nr, op |-> w.op, by |-> w.by, item |-> w.item, with |-> w.with,
                     id |-> w.id, sharing |-> w.sharing, role |-> w.role, ids |-> w.ids]

\* An invite is recorded in the history under the person it is for.
InviteOffered(v) ==
    /\ IsInvite(v) /\ v.id \in 1 .. MaxRows /\ v.item \in Items /\ v.with \in Uuids
    /\ v.role \in Roles \cup {NoRole}
    /\ <<v.item, Person(v.with)>> \in offered

\* So is a private sharing, and it is for an account, not for a pre-created user.
SharingOffered(s) ==
    /\ IsSharing(s) /\ s.role \in Roles \cup {NoRole}
    /\ s.type = "private" => s.with \in Invitees /\ <<s.item, s.with>> \in offered

\* What a request holds is still true of the history, whatever became of the rows.
RequestOffered(w) ==
    /\ IsRequest(w) /\ w.id \in 0 .. MaxRows /\ w.ids \subseteq 1 .. MaxRows
    /\ w.role \in Roles \cup {NoRole}
    /\ w.op \in {"unpublish", "insertInvite"} => w.item \in Items /\ w.with \in Uuids
    /\ w.op = "insertSharing" => w.with \in Invitees /\ <<w.item, w.with>> \in offered
    /\ w.op \in {"readInvites", "readdress"} => w.with \in Guests
    /\ w.op = "readdress" => \A v \in invites : v.id \in w.ids => Person(v.with) = w.with

OfferedInv ==
    /\ registered \subseteq Invitees /\ Invitees \ Guests \subseteq registered
    /\ \A v \in invites : InviteOffered(v)
    /\ \A v, x \in invites : v.id = x.id => v = x
    /\ \A s \in sharings : SharingOffered(s)
    /\ \A w \in inflight : RequestOffered(w)

----------------------------------------------------------------------------
(* People and ids.                                                         *)

\* The person behind an account is its own, and that behind a pre-created user
\* is the guest.
LEMMA PersonOfUuid ==
    ASSUME SharingConstants, PreCreatedIsNew
    PROVE  /\ \A e \in Invitees : Person(e) = e
           /\ \A e \in Guests : Person(PreCreated(e)) = e /\ PreCreated(e) \notin Invitees
<1>1. ASSUME NEW e \in Invitees PROVE Person(e) = e
  <2>1. \A x \in Invitees : (e = x \/ e = PreCreated(x)) <=> x = e
    BY <1>1 DEF PreCreatedIsNew, PreCreated
  <2> QED BY <2>1 DEF Person
<1>2. ASSUME NEW e \in Guests PROVE Person(PreCreated(e)) = e /\ PreCreated(e) \notin Invitees
  <2>1. e \in Invitees
    BY DEF SharingConstants
  <2>2. \A x \in Invitees : (PreCreated(e) = x \/ PreCreated(e) = PreCreated(x)) <=> x = e
    BY <2>1 DEF PreCreatedIsNew, PreCreated
  <2> QED BY <2>1, <2>2 DEF Person, PreCreatedIsNew, PreCreated
<1> QED BY <1>1, <1>2

\* A new invite's id is in no row and in no request.
LEMMA FreshInviteIsNew ==
    ASSUME SharingConstants, OfferedInv
    PROVE  /\ FreshInvite \in 1 .. MaxRows + 1
           /\ \A v \in invites : v.id # FreshInvite
           /\ \A w \in inflight : FreshInvite \notin w.ids
<1> DEFINE used == {v.id : v \in invites} \cup {w.id : w \in inflight}
                     \cup UNION {w.ids : w \in inflight}
<1>1. MaxRows + 1 \in 1 .. MaxRows + 1 /\ MaxRows + 1 \notin used
  <2>1. MaxRows \in Nat
    BY DEF SharingConstants
  <2>2. /\ \A v \in invites : v.id \in 1 .. MaxRows
        /\ \A w \in inflight : w.id \in 0 .. MaxRows /\ w.ids \subseteq 1 .. MaxRows
    BY DEF OfferedInv, InviteOffered, RequestOffered
  <2> QED BY <2>1, <2>2
<1>2. FreshInvite \in 1 .. MaxRows + 1 /\ FreshInvite \notin used
  BY <1>1 DEF FreshInvite
<1> QED BY <1>2

----------------------------------------------------------------------------
(* Steps that offer nothing new.                                           *)

\* Rows that go, or lose their role, and requests that hold what is true leave
\* the invariant alone.
LEMMA OfferedKept ==
    ASSUME OfferedInv, registered' \subseteq Invitees, registered \subseteq registered',
           offered \subseteq offered',
           \A v \in invites' : v \in invites,
           \A s \in sharings' : \/ s \in sharings
                                \/ \E x \in sharings, r \in Roles \cup {NoRole} : s = [x EXCEPT !.role = r],
           \A w \in inflight' : w \in inflight \/ RequestOffered(w)'
    PROVE  OfferedInv'
<1>1. \A v \in invites' : InviteOffered(v)'
  BY DEF OfferedInv, InviteOffered
<1>2. \A s \in sharings' : SharingOffered(s)'
  <2> SUFFICES ASSUME NEW s \in sharings' PROVE SharingOffered(s)'
    OBVIOUS
  <2>1. CASE s \in sharings
    BY <2>1 DEF OfferedInv, SharingOffered
  <2>2. ASSUME NEW x \in sharings, NEW r \in Roles \cup {NoRole}, s = [x EXCEPT !.role = r] PROVE SharingOffered(s)'
    <3>1. SharingOffered(x)
      BY DEF OfferedInv
    <3>2. s = [id |-> x.id, item |-> x.item, with |-> x.with, type |-> x.type, role |-> r]
      BY <2>2, <3>1 DEF SharingOffered, IsSharing
    <3> QED BY <3>1, <3>2 DEF SharingOffered, IsSharing
  <2> QED BY <2>1, <2>2
<1>3. \A w \in inflight' : RequestOffered(w)'
  <2> SUFFICES ASSUME NEW w \in inflight PROVE RequestOffered(w)'
    OBVIOUS
  <2> QED BY DEF OfferedInv, RequestOffered
<1> QED BY <1>1, <1>2, <1>3 DEF OfferedInv

\* A request that goes on holds what it held.
LEMMA GoesOnHolds ==
    ASSUME NEW w \in inflight, NEW op, OfferedInv, GoesOn(w, op), offered \subseteq offered',
           op \notin {"unpublish", "insertSharing", "readInvites", "readdress"},
           op = "insertInvite" => w.item \in Items /\ w.with \in Uuids
    PROVE  \A v \in inflight' : v \in inflight \/ RequestOffered(v)'
<1> DEFINE to == [w EXCEPT !.op = op]
<1>1. RequestOffered(w)
  BY DEF OfferedInv
<1>2. to = [nr |-> w.nr, op |-> op, by |-> w.by, item |-> w.item, with |-> w.with,
            id |-> w.id, sharing |-> w.sharing, role |-> w.role, ids |-> w.ids]
  BY <1>1 DEF RequestOffered, IsRequest
<1>3. RequestOffered(to)'
  BY <1>1, <1>2 DEF RequestOffered, IsRequest
<1> HIDE DEF to
<1> QED BY <1>3 DEF GoesOn, Goes, to

----------------------------------------------------------------------------
(* Requests that begin.                                                    *)

\* A request that begins is numbered, and otherwise as it is asked for.
Begins(op, i, u, k, r) ==
    \E n : /\ Quiet /\ inflight' = inflight \cup {n} /\ IsRequest(n)
          /\ n.op = op /\ n.item = i /\ n.with = u /\ n.id = k /\ n.role = r /\ n.ids = {}

LEMMA NumberedIs ==
    ASSUME NEW w, IsRequest(w)
    PROVE  \E k : Numbered(w) = [nr |-> k, op |-> w.op, by |-> w.by, item |-> w.item,
                                 with |-> w.with, id |-> w.id, sharing |-> w.sharing,
                                 role |-> w.role, ids |-> w.ids]
<1>1. \A k : [w EXCEPT !.nr = k] = [nr |-> k, op |-> w.op, by |-> w.by, item |-> w.item,
                                    with |-> w.with, id |-> w.id, sharing |-> w.sharing,
                                    role |-> w.role, ids |-> w.ids]
  BY DEF IsRequest
<1> QED BY <1>1 DEF Numbered

LEMMA BeginBegins ==
    ASSUME NEW w, Begin(w), IsRequest(w), w.ids = {}
    PROVE  Begins(w.op, w.item, w.with, w.id, w.role)
<1>1. PICK k : Numbered(w) = [nr |-> k, op |-> w.op, by |-> w.by, item |-> w.item,
                              with |-> w.with, id |-> w.id, sharing |-> w.sharing,
                              role |-> w.role, ids |-> w.ids]
  BY NumberedIs
<1>2. PICK n : n = Numbered(w)
  OBVIOUS
<1>3. /\ IsRequest(n) /\ n.op = w.op /\ n.item = w.item /\ n.with = w.with /\ n.id = w.id
      /\ n.role = w.role /\ n.ids = {}
  BY <1>1, <1>2 DEF IsRequest
<1>4. Quiet /\ inflight' = inflight \cup {n}
  BY <1>2 DEF Begin
<1> QED BY <1>3, <1>4 DEF Begins

\* A request as handlers write it.
LEMMA Asked ==
    ASSUME NEW w, NEW op, NEW by, NEW i, NEW u, NEW k, NEW s, NEW r, Begin(w),
           w = [nr |-> 0, op |-> op, by |-> by, item |-> i, with |-> u, id |-> k, sharing |-> s,
                role |-> r, ids |-> {}]
    PROVE  Begins(op, i, u, k, r)
<1>1. /\ IsRequest(w) /\ w.op = op /\ w.item = i /\ w.with = u /\ w.id = k /\ w.role = r
      /\ w.ids = {}
  BY DEF IsRequest
<1> QED BY <1>1, BeginBegins

\* What each handler begins with.
LEMMA HandlersBegin ==
    ASSUME NEW u, NEW i
    PROVE  /\ \A persist \in BOOLEAN : createPublicSharing(u, i, persist) =>
                 Begins(IF persist THEN "findPublic" ELSE "uninvite", i, Anyone, 0, NoRole)
           /\ \A persist \in BOOLEAN : \A r : createInvite(i, u, r, persist) =>
                 Begins(IF persist THEN "insertInvite" ELSE "unpublish", i, userJoining(u), 0, r)
           /\ \A v : acceptInvite(u, v) => Begins("insertSharing", v.item, u, v.id, v.role)
           /\ \A v : removeInvite(u, v) \/ validateInvite(v) =>
                 Begins("deleteInvite", v.item, Anyone, v.id, NoRole)
           /\ \A s, r : updateSharingRole(s, r) => Begins("updateRole", s.item, Anyone, 0, r)
           /\ \A s : removeSharingRole(u, s) => Begins("updateRole", s.item, Anyone, 0, NoRole)
           /\ \A s : removeSharedWith(u, s) => Begins("deleteRole", s.item, Anyone, 0, NoRole)
           /\ removeSharing(i) => Begins("bulkDeleteInvites", i, Anyone, 0, NoRole)
<1>1. ASSUME NEW persist \in BOOLEAN, createPublicSharing(u, i, persist)
      PROVE  Begins(IF persist THEN "findPublic" ELSE "uninvite", i, Anyone, 0, NoRole)
  BY <1>1, Asked DEF createPublicSharing, NewRequest
<1>2. ASSUME NEW persist \in BOOLEAN, NEW r, createInvite(i, u, r, persist)
      PROVE  Begins(IF persist THEN "insertInvite" ELSE "unpublish", i, userJoining(u), 0, r)
  <2>1. PICK w : w = [NewRequest(IF persist THEN "insertInvite" ELSE "unpublish", Owner, i)
                        EXCEPT !.with = userJoining(u), !.role = r]
    OBVIOUS
  <2>2. w = [nr |-> 0, op |-> IF persist THEN "insertInvite" ELSE "unpublish", by |-> Owner,
             item |-> i, with |-> userJoining(u), id |-> 0, sharing |-> 0, role |-> r, ids |-> {}]
    BY <2>1 DEF NewRequest
  <2>3. Begin(w)
    BY <1>2, <2>1 DEF createInvite
  <2> QED BY <2>2, <2>3, Asked
<1>3. ASSUME NEW v, acceptInvite(u, v)
      PROVE  Begins("insertSharing", v.item, u, v.id, v.role)
  <2>1. PICK w : w = [NewRequest("insertSharing", u, v.item)
                        EXCEPT !.with = u, !.id = v.id, !.role = v.role]
    OBVIOUS
  <2>2. w = [nr |-> 0, op |-> "insertSharing", by |-> u, item |-> v.item, with |-> u,
             id |-> v.id, sharing |-> 0, role |-> v.role, ids |-> {}]
    BY <2>1 DEF NewRequest
  <2>3. Begin(w)
    BY <1>3, <2>1 DEF acceptInvite
  <2> QED BY <2>2, <2>3, Asked
<1>4. ASSUME NEW v, removeInvite(u, v) \/ validateInvite(v)
      PROVE  Begins("deleteInvite", v.item, Anyone, v.id, NoRole)
  <2>1. PICK by : Begin([NewRequest("deleteInvite", by, v.item) EXCEPT !.id = v.id])
    BY <1>4 DEF removeInvite, validateInvite
  <2>2. PICK w : w = [NewRequest("deleteInvite", by, v.item) EXCEPT !.id = v.id]
    OBVIOUS
  <2>3. w = [nr |-> 0, op |-> "deleteInvite", by |-> by, item |-> v.item, with |-> Anyone,
             id |-> v.id, sharing |-> 0, role |-> NoRole, ids |-> {}]
    BY <2>2 DEF NewRequest
  <2> QED BY <2>1, <2>2, <2>3, Asked
<1>5. ASSUME NEW s, NEW r, updateSharingRole(s, r)
      PROVE  Begins("updateRole", s.item, Anyone, 0, r)
  <2>1. PICK w : w = [NewRequest("updateRole", Owner, s.item) EXCEPT !.sharing = s.id, !.role = r]
    OBVIOUS
  <2>2. w = [nr |-> 0, op |-> "updateRole", by |-> Owner, item |-> s.item, with |-> Anyone,
             id |-> 0, sharing |-> s.id, role |-> r, ids |-> {}]
    BY <2>1 DEF NewRequest
  <2>3. Begin(w)
    BY <1>5, <2>1 DEF updateSharingRole
  <2> QED BY <2>2, <2>3, Asked
<1>6. ASSUME NEW s, NEW op \in {"updateRole", "deleteRole"},
             Begin([NewRequest(op, u, s.item) EXCEPT !.sharing = s.id])
      PROVE  Begins(op, s.item, Anyone, 0, NoRole)
  <2>1. PICK w : w = [NewRequest(op, u, s.item) EXCEPT !.sharing = s.id]
    OBVIOUS
  <2>2. w = [nr |-> 0, op |-> op, by |-> u, item |-> s.item, with |-> Anyone,
             id |-> 0, sharing |-> s.id, role |-> NoRole, ids |-> {}]
    BY <2>1 DEF NewRequest
  <2> QED BY <1>6, <2>1, <2>2, Asked
<1>7. removeSharing(i) => Begins("bulkDeleteInvites", i, Anyone, 0, NoRole)
  BY Asked DEF removeSharing, NewRequest
<1> QED BY <1>1, <1>2, <1>3, <1>4, <1>5, <1>6, <1>7 DEF removeSharingRole, removeSharedWith

LEMMA SignUpBegins ==
    ASSUME NEW e, signUp(e)
    PROVE  \E j : Begins("readInvites", j, e, 0, NoRole)
<1>1. PICK j : Begin([NewRequest("readInvites", e, j) EXCEPT !.with = e])
  BY DEF signUp
<1>2. PICK w : w = [NewRequest("readInvites", e, j) EXCEPT !.with = e]
  OBVIOUS
<1>3. w = [nr |-> 0, op |-> "readInvites", by |-> e, item |-> j, with |-> e,
           id |-> 0, sharing |-> 0, role |-> NoRole, ids |-> {}]
  BY <1>2 DEF NewRequest
<1> QED BY <1>1, <1>2, <1>3, Asked

\* A request that has only begun, in a step that writes nothing else: it holds
\* what its fields say.
LEMMA BeginStep ==
    ASSUME OfferedInv, NEW op, NEW i, NEW u, NEW k \in 0 .. MaxRows, NEW r \in Roles \cup {NoRole},
           Begins(op, i, u, k, r),
           UNCHANGED <<invites, sharings, offered>>, registered' \subseteq Invitees,
           registered \subseteq registered',
           op \in {"unpublish", "insertInvite"} => i \in Items /\ u \in Uuids,
           op = "insertSharing" => u \in Invitees /\ <<i, u>> \in offered,
           op = "readInvites" => u \in Guests,
           op # "readdress"
    PROVE  OfferedInv'
<1>1. PICK n : /\ inflight' = inflight \cup {n} /\ IsRequest(n)
               /\ n.op = op /\ n.item = i /\ n.with = u /\ n.id = k /\ n.role = r /\ n.ids = {}
  BY DEF Begins
<1>2. RequestOffered(n)'
  BY <1>1 DEF RequestOffered
<1>3. \A v \in inflight' : v \in inflight \/ RequestOffered(v)'
  BY <1>1, <1>2
<1> QED BY <1>3, OfferedKept

\* A step that only takes rows away, or roles, and after which the request goes
\* on or is done.
LEMMA GoOnStep ==
    ASSUME OfferedInv, NEW w \in inflight, UNCHANGED <<registered, offered>>,
           \A v \in invites' : v \in invites,
           \A s \in sharings' : \/ s \in sharings
                                \/ \E x \in sharings, r \in Roles \cup {NoRole} : s = [x EXCEPT !.role = r],
           \/ Done(w)
           \/ UNCHANGED inflight
           \/ \E op \in {"unshare", "findPublic", "insertPublic", "deleteAccepted",
                         "bulkDeleteSharings", "deleteSharing"} : GoesOn(w, op)
    PROVE  OfferedInv'
<1>1. \A v \in inflight' : v \in inflight \/ RequestOffered(v)'
  <2>1. CASE Done(w) \/ UNCHANGED inflight
    BY <2>1 DEF Done
  <2>2. ASSUME NEW op \in {"unshare", "findPublic", "insertPublic", "deleteAccepted",
                           "bulkDeleteSharings", "deleteSharing"}, GoesOn(w, op)
        PROVE  \A v \in inflight' : v \in inflight \/ RequestOffered(v)'
    BY <2>2, GoesOnHolds
  <2> QED BY <2>1, <2>2
<1>2. registered' \subseteq Invitees
  BY DEF OfferedInv
<1> QED BY <1>1, <1>2, OfferedKept

----------------------------------------------------------------------------
(* Steps that write an invite or a sharing.                                *)

\* A new invite is offered, and its id is in no request's hands.
LEMMA InviteStep ==
    ASSUME SharingConstants, OfferedInv, NEW w \in inflight, createInviteInsert(w)
    PROVE  OfferedInv'
<1> DEFINE new == [id |-> FreshInvite, item |-> w.item, with |-> w.with, role |-> w.role,
                   expires |-> w.with \notin Invitees]
<1>1. PICK v : v = new
  OBVIOUS
<1>2. /\ invites' = invites \cup {v}
      /\ offered' = offered \cup {<<v.item, Person(v.with)>>}
      /\ UNCHANGED <<sharings, registered>>
      /\ FreshInvite <= MaxRows /\ w.op = "insertInvite"
      /\ v.id = FreshInvite /\ v.item = w.item /\ v.with = w.with /\ v.role = w.role
      /\ IsInvite(v)
  BY <1>1 DEF createInviteInsert, IsInvite
<1>3. /\ FreshInvite \in 1 .. MaxRows
      /\ \A x \in invites : x.id # FreshInvite
      /\ \A x \in inflight : FreshInvite \notin x.ids
  BY <1>2, FreshInviteIsNew DEF SharingConstants
<1>4. RequestOffered(w) /\ w.item \in Items /\ w.with \in Uuids
  BY <1>2 DEF OfferedInv, RequestOffered
<1>5. \A x \in invites' : InviteOffered(x)'
  <2>1. InviteOffered(v)'
    BY <1>2, <1>3, <1>4 DEF InviteOffered, RequestOffered
  <2>2. \A x \in invites : InviteOffered(x)'
    BY <1>2 DEF OfferedInv, InviteOffered
  <2> QED BY <1>2, <2>1, <2>2
<1>6. \A x, y \in invites' : x.id = y.id => x = y
  BY <1>2, <1>3 DEF OfferedInv
<1>7. \A s \in sharings' : SharingOffered(s)'
  BY <1>2 DEF OfferedInv, SharingOffered
<1>8. \A x \in inflight : RequestOffered(x)'
  BY <1>2, <1>3 DEF OfferedInv, RequestOffered
<1>9. \A x \in inflight' : x \in inflight \/ RequestOffered(x)'
  <2>1. CASE Done(w)
    BY <2>1 DEF Done
  <2>2. CASE Goes(w, [w EXCEPT !.op = "mailGuest", !.id = FreshInvite])
    <3>1. PICK to : to = [w EXCEPT !.op = "mailGuest", !.id = FreshInvite]
      OBVIOUS
    <3>2. to = [nr |-> w.nr, op |-> "mailGuest", by |-> w.by, item |-> w.item, with |-> w.with,
                id |-> FreshInvite, sharing |-> w.sharing, role |-> w.role, ids |-> w.ids]
      BY <3>1, <1>4 DEF RequestOffered, IsRequest
    <3>3. RequestOffered(to)'
      BY <3>2, <1>3, <1>4 DEF RequestOffered, IsRequest
    <3> QED BY <3>1, <3>3, <2>2 DEF Goes
  <2> QED BY <2>1, <2>2 DEF createInviteInsert
<1> QED BY <1>2, <1>5, <1>6, <1>7, <1>8, <1>9 DEF OfferedInv

\* The sharing of an acceptance is of the item and for the account that the
\* request holds.
LEMMA AcceptStep ==
    ASSUME OfferedInv, NEW w \in inflight, acceptInviteInserts(w)
    PROVE  OfferedInv'
<1>1. RequestOffered(w)
  BY DEF OfferedInv
<1>2. CASE w.op = "insertRole"
  <2>1. \A s \in sharings' : \/ s \in sharings
                             \/ \E x \in sharings, r \in Roles \cup {NoRole} : s = [x EXCEPT !.role = r]
    BY <1>1, <1>2 DEF acceptInviteInserts, RequestOffered
  <2>2. Done(w) \/ GoesOn(w, "deleteAccepted")
    BY <1>2 DEF acceptInviteInserts
  <2>3. UNCHANGED <<invites, registered, offered>>
    BY DEF acceptInviteInserts, Histories
  <2> QED BY <2>1, <2>2, <2>3, GoOnStep
<1>3. CASE w.op = "insertSharing"
  <2>1. PICK s, to :
           /\ s = [id |-> FreshSharing, item |-> w.item, with |-> w.with,
                   type |-> "private", role |-> NoRole]
           /\ to = [w EXCEPT !.op = "insertRole", !.sharing = FreshSharing]
    OBVIOUS
  <2>2. /\ sharings' = sharings \cup {s}
        /\ inflight' = (inflight \ {w}) \cup {to}
        /\ UNCHANGED <<invites, registered, offered>>
    BY <1>3, <2>1 DEF acceptInviteInserts, Goes, Histories
  <2>3. SharingOffered(s)'
    BY <1>1, <1>3, <2>1, <2>2 DEF RequestOffered, SharingOffered, IsSharing
  <2>4. to = [nr |-> w.nr, op |-> "insertRole", by |-> w.by, item |-> w.item, with |-> w.with,
              id |-> w.id, sharing |-> FreshSharing, role |-> w.role, ids |-> w.ids]
    BY <2>1, <1>1 DEF RequestOffered, IsRequest
  <2>5. RequestOffered(to)'
    BY <2>2, <2>4, <1>1 DEF RequestOffered, IsRequest
  <2>6. \A v \in invites' : InviteOffered(v)'
    BY <2>2 DEF OfferedInv, InviteOffered
  <2>7. \A x \in sharings : SharingOffered(x)'
    BY <2>2 DEF OfferedInv, SharingOffered
  <2>8. \A x \in inflight : RequestOffered(x)'
    BY <2>2 DEF OfferedInv, RequestOffered
  <2> QED BY <2>2, <2>3, <2>5, <2>6, <2>7, <2>8 DEF OfferedInv
<1> QED BY <1>2, <1>3 DEF acceptInviteInserts

\* A public sharing is nobody's.
LEMMA PublicStep ==
    ASSUME OfferedInv, NEW w \in inflight, createPublicSharingInsert(w)
    PROVE  OfferedInv'
<1>1. PICK s : s = [id |-> FreshSharing, item |-> w.item, with |-> Anyone, type |-> "public",
                    role |-> NoRole]
  OBVIOUS
<1>2. /\ sharings' = sharings \cup {s}
      /\ \A x \in inflight' : x \in inflight
      /\ UNCHANGED <<invites, registered, offered>>
  BY <1>1 DEF createPublicSharingInsert, Done, Histories
<1>3. SharingOffered(s)'
  BY <1>1 DEF SharingOffered, IsSharing
<1>4. \A v \in invites' : InviteOffered(v)'
  BY <1>2 DEF OfferedInv, InviteOffered
<1>5. \A x \in sharings : SharingOffered(x)'
  BY <1>2 DEF OfferedInv, SharingOffered
<1>6. \A x \in inflight : RequestOffered(x)'
  BY <1>2 DEF OfferedInv, RequestOffered
<1> QED BY <1>2, <1>3, <1>4, <1>5, <1>6 DEF OfferedInv

\* The invites of a guest who signs up stay the guest's.
LEMMA ReplaceStep ==
    ASSUME SharingConstants, PreCreatedIsNew, OfferedInv, NEW w \in inflight,
           replacePreCreatedUser(w)
    PROVE  OfferedInv'
<1>1. RequestOffered(w)
  BY DEF OfferedInv
<1>2. UNCHANGED <<sharings, registered, offered>>
  BY DEF replacePreCreatedUser, Histories
<1>3. CASE w.op = "readInvites"
  <2> DEFINE mine == {v \in invites : v.with = PreCreated(w.with)}
  <2>1. PICK keep \in SUBSET mine :
           /\ invites' = invites \ (mine \ keep)
           /\ Goes(w, [w EXCEPT !.op = "readdress", !.ids = {v.id : v \in keep}])
    BY <1>3 DEF replacePreCreatedUser
  <2>2. PICK to : to = [w EXCEPT !.op = "readdress", !.ids = {v.id : v \in keep}]
    OBVIOUS
  <2>3. to = [nr |-> w.nr, op |-> "readdress", by |-> w.by, item |-> w.item, with |-> w.with,
              id |-> w.id, sharing |-> w.sharing, role |-> w.role, ids |-> {v.id : v \in keep}]
    BY <2>2, <1>1 DEF RequestOffered, IsRequest
  <2>4. to.op = "readdress" /\ to.with = w.with /\ to.id = w.id /\ to.ids = {v.id : v \in keep}
        /\ to.role = w.role /\ IsRequest(to)
    BY <2>3 DEF IsRequest
  <2>5. w.with \in Guests /\ Person(PreCreated(w.with)) = w.with
    BY <1>1, <1>3, PersonOfUuid DEF RequestOffered
  <2>6. \A v \in invites : v.id \in to.ids => Person(v.with) = w.with
    BY <2>4, <2>5 DEF OfferedInv
  <2>7. to.ids \subseteq 1 .. MaxRows
    <3>1. \A v \in keep : v.id \in 1 .. MaxRows
      BY DEF OfferedInv, InviteOffered
    <3> QED BY <2>4, <3>1
  <2>8. RequestOffered(to)'
    BY <1>1, <2>1, <2>4, <2>5, <2>6, <2>7 DEF RequestOffered
  <2>9. \A x \in inflight' : x \in inflight \/ RequestOffered(x)'
    BY <2>1, <2>2, <2>8 DEF Goes
  <2>10. \A v \in invites' : v \in invites
    BY <2>1
  <2> QED BY <1>2, <2>9, <2>10, OfferedKept DEF OfferedInv
<1>4. CASE w.op = "readdress"
  <2> DEFINE to(v) == IF v.id \in w.ids THEN [v EXCEPT !.with = w.with] ELSE v
  <2>1. invites' = {to(v) : v \in invites} /\ Done(w)
    BY <1>4 DEF replacePreCreatedUser
  <2>2. w.with \in Guests /\ w.with \in Invitees /\ Person(w.with) = w.with /\ w.with \in Uuids
    BY <1>1, <1>4, PersonOfUuid DEF RequestOffered, SharingConstants, Uuids
  <2>3. ASSUME NEW v \in invites
        PROVE  /\ to(v).id = v.id /\ to(v).item = v.item /\ IsInvite(to(v))
               /\ Person(to(v).with) = Person(v.with) /\ to(v).with \in Uuids
               /\ to(v).role = v.role
    <3>1. IsInvite(v) /\ v.with \in Uuids
      BY DEF OfferedInv, InviteOffered
    <3>2. CASE v.id \notin w.ids
      BY <3>1, <3>2
    <3>3. CASE v.id \in w.ids
      <4>1. Person(v.with) = w.with
        BY <1>1, <1>4, <3>3 DEF RequestOffered
      <4>2. to(v) = [id |-> v.id, item |-> v.item, with |-> w.with, role |-> v.role,
                     expires |-> v.expires]
        BY <3>1, <3>3 DEF IsInvite
      <4> HIDE DEF to
      <4> QED BY <4>1, <4>2, <2>2 DEF IsInvite
    <3> QED BY <3>2, <3>3
  <2> HIDE DEF to
  <2>4. \A v \in invites' : InviteOffered(v)'
    BY <1>2, <2>1, <2>3 DEF OfferedInv, InviteOffered
  <2>5. \A v, x \in invites' : v.id = x.id => v = x
    BY <2>1, <2>3 DEF OfferedInv
  <2>6. \A s \in sharings' : SharingOffered(s)'
    BY <1>2 DEF OfferedInv, SharingOffered
  <2>7. \A x \in inflight : RequestOffered(x)'
    <3> SUFFICES ASSUME NEW x \in inflight PROVE RequestOffered(x)'
      OBVIOUS
    <3>1. RequestOffered(x)
      BY DEF OfferedInv
    <3>2. x.op = "readdress" => \A v \in invites' : v.id \in x.ids => Person(v.with) = x.with
      BY <2>1, <2>3, <3>1 DEF RequestOffered
    <3> QED BY <1>2, <3>1, <3>2 DEF RequestOffered
  <2> QED BY <1>2, <2>1, <2>4, <2>5, <2>6, <2>7 DEF OfferedInv, Done
<1> QED BY <1>3, <1>4 DEF replacePreCreatedUser

----------------------------------------------------------------------------
(* Every step.                                                             *)

\* Requests that begin.
LEMMA BeginSteps ==
    ASSUME SharingConstants, PreCreatedIsNew, OfferedInv
    PROVE  /\ \A i \in Items, persist \in BOOLEAN :
                 /\ \A u \in Invitees \cup {Owner} : createPublicSharing(u, i, persist) => OfferedInv'
                 /\ \A e \in Invitees, r \in Roles : createInvite(i, e, r, persist) => OfferedInv'
           /\ \A v \in invites :
                 /\ validateInvite(v) => OfferedInv'
                 /\ \A e \in registered : acceptInvite(e, v) => OfferedInv'
                 /\ \A u \in registered \cup {Owner} : removeInvite(u, v) => OfferedInv'
           /\ \A s \in sharings :
                 /\ \A r \in Roles : updateSharingRole(s, r) => OfferedInv'
                 /\ \A u \in registered \cup {Owner} :
                       removeSharedWith(u, s) \/ removeSharingRole(u, s) => OfferedInv'
           /\ \A i \in Items : removeSharing(i) => OfferedInv'
           /\ \A e \in Guests : signUp(e) => OfferedInv'
<1>0. /\ registered \subseteq Invitees /\ Invitees \ Guests \subseteq registered
      /\ 0 \in 0 .. MaxRows /\ NoRole \in Roles \cup {NoRole}
  BY DEF OfferedInv, SharingConstants
<1>1. ASSUME NEW i \in Items, NEW persist \in BOOLEAN, NEW u, createPublicSharing(u, i, persist)
      PROVE  OfferedInv'
  BY <1>0, <1>1, HandlersBegin, BeginStep DEF createPublicSharing
<1>2. ASSUME NEW i \in Items, NEW persist \in BOOLEAN, NEW e \in Invitees, NEW r \in Roles,
             createInvite(i, e, r, persist)
      PROVE  OfferedInv'
  <2>1. userJoining(e) \in Uuids
    BY <1>0 DEF userJoining, Uuids, SharingConstants
  <2>2. Begins(IF persist THEN "insertInvite" ELSE "unpublish", i, userJoining(e), 0, r)
    BY <1>2, HandlersBegin
  <2> QED BY <1>0, <1>2, <2>1, <2>2, BeginStep DEF createInvite
<1>3. ASSUME NEW v \in invites, NEW e \in registered, acceptInvite(e, v)
      PROVE  OfferedInv'
  <2>1. InviteOffered(v) /\ v.with = e /\ Person(e) = e
    BY <1>0, <1>3, PersonOfUuid DEF OfferedInv, acceptInvite
  <2>2. <<v.item, e>> \in offered /\ v.id \in 0 .. MaxRows /\ v.role \in Roles \cup {NoRole}
    BY <1>0, <2>1 DEF InviteOffered, SharingConstants
  <2>3. Begins("insertSharing", v.item, e, v.id, v.role)
    BY <1>3, HandlersBegin
  <2> QED BY <1>0, <1>3, <2>2, <2>3, BeginStep DEF acceptInvite, Histories
<1>4. ASSUME NEW v \in invites, NEW u, removeInvite(u, v) \/ validateInvite(v)
      PROVE  OfferedInv'
  <2>0. v.id \in 1 .. MaxRows /\ MaxRows \in Nat
    BY DEF OfferedInv, InviteOffered, SharingConstants
  <2>1. v.id \in 0 .. MaxRows
    BY <2>0
  <2>2. Begins("deleteInvite", v.item, Anyone, v.id, NoRole)
    BY <1>4, HandlersBegin
  <2>3. UNCHANGED <<invites, sharings, registered, offered>>
    BY <1>4 DEF removeInvite, validateInvite, Histories
  <2> QED BY <1>0, <2>1, <2>2, <2>3, BeginStep
<1>5. ASSUME NEW s \in sharings, NEW u, NEW r \in Roles \cup {NoRole},
             updateSharingRole(s, r) \/ removeSharedWith(u, s) \/ removeSharingRole(u, s)
      PROVE  OfferedInv'
  <2>1. /\ UNCHANGED <<invites, sharings, registered, offered>>
        /\ registered' \subseteq Invitees /\ registered \subseteq registered'
    BY <1>0, <1>5 DEF updateSharingRole, removeSharedWith, removeSharingRole, Histories
  <2>2. CASE updateSharingRole(s, r)
    <3>1. Begins("updateRole", s.item, Anyone, 0, r)
      BY <2>2, HandlersBegin
    <3> QED BY <1>0, <2>1, <3>1, BeginStep
  <2>3. CASE removeSharedWith(u, s)
    <3>1. Begins("deleteRole", s.item, Anyone, 0, NoRole)
      BY <2>3, HandlersBegin
    <3> QED BY <1>0, <2>1, <3>1, BeginStep
  <2>4. CASE removeSharingRole(u, s)
    <3>1. Begins("updateRole", s.item, Anyone, 0, NoRole)
      BY <2>4, HandlersBegin
    <3> QED BY <1>0, <2>1, <3>1, BeginStep
  <2> QED BY <1>5, <2>2, <2>3, <2>4
<1>6. ASSUME NEW i \in Items, removeSharing(i) PROVE OfferedInv'
  BY <1>0, <1>6, HandlersBegin, BeginStep DEF removeSharing, Histories
<1>7. ASSUME NEW e \in Guests, signUp(e) PROVE OfferedInv'
  <2>1. UNCHANGED <<invites, sharings, offered>>
    BY <1>7 DEF signUp, Histories
  <2>2. registered' \subseteq Invitees /\ registered \subseteq registered'
    BY <1>0, <1>7 DEF signUp, SharingConstants
  <2>3. PICK j : Begins("readInvites", j, e, 0, NoRole)
    BY <1>7, SignUpBegins
  <2>4. ASSUME NEW op, op = "readInvites", Begins(op, j, e, 0, NoRole) PROVE OfferedInv'
    BY <1>0, <2>1, <2>2, <2>4, BeginStep
  <2> QED BY <2>3, <2>4
<1> QED BY <1>0, <1>1, <1>2, <1>3, <1>4, <1>5, <1>6, <1>7

\* Requests that go on, and what happens to the items.
LEMMA OtherSteps ==
    ASSUME SharingConstants, PreCreatedIsNew, OfferedInv
    PROVE  /\ \A i \in Items : changeSharingType(i) \/ moveToTrash(i) \/ leaveTrash(i) => OfferedInv'
           /\ \A w \in inflight :
                 \/ createInviteUnpublishes(w) \/ createInviteMailed(w)
                 \/ removeItemFromBeingShared(w) \/ createPublicSharingFinds(w)
                 \/ acceptInviteDeletes(w) \/ deleteInvite(w) \/ bulkRemoveSharings(w)
                 \/ removeSharedWithDeletes(w) \/ updateSharingRoleBy(w) \/ trashRow(w)
                 \/ requestDies(w)
                 => OfferedInv'
<1> USE DEF Histories
<1>1. ASSUME NEW i \in Items, changeSharingType(i) \/ leaveTrash(i) PROVE OfferedInv'
  <2>1. /\ \A s \in sharings' : s \in sharings
        /\ UNCHANGED <<invites, registered, inflight, offered>>
    BY <1>1 DEF changeSharingType, leaveTrash
  <2> QED BY <2>1, OfferedKept DEF OfferedInv
<1>2. ASSUME NEW i \in Items, moveToTrash(i) PROVE OfferedInv'
  <2>1. PICK row, nr :
           /\ row = Numbered(NewRequest("trashRow", Owner, i))
           /\ inflight' = inflight \cup {row, [NewRequest("bulkDeleteInvites", Owner, i) EXCEPT !.nr = nr]}
    BY <1>2 DEF moveToTrash
  <2>2. PICK w : w = [NewRequest("bulkDeleteInvites", Owner, i) EXCEPT !.nr = nr]
    OBVIOUS
  <2>3. /\ IsRequest(w) /\ w.id \in 0 .. MaxRows /\ w.ids = {} /\ w.role = NoRole
        /\ w.op = "bulkDeleteInvites"
    BY <2>2 DEF NewRequest, IsRequest, SharingConstants
  <2>4. RequestOffered(w)'
    BY <2>3 DEF RequestOffered
  <2>5. PICK q : q = NewRequest("trashRow", Owner, i)
    OBVIOUS
  <2>6. /\ IsRequest(q) /\ q.id \in 0 .. MaxRows /\ q.ids = {} /\ q.op = "trashRow"
        /\ q.role = NoRole
    BY <2>5 DEF NewRequest, IsRequest, SharingConstants
  <2>7. PICK k : row = [nr |-> k, op |-> q.op, by |-> q.by, item |-> q.item, with |-> q.with,
                        id |-> q.id, sharing |-> q.sharing, role |-> q.role, ids |-> q.ids]
    BY <2>1, <2>5, <2>6, NumberedIs
  <2>8. RequestOffered(row)'
    BY <2>6, <2>7 DEF RequestOffered, IsRequest
  <2>9. UNCHANGED <<invites, sharings, registered, offered>>
    BY <1>2 DEF moveToTrash
  <2>10. \A v \in inflight' : v \in inflight \/ RequestOffered(v)'
    BY <2>1, <2>2, <2>4, <2>8
  <2> QED BY <2>9, <2>10, OfferedKept DEF OfferedInv
<1>3. ASSUME NEW w \in inflight,
             \/ createInviteUnpublishes(w) \/ createInviteMailed(w)
             \/ removeItemFromBeingShared(w) \/ createPublicSharingFinds(w)
             \/ acceptInviteDeletes(w) \/ deleteInvite(w) \/ bulkRemoveSharings(w)
             \/ removeSharedWithDeletes(w) \/ updateSharingRoleBy(w) \/ trashRow(w)
             \/ requestDies(w)
      PROVE  OfferedInv'
  <2>1. CASE createInviteUnpublishes(w)
    <3>1. RequestOffered(w) /\ w.op = "unpublish"
      BY <2>1 DEF OfferedInv, createInviteUnpublishes
    <3>2. \A v \in inflight' : v \in inflight \/ RequestOffered(v)'
      BY <2>1, <3>1, GoesOnHolds DEF createInviteUnpublishes, RequestOffered
    <3> QED BY <2>1, <3>2, OfferedKept DEF createInviteUnpublishes, OfferedInv
  <2>2. CASE createInviteMailed(w)
    BY <2>2, GoOnStep DEF createInviteMailed
  <2>3. CASE removeItemFromBeingShared(w)
    BY <2>3, GoOnStep DEF removeItemFromBeingShared
  <2>4. CASE createPublicSharingFinds(w)
    BY <2>4, GoOnStep DEF createPublicSharingFinds
  <2>5. CASE acceptInviteDeletes(w) \/ deleteInvite(w) \/ trashRow(w) \/ requestDies(w)
    BY <2>5, GoOnStep DEF acceptInviteDeletes, deleteInvite, trashRow, requestDies
  <2>6. CASE bulkRemoveSharings(w)
    BY <2>6, GoOnStep DEF bulkRemoveSharings
  <2>7. CASE removeSharedWithDeletes(w)
    BY <2>7, GoOnStep DEF removeSharedWithDeletes
  <2>8. CASE updateSharingRoleBy(w)
    <3>1. w.role \in Roles \cup {NoRole}
      BY DEF OfferedInv, RequestOffered
    <3>2. \A s \in sharings' : \/ s \in sharings
                               \/ \E x \in sharings, r \in Roles \cup {NoRole} : s = [x EXCEPT !.role = r]
      BY <2>8, <3>1 DEF updateSharingRoleBy
    <3> QED BY <2>8, <3>2, GoOnStep DEF updateSharingRoleBy
  <2> QED BY <1>3, <2>1, <2>2, <2>3, <2>4, <2>5, <2>6, <2>7, <2>8
<1> QED BY <1>1, <1>2, <1>3

----------------------------------------------------------------------------
(* The theorem.                                                            *)

LEMMA Offered == Spec => []OfferedInv
<1>1. Init => OfferedInv
  BY DEF Init, OfferedInv
<1>2. OfferedInv /\ [Next]_vars => OfferedInv'
  <2> SUFFICES ASSUME OfferedInv, [Next]_vars PROVE OfferedInv'
    OBVIOUS
  <2>1. CASE UNCHANGED vars
    BY <2>1, OfferedKept DEF vars, OfferedInv
  <2>2. CASE Next
    BY <2>2, SharingConstants, PreCreatedIsNew, BeginSteps, OtherSteps, InviteStep, AcceptStep,
       PublicStep, ReplaceStep DEF Next, Step
  <2> QED BY <2>1, <2>2
<1> QED BY <1>1, <1>2, PTL DEF Spec

\* Whatever races or stops half way, an item is shared with nobody who was not
\* invited to it: neither by an acceptance of an invite that was revoked and
\* another one's in its place, nor by the invites of guests who sign up.
THEOREM NobodyIsUninvited == Spec => []NobodyUninvited
<1>1. OfferedInv => NobodyUninvited
  BY SharingConstants, PreCreatedIsNew, PersonOfUuid DEF OfferedInv, SharingOffered, NobodyUninvited
<1> QED BY <1>1, Offered, PTL

----------------------------------------------------------------------------
(* The lists agree, whatever races.                                        *)

LEMMA ListsAgree ==
    ASSUME SharingConstants, OfferedInv
    PROVE  ViewsAgree
<1> USE DEF isOwnedBy
<1>1. ASSUME NEW u \in registered \cup {Owner}
      PROVE  getSharedFolders(u) = getSharedFoldersBySharedWith(u) \cup getSharedFoldersByOwner(u)
  BY DEF getSharedFolders, getSharedFoldersBySharedWith, getSharedFoldersByOwner, Related
<1>2. ASSUME NEW u \in registered \cup {Owner}, NEW i \in getSharedFolders(u) \cup getSharedFiles(u)
      PROVE  /\ getSharingType(u, i) # {}
             /\ findSharingsWithRolesByItem(i) # {} =>
                   \/ u \in getItemSharedWith(u, i)
                   \/ \A s \in SharingsOf(i, "private") : s.with # u
             /\ i \in Folders => getSharedWithByItemId(u, i) = getItemSharedWith(u, i)
  <2>1. Found(i) /\ \E s \in Related(u) : s.item = i
    BY DEF getSharedFolders, getSharedFiles, Found, getFolderByUuid, getFileByUuid
  <2>2. getSharingType(u, i) # {}
    BY <2>1 DEF getSharingType, Related
  <2>3. findSharingsWithRolesByItem(i) # {} =>
           \/ u \in getItemSharedWith(u, i)
           \/ \A s \in SharingsOf(i, "private") : s.with # u
    BY <2>1 DEF getItemSharedWith, UsersListed, findSharingsWithRolesByItem
  <2>4. i \in Folders => getSharedWithByItemId(u, i) = getItemSharedWith(u, i)
    BY <2>1 DEF getSharedWithByItemId, getItemSharedWith, Found, getFileByUuid, SharingConstants
  <2> QED BY <2>2, <2>3, <2>4
<1>3. ASSUME NEW u \in registered \cup {Owner}, NEW v \in getUserValidInvites(u)
      PROVE  Found(v.item) /\ v \in getInvites(v.item)
  BY DEF getUserValidInvites, getInvites, InvitesOf, OfferedInv, InviteOffered, Items, Found,
         getFolderByUuid, getFileByUuid
<1>4. ASSUME NEW u \in registered \cup {Owner}, NEW s \in sharings, getUserRole(u, s) = "OWNER"
      PROVE  getItemSharingInfo(u, s.item).found
  <2>1. u = Owner
    BY <1>4 DEF getUserRole, OfferedInv, SharingOffered, SharingConstants
  <2>2. s \in getSharingType(u, s.item)
    BY <2>1 DEF getSharingType
  <2> QED BY <2>2 DEF getItemSharingInfo
<1>5. ASSUME NEW i \in Items, ~ getItemSharingInfo(Owner, i).found
      PROVE  getItemSharedWith(Owner, i) = {} /\ getInvites(i) = {}
  <2>1. getSharingType(Owner, i) = {} /\ InvitesOf(i) = {}
    BY <1>5 DEF getItemSharingInfo
  <2>2. SharingsOf(i, "private") = {}
    BY <2>1 DEF getSharingType, SharingsOf
  <2>3. findSharingsWithRolesByItem(i) = {}
    BY <2>2 DEF findSharingsWithRolesByItem
  <2> QED BY <2>1, <2>3 DEF getItemSharedWith, UsersListed, getInvites
<1> QED BY <1>1, <1>2, <1>3, <1>4, <1>5 DEF ViewsAgree

----------------------------------------------------------------------------
(* Requests that run alone: the rows and what a request under way knows of *)
(* them.                                                                   *)

\* The requests of bulkRemoveSharings, beside which moveToTrash updates a row.
Bulk == {"bulkDeleteInvites", "bulkDeleteSharings"}

\* One request is under way, or the two of a move to the trash.
Pair(w, x) == w.op = "trashRow" /\ x.op \in Bulk /\ w.item = x.item

OneAtATime == \A w, x \in inflight : w = x \/ Pair(w, x) \/ Pair(x, w)

\* An invite stays until the sharing made of it has a role: it is then counted
\* as that sharing.
Accepted(v) == \E w \in inflight : w.op \in {"insertRole", "deleteAccepted"} /\ w.id = v.id

Open == {v \in invites : ~ Accepted(v)}

Private == {s \in sharings : s.type = "private"}

SharedTo(i) == {e \in Invitees : \E s \in Private : s.item = i /\ s.with = e}

OpenTo(i) == {e \in Invitees : \E v \in Open : v.item = i /\ Person(v.with) = e}

Recipients(i) == SharedTo(i) \cup OpenTo(i)

\* A request that checked the limit has not inserted its invite yet.
Offering(i) == \E w \in inflight : w.op \in {"unpublish", "insertInvite"} /\ w.item = i

NoPublic(i) == \A s \in sharings : s.item = i => s.type # "public"

NoPrivate(i) == \A s \in Private : s.item # i

NoInvite(i) == \A v \in invites : v.item # i

NoRow(i) == NoInvite(i) /\ \A s \in sharings : s.item # i

Revoking(i) == \E w \in inflight : w.op \in Bulk /\ w.item = i

Replacing(e) == \E w \in inflight : w.op \in {"readInvites", "readdress"} /\ w.with = e

NotGone(i) == i \in Folders => status[i] = "EXISTS"

OneRowEach ==
    /\ \A v, x \in Open : v.item = x.item /\ Person(v.with) = Person(x.with) => v = x
    /\ \A s, x \in Private : s.item = x.item /\ s.with = x.with => s = x
    /\ \A v \in Open, s \in Private : v.item = s.item => Person(v.with) # s.with

PublicExcludes == \A i \in Items \ mixed : NoPublic(i) \/ (NoPrivate(i) /\ NoInvite(i))

GoneUnshared == \A i \in Folders : status[i] = "EXISTS" \/ Revoking(i) \/ NoRow(i)

Readdressed ==
    \A v \in invites :
        \/ v.with \in registered \/ Person(v.with) \notin registered
        \/ Replacing(Person(v.with))

AccountsFirst ==
    /\ \A v \in invites : v.with \in Invitees => v.with \in registered
    /\ \A s \in Private : s.with \in registered

Counted ==
    \A i \in Items :
        /\ IsFiniteSet(Recipients(i))
        /\ Cardinality(Recipients(i)) + (IF Offering(i) THEN 1 ELSE 0) <= Limit

RowsFit ==
    /\ status \in [Items -> {"EXISTS", "TRASHED", "DELETED"}]
    /\ OneRowEach /\ PublicExcludes /\ GoneUnshared
    /\ Readdressed /\ AccountsFirst /\ Counted

\* The person a request is about to invite has nothing of the item yet.
Newcomer(w) ==
    /\ Person(w.with) \notin Recipients(w.item)
    /\ w.with \in registered \/ (w.with \notin Invitees /\ Person(w.with) \notin registered)

\* What a request found still holds, and what it did is done.
RequestFits(w) ==
    /\ w.op \in {"unpublish", "insertInvite", "insertSharing", "uninvite", "unshare", "findPublic",
                 "insertPublic"}
          => NotGone(w.item)
    /\ w.op \in {"unpublish", "insertInvite"} => Newcomer(w)
    /\ w.op = "insertInvite" => w.item \in mixed \/ NoPublic(w.item)
    /\ w.op = "insertSharing" =>
          /\ w.with \in registered
          /\ \E v \in invites : v.id = w.id /\ v.item = w.item /\ v.with = w.with
    /\ w.op = "insertRole" => \E s \in sharings : s.id = w.sharing
    /\ w.op = "unshare" => w.item \in mixed \/ NoInvite(w.item)
    /\ w.op \in {"findPublic", "insertPublic"} =>
          w.item \in mixed \/ (NoInvite(w.item) /\ NoPrivate(w.item))
    /\ w.op = "bulkDeleteSharings" => NoInvite(w.item)
    /\ w.op = "trashRow" => Revoking(w.item) \/ NoRow(w.item)
    /\ w.op \in {"readInvites", "readdress"} => w.with \in registered
    /\ w.op = "readdress" =>
          \A v \in invites : v.with = PreCreated(w.with) => v.id \in w.ids

Serial == OneAtATime /\ RowsFit /\ \A w \in inflight : RequestFits(w)

SerialInv == alone => Serial

----------------------------------------------------------------------------
(* What a step leaves of the rows.                                         *)

Same(s, a) == s.item = a.item /\ s.with = a.with /\ s.type = a.type

\* Rows may go and sharings change their role; the invite of an acceptance is
\* not open again.
RowsLeft ==
    /\ \A v \in invites' : v \in invites
    /\ \A v \in invites' : Accepted(v) => Accepted(v)'
    /\ \A s, y \in sharings' : \E a, b \in sharings : Same(s, a) /\ Same(y, b) /\ (a = b => s = y)
    /\ mixed \subseteq mixed' /\ registered \subseteq registered'

LEMMA LeftFits ==
    ASSUME RowsFit, RowsLeft
    PROVE  /\ OneRowEach' /\ PublicExcludes' /\ AccountsFirst'
           /\ \A i : Recipients(i)' \subseteq Recipients(i)
           /\ \A i : /\ NoInvite(i) => NoInvite(i)'
                     /\ NoPrivate(i) => NoPrivate(i)'
                     /\ NoPublic(i) => NoPublic(i)'
                     /\ NoRow(i) => NoRow(i)'
<1>1. \A v \in Open' : v \in Open
  BY DEF RowsLeft, Open
<1>2. \A s \in sharings' : \E a \in sharings : Same(s, a)
  BY DEF RowsLeft
<1>3. \A s \in Private' : \E a \in Private : Same(s, a)
  BY <1>2 DEF Private, Same
<1>4. OneRowEach'
  <2>1. \A v, x \in Open' : v.item = x.item /\ Person(v.with) = Person(x.with) => v = x
    BY <1>1 DEF RowsFit, OneRowEach
  <2>2. \A s, x \in Private' : s.item = x.item /\ s.with = x.with => s = x
    <3> SUFFICES ASSUME NEW s \in Private', NEW x \in Private', s.item = x.item, s.with = x.with
                 PROVE  s = x
      OBVIOUS
    <3>1. s \in sharings' /\ x \in sharings' /\ s.type = "private" /\ x.type = "private"
      BY DEF Private
    <3>2. PICK a \in sharings, b \in sharings : Same(s, a) /\ Same(x, b) /\ (a = b => s = x)
      BY <3>1 DEF RowsLeft
    <3>3. a \in Private /\ b \in Private /\ a.item = b.item /\ a.with = b.with
      BY <3>1, <3>2 DEF Private, Same
    <3> QED BY <3>2, <3>3 DEF RowsFit, OneRowEach
  <2>3. \A v \in Open', s \in Private' : v.item = s.item => Person(v.with) # s.with
    <3> SUFFICES ASSUME NEW v \in Open', NEW s \in Private', v.item = s.item
                 PROVE  Person(v.with) # s.with
      OBVIOUS
    <3>1. PICK a \in Private : Same(s, a)
      BY <1>3
    <3> QED BY <1>1, <3>1 DEF RowsFit, OneRowEach, Same
  <2> QED BY <2>1, <2>2, <2>3 DEF OneRowEach
<1>5. ASSUME NEW i
      PROVE  /\ NoInvite(i) => NoInvite(i)'
             /\ NoPrivate(i) => NoPrivate(i)'
             /\ NoPublic(i) => NoPublic(i)'
             /\ NoRow(i) => NoRow(i)'
  <2>1. NoInvite(i) => NoInvite(i)'
    BY DEF RowsLeft, NoInvite
  <2>2. NoPrivate(i) => NoPrivate(i)'
    BY <1>3 DEF NoPrivate, Same
  <2>3. NoPublic(i) => NoPublic(i)'
    BY <1>2 DEF NoPublic, Same
  <2>4. NoRow(i) => NoRow(i)'
    BY <1>2, <2>1 DEF NoRow, Same
  <2> QED BY <2>1, <2>2, <2>3, <2>4
<1>6. PublicExcludes'
  BY <1>5 DEF RowsFit, PublicExcludes, RowsLeft
<1>7. AccountsFirst'
  BY <1>3 DEF RowsFit, AccountsFirst, RowsLeft, Same
<1>8. ASSUME NEW i PROVE Recipients(i)' \subseteq Recipients(i)
  <2>1. SharedTo(i)' \subseteq SharedTo(i)
    BY <1>3 DEF SharedTo, Same
  <2>2. OpenTo(i)' \subseteq OpenTo(i)
    BY <1>1 DEF OpenTo
  <2> QED BY <2>1, <2>2 DEF Recipients
<1> QED BY <1>4, <1>5, <1>6, <1>7, <1>8

LEMMA CountKept ==
    ASSUME SharingConstants, Counted, \A i \in Items : Recipients(i)' \subseteq Recipients(i),
           \A i \in Items : Offering(i)' => Offering(i)
    PROVE  Counted'
<1> SUFFICES ASSUME NEW i \in Items
             PROVE  /\ IsFiniteSet(Recipients(i)')
                    /\ Cardinality(Recipients(i)') + (IF Offering(i)' THEN 1 ELSE 0) <= Limit
  BY DEF Counted
<1>1. IsFiniteSet(Recipients(i)) /\ Cardinality(Recipients(i)) + (IF Offering(i) THEN 1 ELSE 0) <= Limit
  BY DEF Counted
<1>2. Recipients(i)' \in SUBSET Recipients(i)
  OBVIOUS
<1>3. IsFiniteSet(Recipients(i)') /\ Cardinality(Recipients(i)') <= Cardinality(Recipients(i))
  BY <1>1, <1>2, FS_Subset
<1>4. Cardinality(Recipients(i)') \in Nat /\ Cardinality(Recipients(i)) \in Nat
  BY <1>1, <1>3, FS_CardinalityType
<1>5. Offering(i)' => Offering(i)
  OBVIOUS
<1> QED BY <1>1, <1>3, <1>4, <1>5 DEF SharingConstants

\* The rows fit as long as none is added and what waits for a request still does.
LEMMA RowsKept ==
    ASSUME SharingConstants, RowsFit, RowsLeft, UNCHANGED <<status, registered>>,
           \A i : Offering(i)' => Offering(i),
           \A i : Revoking(i) => Revoking(i)',
           \A e : Replacing(e) => Replacing(e)'
    PROVE  RowsFit'
<1>1. GoneUnshared'
  BY LeftFits DEF RowsFit, GoneUnshared
<1>2. Readdressed'
  BY DEF RowsFit, Readdressed, RowsLeft
<1>3. Counted'
  BY LeftFits, CountKept DEF RowsFit
<1> QED BY <1>1, <1>2, <1>3, LeftFits DEF RowsFit

\* Sharings that only change their role, those in T.
RolesChange(T, r) ==
    \A s \in sharings' : \E x \in sharings : IF x \in T THEN s = [x EXCEPT !.role = r] ELSE s = x

LEMMA RolesLeft ==
    ASSUME OfferedInv, NEW T, NEW r, RolesChange(T, r)
    PROVE  \A s, y \in sharings' : \E a, b \in sharings : Same(s, a) /\ Same(y, b) /\ (a = b => s = y)
<1> DEFINE From(s, x) == IF x \in T THEN s = [x EXCEPT !.role = r] ELSE s = x
<1>1. ASSUME NEW s, NEW x \in sharings, From(s, x) PROVE Same(s, x)
  <2>1. IsSharing(x)
    BY DEF OfferedInv, SharingOffered
  <2>2. CASE x \in T
    <3>1. s = [id |-> x.id, item |-> x.item, with |-> x.with, type |-> x.type, role |-> r]
      BY <1>1, <2>1, <2>2 DEF IsSharing
    <3> QED BY <3>1 DEF Same
  <2>3. CASE x \notin T
    BY <1>1, <2>3 DEF Same
  <2> QED BY <2>2, <2>3
<1>2. \A s, y, x : From(s, x) /\ From(y, x) => s = y
  OBVIOUS
<1>3. \A s \in sharings' : \E x \in sharings : From(s, x)
  BY DEF RolesChange
<1> HIDE DEF From
<1> QED BY <1>1, <1>2, <1>3

----------------------------------------------------------------------------
(* Requests that begin, when nothing else is under way.                    *)

LEMMA FoundIsNotGone ==
    ASSUME SharingConstants, NEW i \in Items, Found(i)
    PROVE  NotGone(i)
BY DEF SharingConstants, Found, getFolderByUuid, getFileByUuid, NotGone

\* With nothing under way before and one request after, that neither offers nor
\* has accepted anything, the rows are as they were.
LEMMA RowsUntouched ==
    ASSUME SharingConstants, RowsFit, inflight = {}, NEW n, inflight' = {n},
           UNCHANGED <<status, invites, sharings, registered>>, mixed \subseteq mixed',
           n.op \notin {"unpublish", "insertInvite"}
    PROVE  RowsFit' /\ OneAtATime'
<1>1. RowsLeft
  <2>1. \A s, y \in sharings' : \E a, b \in sharings : Same(s, a) /\ Same(y, b) /\ (a = b => s = y)
    BY DEF Same
  <2> QED BY <2>1 DEF RowsLeft, Accepted
<1>2. /\ \A i : ~ Offering(i)' /\ ~ Revoking(i)
      /\ \A e : ~ Replacing(e)
  BY DEF Offering, Revoking, Replacing
<1> QED BY <1>1, <1>2, RowsKept DEF OneAtATime

\* A request that has checked what it needs.
LEMMA BeginFits ==
    ASSUME SharingConstants, alone, Serial,
           NEW op, NEW i, NEW u, NEW k, NEW r, Begins(op, i, u, k, r),
           UNCHANGED <<status, invites, sharings, registered>>, mixed \subseteq mixed',
           op \in {"deleteInvite", "updateRole", "deleteRole", "bulkDeleteInvites",
                   "insertSharing", "uninvite", "findPublic"},
           op \in {"insertSharing", "uninvite", "findPublic"} => NotGone(i),
           op = "insertSharing" =>
              u \in registered /\ \E v \in invites : v.id = k /\ v.item = i /\ v.with = u,
           op = "findPublic" => i \in mixed'
    PROVE  Serial'
<1>1. PICK n : /\ inflight = {} /\ inflight' = {n}
               /\ n.op = op /\ n.item = i /\ n.with = u /\ n.id = k
  BY DEF Begins, Quiet
<1>2. RowsFit' /\ OneAtATime'
  BY <1>1, RowsUntouched DEF Serial
<1>3. NotGone(i) => NotGone(i)'
  BY DEF NotGone
<1>4. RequestFits(n)'
  BY <1>1, <1>3 DEF RequestFits
<1> QED BY <1>1, <1>2, <1>4 DEF Serial

\* Somebody with an invite or a sharing is not invited again.
LEMMA NewcomerIsNew ==
    ASSUME SharingConstants, PreCreatedIsNew, OfferedInv, RowsFit, inflight = {},
           NEW i \in Items, NEW e \in Invitees,
           getInviteByItemAndUser(i, userJoining(e)) = {}, findOneSharing(i, userJoining(e)) = {}
    PROVE  /\ Person(userJoining(e)) = e /\ e \notin Recipients(i)
           /\ \/ userJoining(e) \in registered
              \/ userJoining(e) \notin Invitees /\ e \notin registered
<1>1. /\ e \in registered => userJoining(e) = e /\ Person(e) = e
      /\ e \notin registered => /\ userJoining(e) = PreCreated(e) /\ Person(PreCreated(e)) = e
                                /\ PreCreated(e) \notin Invitees
  BY PersonOfUuid DEF userJoining, OfferedInv
<1>2. e \notin SharedTo(i)
  <2> SUFFICES ASSUME NEW s \in Private, s.item = i, s.with = e PROVE FALSE
    BY DEF SharedTo
  <2>1. e \in registered /\ s \in sharings
    BY DEF RowsFit, AccountsFirst, Private
  <2> QED BY <1>1, <2>1 DEF findOneSharing
<1>3. e \notin OpenTo(i)
  <2> SUFFICES ASSUME NEW v \in invites, v.item = i, Person(v.with) = e PROVE FALSE
    BY DEF OpenTo, Open
  <2>1. v.with # userJoining(e)
    BY DEF getInviteByItemAndUser, InvitesOf
  <2>2. v.with \in registered \/ e \notin registered
    BY DEF RowsFit, Readdressed, Replacing
  <2>3. v.with \in Uuids /\ registered \subseteq Invitees
    BY DEF OfferedInv, InviteOffered
  <2>4. v.with = e \/ v.with = PreCreated(e)
    BY <2>3, PersonOfUuid DEF Uuids
  <2>5. v.with \in Invitees => v.with \in registered
    BY DEF RowsFit, AccountsFirst
  <2>6. PreCreated(e) \notin Invitees
    BY DEF PreCreatedIsNew, PreCreated
  <2> QED BY <1>1, <2>1, <2>2, <2>3, <2>4, <2>5, <2>6
<1> QED BY <1>1, <1>2, <1>3 DEF Recipients

\* The recipients of an item are as many as its sharings and open invites.
LEMMA RecipientsAreRows ==
    ASSUME SharingConstants, PreCreatedIsNew, OfferedInv, RowsFit, NEW i \in Items
    PROVE  LET P == SharingsOf(i, "private")
               V == {v \in Open : v.item = i}
           IN  /\ IsFiniteSet(P) /\ IsFiniteSet(V)
               /\ Cardinality(P) + Cardinality(V) = Cardinality(Recipients(i))
<1> DEFINE P == SharingsOf(i, "private")
           V == {v \in Open : v.item = i}
<1>0. IsFiniteSet(Recipients(i))
  BY DEF RowsFit, Counted
<1>1. SharedTo(i) \in SUBSET Recipients(i) /\ OpenTo(i) \in SUBSET Recipients(i)
  BY DEF Recipients
<1>2. IsFiniteSet(SharedTo(i)) /\ IsFiniteSet(OpenTo(i))
  BY <1>0, <1>1, FS_Subset
<1>3. IsFiniteSet(P) /\ Cardinality(P) = Cardinality(SharedTo(i))
  <2> DEFINE f == [s \in P |-> s.with]
  <2>1. \A s \in P : s \in Private /\ s.item = i /\ s.with \in Invitees
    BY DEF SharingsOf, Private, OfferedInv, SharingOffered
  <2>2. \A s \in P : f[s] \in SharedTo(i)
    BY <2>1 DEF SharedTo
  <2>3. \A s, x \in P : f[s] = f[x] => s = x
    BY <2>1 DEF RowsFit, OneRowEach
  <2>4. \A e \in SharedTo(i) : \E s \in P : f[s] = e
    BY DEF SharedTo, SharingsOf, Private
  <2>5. f \in Injection(P, SharedTo(i)) /\ f \in Surjection(P, SharedTo(i))
    BY <2>2, <2>3, <2>4 DEF Injection, IsInjective, Surjection
  <2> HIDE DEF f, P
  <2> QED BY <1>2, <2>5, FS_Injection
<1>4. IsFiniteSet(V) /\ Cardinality(V) = Cardinality(OpenTo(i))
  <2> DEFINE g == [v \in V |-> Person(v.with)]
  <2>0. \A u \in Uuids : Person(u) \in Invitees
    BY PersonOfUuid DEF Uuids, SharingConstants
  <2>1. \A v \in V : v \in Open /\ v.item = i /\ Person(v.with) \in Invitees
    BY <2>0 DEF Open, OfferedInv, InviteOffered
  <2>2. \A v \in V : g[v] \in OpenTo(i)
    BY <2>1 DEF OpenTo
  <2>3. \A v, x \in V : g[v] = g[x] => v = x
    BY <2>1 DEF RowsFit, OneRowEach
  <2>4. \A e \in OpenTo(i) : \E v \in V : g[v] = e
    BY DEF OpenTo
  <2>5. g \in Injection(V, OpenTo(i)) /\ g \in Surjection(V, OpenTo(i))
    BY <2>2, <2>3, <2>4 DEF Injection, IsInjective, Surjection
  <2> HIDE DEF g, V
  <2> QED BY <1>2, <2>5, FS_Injection
<1>5. SharedTo(i) \cap OpenTo(i) = {}
  BY DEF SharedTo, OpenTo, RowsFit, OneRowEach
<1>6. Cardinality(SharedTo(i) \cap OpenTo(i)) = 0
  BY <1>5, FS_EmptySet
<1>7. Cardinality(Recipients(i)) =
         Cardinality(SharedTo(i)) + Cardinality(OpenTo(i)) - Cardinality(SharedTo(i) \cap OpenTo(i))
  BY <1>2, FS_Union DEF Recipients
<1>8. Cardinality(SharedTo(i)) \in Nat /\ Cardinality(OpenTo(i)) \in Nat
  BY <1>2, FS_CardinalityType
<1> QED BY <1>3, <1>4, <1>6, <1>7, <1>8

\* The limit leaves room for the invite that is about to be made.
LEMMA CreateInviteFits ==
    ASSUME SharingConstants, PreCreatedIsNew, OfferedInv, alone, Serial,
           NEW i \in Items, NEW e \in Invitees, NEW r, NEW persist \in BOOLEAN,
           createInvite(i, e, r, persist)
    PROVE  Serial'
<1> DEFINE op == IF persist THEN "insertInvite" ELSE "unpublish"
           u == userJoining(e)
<1>1. PICK n : /\ inflight = {} /\ inflight' = {n}
               /\ n.op = op /\ n.item = i /\ n.with = u
  <2>1. Begins(op, i, u, 0, r)
    BY HandlersBegin
  <2> QED BY <2>1 DEF Begins, Quiet
<1>2. /\ UNCHANGED <<status, invites, sharings, registered>>
      /\ mixed \subseteq mixed' /\ (persist => i \in mixed')
      /\ getInviteByItemAndUser(i, u) = {} /\ findOneSharing(i, u) = {}
      /\ Found(i) /\ ~ isItemBeingSharedAboveTheLimit(i)
  BY DEF createInvite
<1>3. RowsFit
  BY DEF Serial
<1>4. RowsLeft /\ \A x : ~ Accepted(x) /\ ~ Accepted(x)'
  <2>1. \A s, y \in sharings' : \E a, b \in sharings : Same(s, a) /\ Same(y, b) /\ (a = b => s = y)
    BY <1>2 DEF Same
  <2>2. \A x : ~ Accepted(x) /\ ~ Accepted(x)'
    BY <1>1 DEF Accepted
  <2> QED BY <1>2, <2>1, <2>2 DEF RowsLeft
<1>5. Counted'
  <2> SUFFICES ASSUME NEW j \in Items
               PROVE  /\ IsFiniteSet(Recipients(j)')
                      /\ Cardinality(Recipients(j)') + (IF Offering(j)' THEN 1 ELSE 0) <= Limit
    BY DEF Counted
  <2>1. Recipients(j)' = Recipients(j)
    BY <1>2, <1>4 DEF Recipients, SharedTo, OpenTo, Private, Open
  <2>2. IsFiniteSet(Recipients(j)) /\ Cardinality(Recipients(j)) + (IF Offering(j) THEN 1 ELSE 0) <= Limit
    BY <1>3 DEF RowsFit, Counted
  <2>3. ~ Offering(j) /\ (Offering(j)' => j = i)
    BY <1>1 DEF Offering
  <2>4. Cardinality(Recipients(j)) \in Nat /\ Limit \in Nat
    BY <2>2, FS_CardinalityType DEF SharingConstants
  <2>5. CASE j # i
    BY <2>1, <2>2, <2>3, <2>4, <2>5
  <2>6. CASE j = i
    <3>1. {v \in Open : v.item = i} = InvitesOf(i)
      BY <1>4 DEF Open, InvitesOf
    <3>2. Cardinality(SharingsOf(i, "private")) + Cardinality(InvitesOf(i)) = Cardinality(Recipients(i))
      BY <1>3, <3>1, RecipientsAreRows
    <3>3. Cardinality(Recipients(i)) + 1 <= Limit
      BY <1>2, <2>4, <2>6, <3>2 DEF isItemBeingSharedAboveTheLimit
    <3> QED BY <2>1, <2>2, <2>4, <2>6, <3>3
  <2> QED BY <2>5, <2>6
<1>6. RowsFit'
  <2>1. /\ \A j : ~ Revoking(j)
        /\ \A x : ~ Replacing(x)
    BY <1>1 DEF Revoking, Replacing
  <2>2. GoneUnshared'
    BY <1>2, <1>3, <1>4, <2>1, LeftFits DEF RowsFit, GoneUnshared
  <2>3. Readdressed'
    BY <1>2, <1>3, <2>1 DEF RowsFit, Readdressed
  <2> QED BY <1>2, <1>3, <1>4, <1>5, <2>2, <2>3, LeftFits DEF RowsFit
<1>7. RequestFits(n)'
  <2>1. NotGone(i)'
    BY <1>2, FoundIsNotGone DEF NotGone
  <2>2. Person(u) = e /\ e \notin Recipients(i) /\ (u \in registered \/ (u \notin Invitees /\ e \notin registered))
    BY <1>1, <1>2, <1>3, NewcomerIsNew
  <2>3. e \notin Recipients(i)'
    BY <1>3, <1>4, <2>2, LeftFits
  <2>4. Newcomer(n)'
    BY <1>1, <1>2, <2>2, <2>3 DEF Newcomer
  <2> QED BY <1>1, <1>2, <2>1, <2>4 DEF RequestFits
<1> QED BY <1>1, <1>6, <1>7 DEF Serial, OneAtATime

\* Between two requests a guest signs up, and the one that follows looks for the
\* invites of the pre-created user.
LEMMA SignUpFits ==
    ASSUME SharingConstants, PreCreatedIsNew, OfferedInv, alone, Serial, NEW e \in Guests, signUp(e)
    PROVE  Serial'
<1>1. PICK n : inflight = {} /\ inflight' = {n} /\ n.op = "readInvites" /\ n.with = e
  <2>1. PICK j : Begins("readInvites", j, e, 0, NoRole)
    BY SignUpBegins
  <2> QED BY <2>1 DEF Begins, Quiet
<1>2. /\ UNCHANGED <<status, invites, sharings, mixed>>
      /\ registered' = registered \cup {e}
  BY DEF signUp, Histories
<1>3. RowsFit
  BY DEF Serial
<1>4. RowsLeft
  <2>1. \A s, y \in sharings' : \E a, b \in sharings : Same(s, a) /\ Same(y, b) /\ (a = b => s = y)
    BY <1>2 DEF Same
  <2> QED BY <1>1, <1>2, <2>1 DEF RowsLeft, Accepted
<1>5. \A i : ~ Offering(i)' /\ ~ Revoking(i)
  BY <1>1 DEF Offering, Revoking
<1>6. Counted'
  BY <1>3, <1>4, <1>5, LeftFits, CountKept DEF RowsFit
<1>7. GoneUnshared'
  BY <1>2, <1>3, <1>4, <1>5, LeftFits DEF RowsFit, GoneUnshared
<1>8. Readdressed'
  <2>1. \A x : ~ Replacing(x)
    BY <1>1 DEF Replacing
  <2>2. Replacing(e)'
    BY <1>1 DEF Replacing
  <2> QED BY <1>2, <1>3, <2>1, <2>2 DEF RowsFit, Readdressed
<1>9. RowsFit'
  BY <1>2, <1>3, <1>4, <1>6, <1>7, <1>8, LeftFits DEF RowsFit
<1>10. RequestFits(n)'
  BY <1>1, <1>2 DEF RequestFits
<1> QED BY <1>1, <1>9, <1>10 DEF Serial, OneAtATime

\* The two halves of a move to the trash.
LEMMA MoveToTrashFits ==
    ASSUME SharingConstants, alone, Serial, NEW i, moveToTrash(i)
    PROVE  Serial'
<1>1. PICK row, x :
         /\ inflight = {} /\ inflight' = {row, x}
         /\ row.op = "trashRow" /\ row.item = i /\ x.op = "bulkDeleteInvites" /\ x.item = i
  <2>1. PICK row, nr :
           /\ row = Numbered(NewRequest("trashRow", Owner, i))
           /\ inflight' = inflight \cup {row, [NewRequest("bulkDeleteInvites", Owner, i) EXCEPT !.nr = nr]}
    BY DEF moveToTrash
  <2>2. PICK x : x = [NewRequest("bulkDeleteInvites", Owner, i) EXCEPT !.nr = nr]
    OBVIOUS
  <2>3. x.op = "bulkDeleteInvites" /\ x.item = i
    BY <2>2 DEF NewRequest
  <2>4. PICK q : q = NewRequest("trashRow", Owner, i)
    OBVIOUS
  <2>5. IsRequest(q) /\ q.op = "trashRow" /\ q.item = i
    BY <2>4 DEF NewRequest, IsRequest
  <2>6. PICK k : row = [nr |-> k, op |-> q.op, by |-> q.by, item |-> q.item, with |-> q.with,
                        id |-> q.id, sharing |-> q.sharing, role |-> q.role, ids |-> q.ids]
    BY <2>1, <2>4, <2>5, NumberedIs
  <2>7. row.op = "trashRow" /\ row.item = i
    BY <2>5, <2>6
  <2>8. inflight = {}
    BY DEF moveToTrash, Quiet
  <2> QED BY <2>1, <2>2, <2>3, <2>7, <2>8
<1>2. UNCHANGED <<status, invites, sharings, registered, mixed>>
  BY DEF moveToTrash, Histories
<1>3. RowsLeft
  <2>1. \A s, y \in sharings' : \E a, b \in sharings : Same(s, a) /\ Same(y, b) /\ (a = b => s = y)
    BY <1>2 DEF Same
  <2> QED BY <1>1, <1>2, <2>1 DEF RowsLeft, Accepted
<1>4. /\ \A j : ~ Offering(j)' /\ ~ Revoking(j)
      /\ \A e : ~ Replacing(e)
  BY <1>1 DEF Offering, Revoking, Replacing
<1>5. RowsFit'
  BY <1>2, <1>3, <1>4, RowsKept DEF Serial
<1>6. Revoking(i)'
  BY <1>1 DEF Revoking, Bulk
<1>7. RequestFits(row)' /\ RequestFits(x)'
  BY <1>1, <1>6 DEF RequestFits
<1>8. OneAtATime'
  BY <1>1 DEF OneAtATime, Pair, Bulk
<1> QED BY <1>1, <1>5, <1>7, <1>8 DEF Serial

\* Steps between two requests.
LEMMA AtRestFits ==
    ASSUME SharingConstants, alone, Serial, NEW i, changeSharingType(i) \/ leaveTrash(i)
    PROVE  Serial'
<1>1. inflight = {} /\ inflight' = {} /\ UNCHANGED <<invites, registered, mixed>>
  BY DEF changeSharingType, leaveTrash, Quiet, Histories
<1>2. RowsLeft
  <2>1. \A s \in sharings' : s \in sharings
    BY DEF changeSharingType, leaveTrash
  <2>2. \A s, y \in sharings' : \E a, b \in sharings : Same(s, a) /\ Same(y, b) /\ (a = b => s = y)
    BY <2>1 DEF Same
  <2> QED BY <1>1, <2>2 DEF RowsLeft, Accepted
<1>3. /\ \A j : ~ Offering(j)' /\ ~ Revoking(j)
      /\ \A e : ~ Replacing(e)
  BY <1>1 DEF Offering, Revoking, Replacing
<1>4. CASE changeSharingType(i)
  <2>1. UNCHANGED status
    BY <1>4 DEF changeSharingType
  <2>2. RowsFit'
    BY <1>1, <1>2, <1>3, <2>1, RowsKept DEF Serial
  <2> QED BY <1>1, <2>2 DEF Serial, OneAtATime
<1>5. CASE leaveTrash(i)
  <2>1. PICK to \in {"EXISTS", "DELETED"} : status[i] = "TRASHED" /\ status' = [status EXCEPT ![i] = to]
    BY <1>5 DEF leaveTrash
  <2>2. status \in [Items -> {"EXISTS", "TRASHED", "DELETED"}]
    BY DEF Serial, RowsFit
  <2>3. status' \in [Items -> {"EXISTS", "TRASHED", "DELETED"}]
    BY <2>1, <2>2
  <2>4. \A j \in Folders : status[j] = "EXISTS" => status'[j] = "EXISTS"
    BY <2>1, <2>2 DEF Items
  <2>5. GoneUnshared'
    BY <1>2, <1>3, <2>4, LeftFits DEF Serial, RowsFit, GoneUnshared
  <2>6. Readdressed'
    BY <1>1, <1>3 DEF Serial, RowsFit, Readdressed
  <2>7. Counted'
    BY <1>2, <1>3, LeftFits, CountKept DEF Serial, RowsFit
  <2>8. RowsFit'
    BY <1>2, <2>3, <2>5, <2>6, <2>7, LeftFits DEF Serial, RowsFit
  <2> QED BY <1>1, <2>8 DEF Serial, OneAtATime
<1> QED BY <1>4, <1>5

\* All of these.
LEMMA BeginningsFit ==
    ASSUME SharingConstants, PreCreatedIsNew, OfferedInv, alone, Serial
    PROVE  /\ \A i \in Items, persist \in BOOLEAN :
                 /\ \A u \in Invitees \cup {Owner} : createPublicSharing(u, i, persist) => Serial'
                 /\ \A e \in Invitees, r \in Roles : createInvite(i, e, r, persist) => Serial'
           /\ \A v \in invites :
                 /\ validateInvite(v) => Serial'
                 /\ \A e \in registered : acceptInvite(e, v) => Serial'
                 /\ \A u \in registered \cup {Owner} : removeInvite(u, v) => Serial'
           /\ \A s \in sharings :
                 /\ \A r \in Roles : updateSharingRole(s, r) => Serial'
                 /\ \A u \in registered \cup {Owner} :
                       removeSharedWith(u, s) \/ removeSharingRole(u, s) => Serial'
           /\ \A i \in Items : removeSharing(i) => Serial'
<1>1. ASSUME NEW i \in Items, NEW persist \in BOOLEAN, NEW u, createPublicSharing(u, i, persist)
      PROVE  Serial'
  <2>1. /\ UNCHANGED <<status, invites, sharings, registered>>
        /\ mixed \subseteq mixed' /\ (persist => i \in mixed') /\ NotGone(i)
    BY <1>1, FoundIsNotGone DEF createPublicSharing
  <2>2. Begins(IF persist THEN "findPublic" ELSE "uninvite", i, Anyone, 0, NoRole)
    BY <1>1, HandlersBegin
  <2>3. CASE persist
    <3>1. Begins("findPublic", i, Anyone, 0, NoRole)
      BY <2>2, <2>3
    <3> QED BY <2>1, <2>3, <3>1, BeginFits
  <2>4. CASE ~ persist
    <3>1. Begins("uninvite", i, Anyone, 0, NoRole)
      BY <2>2, <2>4
    <3> QED BY <2>1, <3>1, BeginFits
  <2> QED BY <2>3, <2>4
<1>2. ASSUME NEW v \in invites, NEW e \in registered, acceptInvite(e, v)
      PROVE  Serial'
  <2>1. v.item \in Items
    BY DEF OfferedInv, InviteOffered
  <2>2. /\ UNCHANGED <<status, invites, sharings, registered, mixed>>
        /\ NotGone(v.item) /\ v.with = e
    BY <1>2, <2>1, FoundIsNotGone DEF acceptInvite, Histories
  <2>3. Begins("insertSharing", v.item, e, v.id, v.role)
    BY <1>2, HandlersBegin
  <2> QED BY <2>2, <2>3, BeginFits
<1>3. ASSUME NEW v \in invites, NEW u, removeInvite(u, v) \/ validateInvite(v)
      PROVE  Serial'
  <2>1. UNCHANGED <<status, invites, sharings, registered, mixed>>
    BY <1>3 DEF removeInvite, validateInvite, Histories
  <2>2. Begins("deleteInvite", v.item, Anyone, v.id, NoRole)
    BY <1>3, HandlersBegin
  <2> QED BY <2>1, <2>2, BeginFits
<1>4. ASSUME NEW s \in sharings, NEW u, NEW r,
             updateSharingRole(s, r) \/ removeSharedWith(u, s) \/ removeSharingRole(u, s)
      PROVE  Serial'
  <2>1. UNCHANGED <<status, invites, sharings, registered, mixed>>
    BY <1>4 DEF updateSharingRole, removeSharedWith, removeSharingRole, Histories
  <2>2. PICK op, x : /\ op \in {"updateRole", "deleteRole"}
                     /\ Begins(op, s.item, Anyone, 0, x)
    <3>1. CASE updateSharingRole(s, r)
      <4>1. Begins("updateRole", s.item, Anyone, 0, r)
        BY <3>1, HandlersBegin
      <4> QED BY <4>1
    <3>2. CASE removeSharingRole(u, s)
      <4>1. Begins("updateRole", s.item, Anyone, 0, NoRole)
        BY <3>2, HandlersBegin
      <4> QED BY <4>1
    <3>3. CASE removeSharedWith(u, s)
      <4>1. Begins("deleteRole", s.item, Anyone, 0, NoRole)
        BY <3>3, HandlersBegin
      <4> QED BY <4>1
    <3> QED BY <1>4, <3>1, <3>2, <3>3
  <2> QED BY <2>1, <2>2, BeginFits
<1>5. ASSUME NEW i \in Items, removeSharing(i) PROVE Serial'
  BY <1>5, HandlersBegin, BeginFits DEF removeSharing, Histories
<1> QED BY <1>1, <1>2, <1>3, <1>4, <1>5, CreateInviteFits

----------------------------------------------------------------------------
(* Steps of the request that is under way.                                 *)

LEMMA OnlyRequest ==
    ASSUME OneAtATime, NEW w \in inflight, w.op \notin Bulk \cup {"trashRow"}
    PROVE  inflight = {w}
BY DEF OneAtATime, Pair

\* What goes on is what was under way, at its next statement.
LEMMA GoesOnIs ==
    ASSUME OfferedInv, NEW w \in inflight, NEW op, GoesOn(w, op)
    PROVE  \E to : /\ inflight' = (inflight \ {w}) \cup {to}
                   /\ to.op = op /\ to.item = w.item /\ to.with = w.with /\ to.id = w.id
                   /\ to.sharing = w.sharing /\ to.ids = w.ids
<1>1. PICK to : to = [w EXCEPT !.op = op]
  OBVIOUS
<1>2. IsRequest(w)
  BY DEF OfferedInv, RequestOffered
<1>3. to = [nr |-> w.nr, op |-> op, by |-> w.by, item |-> w.item, with |-> w.with,
            id |-> w.id, sharing |-> w.sharing, role |-> w.role, ids |-> w.ids]
  BY <1>1, <1>2 DEF IsRequest
<1> QED BY <1>1, <1>3 DEF GoesOn, Goes

\* A request that adds no row, and ends.
LEMMA LastStep ==
    ASSUME SharingConstants, Serial, NEW w \in inflight, Done(w), RowsLeft,
           UNCHANGED <<status, registered>>,
           w.op \notin Bulk \cup {"trashRow", "readInvites", "readdress"}
    PROVE  Serial'
<1>1. inflight = {w} /\ inflight' = {}
  BY OnlyRequest DEF Serial, Done
<1>2. /\ \A i : ~ Offering(i)' /\ ~ Revoking(i)
      /\ \A e : ~ Replacing(e)
  BY <1>1 DEF Offering, Revoking, Replacing
<1>3. RowsFit'
  BY <1>2, RowsKept DEF Serial
<1> QED BY <1>1, <1>3 DEF Serial, OneAtATime

\* A request that adds no row, and goes on.
LEMMA NextStep ==
    ASSUME SharingConstants, Serial, NEW w \in inflight, NEW to,
           inflight' = (inflight \ {w}) \cup {to}, RowsLeft, UNCHANGED <<status, registered>>,
           w.op \notin Bulk \cup {"trashRow", "readInvites", "readdress"},
           to.op \in {"unpublish", "insertInvite"} =>
              w.op \in {"unpublish", "insertInvite"} /\ to.item = w.item,
           RequestFits(to)'
    PROVE  Serial'
<1>1. inflight = {w} /\ inflight' = {to}
  BY OnlyRequest DEF Serial
<1>2. /\ \A i : (Offering(i)' => Offering(i)) /\ ~ Revoking(i)
      /\ \A e : ~ Replacing(e)
  BY <1>1 DEF Offering, Revoking, Replacing
<1>3. RowsFit'
  BY <1>2, RowsKept DEF Serial
<1> QED BY <1>1, <1>3 DEF Serial, OneAtATime

\* Sharings that stay as they are, or go.
LEMMA SharingsGo ==
    ASSUME \A s \in sharings' : s \in sharings
    PROVE  \A s, y \in sharings' : \E a, b \in sharings : Same(s, a) /\ Same(y, b) /\ (a = b => s = y)
BY DEF Same

LEMMA InviteSteps ==
    ASSUME SharingConstants, OfferedInv, Serial, NEW w \in inflight,
           createInviteUnpublishes(w) \/ createInviteMailed(w) \/ acceptInviteDeletes(w) \/ deleteInvite(w)
    PROVE  Serial'
<1>1. CASE createInviteUnpublishes(w)
  <2>1. w.op = "unpublish" /\ inflight = {w}
    BY <1>1, OnlyRequest DEF createInviteUnpublishes, Serial, Bulk
  <2>2. PICK to : /\ inflight' = (inflight \ {w}) \cup {to}
                  /\ to.op = "insertInvite" /\ to.item = w.item /\ to.with = w.with
    BY <1>1, GoesOnIs DEF createInviteUnpublishes
  <2>3. /\ sharings' = sharings \ SharingsOf(w.item, "public")
        /\ UNCHANGED <<status, invites, registered, mixed>>
    BY <1>1 DEF createInviteUnpublishes, Histories
  <2>4. RowsLeft
    BY <2>1, <2>3, SharingsGo DEF RowsLeft, Accepted
  <2>5. NotGone(w.item) /\ Newcomer(w)
    BY <2>1 DEF Serial, RequestFits
  <2>6. Newcomer(to)'
    <3>1. Recipients(w.item)' \subseteq Recipients(w.item)
      BY <2>4, LeftFits DEF Serial
    <3> QED BY <2>2, <2>3, <2>5, <3>1 DEF Newcomer
  <2>7. NoPublic(w.item)' /\ NotGone(w.item)'
    BY <2>3, <2>5 DEF NoPublic, SharingsOf, NotGone
  <2>8. RequestFits(to)'
    BY <2>2, <2>6, <2>7 DEF RequestFits
  <2> QED BY <2>1, <2>2, <2>3, <2>4, <2>8, NextStep DEF Bulk
<1>2. CASE createInviteMailed(w) \/ acceptInviteDeletes(w) \/ deleteInvite(w)
  <2>1. /\ w.op \in {"mailGuest", "deleteAccepted", "deleteInvite"} /\ Done(w)
        /\ UNCHANGED <<status, sharings, registered, mixed>>
        /\ \A v \in invites' : v \in invites
        /\ w.op = "deleteAccepted" => \A v \in invites' : v.id # w.id
    BY <1>2 DEF createInviteMailed, acceptInviteDeletes, deleteInvite, Histories
  <2>2. inflight = {w}
    BY <2>1, OnlyRequest DEF Serial, Bulk
  <2>3. RowsLeft
    BY <2>1, <2>2, SharingsGo DEF RowsLeft, Accepted
  <2> QED BY <2>1, <2>3, LastStep DEF Bulk
<1> QED BY <1>1, <1>2

LEMMA PublishSteps ==
    ASSUME SharingConstants, OfferedInv, Serial, NEW w \in inflight,
           removeItemFromBeingShared(w) \/ createPublicSharingFinds(w)
    PROVE  Serial'
<1>1. /\ \A s \in sharings' : s \in sharings
      /\ \A v \in invites' : v \in invites
      /\ UNCHANGED <<status, registered, mixed>>
      /\ w.op \in {"uninvite", "unshare", "findPublic"}
  BY DEF removeItemFromBeingShared, createPublicSharingFinds, Histories
<1>2. inflight = {w}
  BY <1>1, OnlyRequest DEF Serial, Bulk
<1>3. RowsLeft
  BY <1>1, <1>2, SharingsGo DEF RowsLeft, Accepted
<1>4. RequestFits(w)
  BY DEF Serial
<1>5. NotGone(w.item)'
  BY <1>1, <1>4 DEF RequestFits, NotGone
<1>6. /\ NoInvite(w.item) => NoInvite(w.item)'
      /\ NoPrivate(w.item) => NoPrivate(w.item)'
  BY <1>3, LeftFits DEF Serial
<1>7. CASE Done(w)
  BY <1>1, <1>3, <1>7, LastStep DEF Bulk
<1>8. CASE w.op = "uninvite"
  <2>1. invites' = invites \ InvitesOf(w.item) /\ GoesOn(w, "unshare")
    BY <1>8 DEF removeItemFromBeingShared, createPublicSharingFinds
  <2>2. PICK to : inflight' = (inflight \ {w}) \cup {to} /\ to.op = "unshare" /\ to.item = w.item
    BY <2>1, GoesOnIs
  <2>3. NoInvite(w.item)'
    BY <2>1 DEF NoInvite, InvitesOf
  <2>4. RequestFits(to)'
    BY <1>5, <2>2, <2>3 DEF RequestFits
  <2> QED BY <1>1, <1>3, <1>8, <2>2, <2>4, NextStep DEF Bulk
<1>9. CASE w.op = "unshare"
  <2>1. sharings' = sharings \ SharingsOf(w.item, "private") /\ GoesOn(w, "findPublic")
    BY <1>9 DEF removeItemFromBeingShared, createPublicSharingFinds
  <2>2. PICK to : inflight' = (inflight \ {w}) \cup {to} /\ to.op = "findPublic" /\ to.item = w.item
    BY <2>1, GoesOnIs
  <2>3. NoPrivate(w.item)'
    BY <2>1 DEF NoPrivate, Private, SharingsOf
  <2>4. w.item \in mixed' \/ NoInvite(w.item)'
    BY <1>1, <1>4, <1>6, <1>9 DEF RequestFits
  <2>5. RequestFits(to)'
    BY <1>5, <2>2, <2>3, <2>4 DEF RequestFits
  <2> QED BY <1>1, <1>3, <1>9, <2>2, <2>5, NextStep DEF Bulk
<1>10. CASE w.op = "findPublic" /\ GoesOn(w, "insertPublic")
  <2>1. PICK to : inflight' = (inflight \ {w}) \cup {to} /\ to.op = "insertPublic" /\ to.item = w.item
    BY <1>10, GoesOnIs
  <2>2. w.item \in mixed' \/ (NoInvite(w.item)' /\ NoPrivate(w.item)')
    BY <1>1, <1>4, <1>6, <1>10 DEF RequestFits
  <2>3. RequestFits(to)'
    BY <1>5, <2>1, <2>2 DEF RequestFits
  <2> QED BY <1>1, <1>3, <1>10, <2>1, <2>3, NextStep DEF Bulk
<1> QED BY <1>1, <1>7, <1>8, <1>9, <1>10 DEF removeItemFromBeingShared, createPublicSharingFinds

\* Sharings that change their role, or go.
LEMMA RoleSteps ==
    ASSUME SharingConstants, OfferedInv, Serial, NEW w \in inflight,
           removeSharedWithDeletes(w) \/ updateSharingRoleBy(w)
    PROVE  Serial'
<1>1. /\ UNCHANGED <<status, invites, registered, mixed>>
      /\ w.op \in {"deleteRole", "deleteSharing", "updateRole"}
  BY DEF removeSharedWithDeletes, updateSharingRoleBy, Histories
<1>2. inflight = {w}
  BY <1>1, OnlyRequest DEF Serial, Bulk
<1>3. \A s, y \in sharings' : \E a, b \in sharings : Same(s, a) /\ Same(y, b) /\ (a = b => s = y)
  <2>1. CASE w.op = "deleteSharing"
    <3>1. \A s \in sharings' : s \in sharings
      BY <2>1 DEF removeSharedWithDeletes, updateSharingRoleBy
    <3> QED BY <3>1, SharingsGo
  <2>2. CASE w.op = "deleteRole"
    <3>1. PICK T : T = {s \in sharings : s.id = w.sharing}
      OBVIOUS
    <3>2. RolesChange(T, NoRole)
      BY <2>2, <3>1 DEF removeSharedWithDeletes, updateSharingRoleBy, RolesChange
    <3> QED BY <3>2, RolesLeft
  <2>3. CASE w.op = "updateRole"
    <3>1. PICK T, r : T = {s \in sharings : s.id = w.sharing /\ s.role # NoRole} /\ r = w.role
      OBVIOUS
    <3>2. RolesChange(T, r)
      <4>1. updateSharingRoleBy(w)
        BY <2>3 DEF removeSharedWithDeletes
      <4>2. sharings' = {IF s.id = w.sharing /\ s.role # NoRole
                         THEN [s EXCEPT !.role = w.role] ELSE s : s \in sharings}
        BY <4>1 DEF updateSharingRoleBy
      <4> QED BY <3>1, <4>2 DEF RolesChange
    <3> QED BY <3>2, RolesLeft
  <2> QED BY <1>1, <2>1, <2>2, <2>3
<1>4. RowsLeft
  BY <1>1, <1>2, <1>3 DEF RowsLeft, Accepted
<1>5. CASE Done(w)
  BY <1>1, <1>4, <1>5, LastStep DEF Bulk
<1>6. CASE GoesOn(w, "deleteSharing")
  <2>1. PICK to : inflight' = (inflight \ {w}) \cup {to} /\ to.op = "deleteSharing"
    BY <1>6, GoesOnIs
  <2>2. RequestFits(to)'
    BY <2>1 DEF RequestFits
  <2> QED BY <1>1, <1>4, <2>1, <2>2, NextStep DEF Bulk
<1> QED BY <1>5, <1>6 DEF removeSharedWithDeletes, updateSharingRoleBy

----------------------------------------------------------------------------
(* Steps that add a row, and what happens beside the requests.             *)

\* A new invite is for a newcomer to the item, and was counted already.
LEMMA InviteFits ==
    ASSUME SharingConstants, PreCreatedIsNew, OfferedInv, Serial, NEW w \in inflight,
           createInviteInsert(w)
    PROVE  Serial'
<1>1. PICK n : n = [id |-> FreshInvite, item |-> w.item, with |-> w.with, role |-> w.role,
                    expires |-> w.with \notin Invitees]
  OBVIOUS
<1>2. /\ w.op = "insertInvite" /\ inflight = {w}
      /\ invites' = invites \cup {n} /\ n.item = w.item /\ n.with = w.with
      /\ UNCHANGED <<status, sharings, registered, mixed>>
  BY <1>1, OnlyRequest DEF createInviteInsert, Serial, Bulk
<1>3. \A x \in inflight' : x.op = "mailGuest"
  <2>1. CASE Done(w)
    BY <1>2, <2>1 DEF Done
  <2>2. CASE Goes(w, [w EXCEPT !.op = "mailGuest", !.id = FreshInvite])
    <3>1. PICK to : to = [w EXCEPT !.op = "mailGuest", !.id = FreshInvite]
      OBVIOUS
    <3>2. IsRequest(w)
      BY DEF OfferedInv, RequestOffered
    <3>3. to = [nr |-> w.nr, op |-> "mailGuest", by |-> w.by, item |-> w.item, with |-> w.with,
                id |-> FreshInvite, sharing |-> w.sharing, role |-> w.role, ids |-> w.ids]
      BY <3>1, <3>2 DEF IsRequest
    <3> QED BY <1>2, <2>2, <3>1, <3>3 DEF Goes
  <2> QED BY <2>1, <2>2 DEF createInviteInsert
<1>4. \A x, y \in inflight' : x = y
  BY <1>2 DEF createInviteInsert, Done, Goes
<1>5. NotGone(w.item) /\ Newcomer(w) /\ (w.item \in mixed \/ NoPublic(w.item)) /\ RowsFit
  BY <1>2 DEF Serial, RequestFits
<1>6. w.item \in Items /\ w.with \in Uuids
  BY <1>2 DEF OfferedInv, RequestOffered
<1>7. /\ \A x : ~ Accepted(x) /\ ~ Accepted(x)'
      /\ \A i : Offering(i) <=> i = w.item
      /\ \A i : ~ Offering(i)' /\ ~ Revoking(i) /\ ~ Revoking(i)'
      /\ \A e : ~ Replacing(e)
  BY <1>2, <1>3 DEF Accepted, Offering, Revoking, Replacing, Bulk
<1>8. Open = invites /\ Open' = Open \cup {n}
  BY <1>2, <1>7 DEF Open
<1>9. Private' = Private
  BY <1>2 DEF Private
<1>10. Person(w.with) \in Invitees
  BY <1>6, PersonOfUuid DEF Uuids, SharingConstants
<1>11. /\ \A v \in Open : v.item = w.item => Person(v.with) # Person(w.with)
       /\ \A s \in Private : s.item = w.item => s.with # Person(w.with)
  BY <1>5, <1>10 DEF Newcomer, Recipients, SharedTo, OpenTo
<1>12. OneRowEach'
  <2>1. OneRowEach
    BY <1>5 DEF RowsFit
  <2>2. \A v, x \in Open \cup {n} : v.item = x.item /\ Person(v.with) = Person(x.with) => v = x
    BY <1>2, <1>11, <2>1 DEF OneRowEach
  <2>3. \A v \in Open \cup {n}, s \in Private : v.item = s.item => Person(v.with) # s.with
    BY <1>2, <1>11, <2>1 DEF OneRowEach
  <2> QED BY <1>8, <1>9, <2>1, <2>2, <2>3 DEF OneRowEach
<1>13. PublicExcludes'
  BY <1>2, <1>5, <1>9 DEF RowsFit, PublicExcludes, NoPublic, NoPrivate, NoInvite
<1>14. GoneUnshared'
  BY <1>2, <1>5, <1>7 DEF RowsFit, GoneUnshared, NotGone, NoRow, NoInvite
<1>15. Readdressed'
  <2>1. w.with \in registered \/ Person(w.with) \notin registered
    BY <1>5 DEF Newcomer
  <2> QED BY <1>2, <1>5, <1>7, <2>1 DEF RowsFit, Readdressed
<1>16. AccountsFirst'
  <2>1. w.with \in Invitees => w.with \in registered
    BY <1>5 DEF Newcomer
  <2> QED BY <1>2, <1>5, <1>9, <2>1 DEF RowsFit, AccountsFirst
<1>17. Counted'
  <2> SUFFICES ASSUME NEW i \in Items
               PROVE  /\ IsFiniteSet(Recipients(i)')
                      /\ Cardinality(Recipients(i)') + (IF Offering(i)' THEN 1 ELSE 0) <= Limit
    BY DEF Counted
  <2>1. IsFiniteSet(Recipients(i)) /\ Cardinality(Recipients(i)) + (IF Offering(i) THEN 1 ELSE 0) <= Limit
    BY <1>5 DEF RowsFit, Counted
  <2>2. Cardinality(Recipients(i)) \in Nat /\ Limit \in Nat
    BY <2>1, FS_CardinalityType DEF SharingConstants
  <2>3. SharedTo(i)' = SharedTo(i)
    BY <1>9 DEF SharedTo
  <2>4. CASE i # w.item
    <3>1. OpenTo(i)' = OpenTo(i)
      BY <1>2, <1>8, <2>4 DEF OpenTo
    <3>2. Recipients(i)' = Recipients(i)
      BY <2>3, <3>1 DEF Recipients
    <3> QED BY <1>7, <2>1, <2>2, <2>4, <3>2
  <2>5. CASE i = w.item
    <3>1. OpenTo(i)' = OpenTo(i) \cup {Person(w.with)}
      BY <1>2, <1>8, <1>10, <2>5 DEF OpenTo
    <3>2. Recipients(i)' = Recipients(i) \cup {Person(w.with)}
      BY <2>3, <3>1 DEF Recipients
    <3>3. Person(w.with) \notin Recipients(i)
      BY <1>5, <2>5 DEF Newcomer
    <3>4. IsFiniteSet(Recipients(i)') /\ Cardinality(Recipients(i)') = Cardinality(Recipients(i)) + 1
      BY <2>1, <3>2, <3>3, FS_AddElement
    <3> QED BY <1>7, <2>1, <2>2, <2>5, <3>4
  <2> QED BY <2>4, <2>5
<1>18. RowsFit'
  BY <1>2, <1>5, <1>12, <1>13, <1>14, <1>15, <1>16, <1>17 DEF RowsFit
<1>19. \A x \in inflight' : RequestFits(x)'
  BY <1>3 DEF RequestFits
<1> QED BY <1>4, <1>18, <1>19 DEF Serial, OneAtATime

\* A public sharing is of an item that is private no more, or is meant to be both.
LEMMA PublicFits ==
    ASSUME SharingConstants, OfferedInv, Serial, NEW w \in inflight, createPublicSharingInsert(w)
    PROVE  Serial'
<1>1. PICK n : n = [id |-> FreshSharing, item |-> w.item, with |-> Anyone, type |-> "public",
                    role |-> NoRole]
  OBVIOUS
<1>2. /\ w.op = "insertPublic" /\ inflight = {w} /\ inflight' = {}
      /\ sharings' = sharings \cup {n} /\ n.item = w.item /\ n.type = "public"
      /\ UNCHANGED <<status, invites, registered, mixed>>
  BY <1>1, OnlyRequest DEF createPublicSharingInsert, Serial, Bulk, Done, Histories
<1>3. /\ NotGone(w.item) /\ RowsFit
      /\ w.item \in mixed \/ (NoInvite(w.item) /\ NoPrivate(w.item))
  BY <1>2 DEF Serial, RequestFits
<1>4. Private' = Private
  BY <1>2 DEF Private
<1>5. /\ \A x : ~ Accepted(x) /\ ~ Accepted(x)'
      /\ \A i : ~ Offering(i)' /\ ~ Revoking(i) /\ ~ Revoking(i)'
      /\ \A e : ~ Replacing(e)
  BY <1>2 DEF Accepted, Offering, Revoking, Replacing, Bulk
<1>6. Open' = Open
  BY <1>2, <1>5 DEF Open
<1>7. OneRowEach'
  BY <1>3, <1>4, <1>6 DEF RowsFit, OneRowEach
<1>8. PublicExcludes'
  BY <1>2, <1>3, <1>4 DEF RowsFit, PublicExcludes, NoPublic, NoPrivate, NoInvite
<1>9. GoneUnshared'
  BY <1>2, <1>3, <1>5 DEF RowsFit, GoneUnshared, NotGone, NoRow, NoInvite
<1>10. Readdressed'
  BY <1>2, <1>3, <1>5 DEF RowsFit, Readdressed
<1>11. AccountsFirst'
  BY <1>2, <1>3, <1>4 DEF RowsFit, AccountsFirst
<1>12. Counted'
  <2>1. \A i : Recipients(i)' = Recipients(i)
    BY <1>4, <1>6 DEF Recipients, SharedTo, OpenTo
  <2> QED BY <1>3, <1>5, <2>1, CountKept DEF RowsFit
<1>13. RowsFit'
  BY <1>2, <1>3, <1>7, <1>8, <1>9, <1>10, <1>11, <1>12 DEF RowsFit
<1> QED BY <1>2, <1>13 DEF Serial, OneAtATime

\* The sharing of an acceptance takes the place of its invite.
LEMMA AcceptFits ==
    ASSUME SharingConstants, PreCreatedIsNew, OfferedInv, Serial, NEW w \in inflight,
           acceptInviteInserts(w)
    PROVE  Serial'
<1>1. /\ UNCHANGED <<status, invites, registered, mixed>>
      /\ w.op \in {"insertSharing", "insertRole"} /\ inflight = {w}
  BY OnlyRequest DEF acceptInviteInserts, Serial, Bulk, Histories
<1>2. RequestFits(w) /\ RowsFit
  BY DEF Serial
<1>3. CASE w.op = "insertRole"
  <2>1. PICK T, r : T = {s \in sharings : s.id = w.sharing} /\ r = w.role
    OBVIOUS
  <2>2. RolesChange(T, r)
    BY <1>3, <2>1 DEF acceptInviteInserts, RolesChange
  <2>3. \A s, y \in sharings' : \E a, b \in sharings : Same(s, a) /\ Same(y, b) /\ (a = b => s = y)
    BY <2>2, RolesLeft
  <2>4. GoesOn(w, "deleteAccepted")
    BY <1>2, <1>3 DEF acceptInviteInserts, RequestFits
  <2>5. PICK to : inflight' = (inflight \ {w}) \cup {to} /\ to.op = "deleteAccepted" /\ to.id = w.id
    BY <2>4, GoesOnIs
  <2>6. RowsLeft
    BY <1>1, <2>3, <2>5 DEF RowsLeft, Accepted
  <2>7. RequestFits(to)'
    BY <2>5 DEF RequestFits
  <2> QED BY <1>1, <1>3, <2>5, <2>6, <2>7, NextStep DEF Bulk
<1>4. CASE w.op = "insertSharing"
  <2>1. PICK n, to :
           /\ n = [id |-> FreshSharing, item |-> w.item, with |-> w.with,
                   type |-> "private", role |-> NoRole]
           /\ to = [w EXCEPT !.op = "insertRole", !.sharing = FreshSharing]
    OBVIOUS
  <2>2. /\ sharings' = sharings \cup {n}
        /\ inflight' = (inflight \ {w}) \cup {to}
    BY <1>4, <2>1 DEF acceptInviteInserts, Goes
  <2>3. IsRequest(w) /\ w.with \in Invitees
    BY <1>4 DEF OfferedInv, RequestOffered
  <2>4. to = [nr |-> w.nr, op |-> "insertRole", by |-> w.by, item |-> w.item, with |-> w.with,
              id |-> w.id, sharing |-> FreshSharing, role |-> w.role, ids |-> w.ids]
    BY <2>1, <2>3 DEF IsRequest
  <2>5. /\ inflight' = {to} /\ to.op = "insertRole" /\ to.id = w.id /\ to.sharing = FreshSharing
        /\ n.id = FreshSharing /\ n.item = w.item /\ n.with = w.with /\ n.type = "private"
    BY <1>1, <2>1, <2>2, <2>4
  <2>6. PICK a \in invites : a.id = w.id /\ a.item = w.item /\ a.with = w.with
    BY <1>2, <1>4 DEF RequestFits
  <2>7. NotGone(w.item) /\ w.with \in registered /\ Person(w.with) = w.with
    BY <1>2, <1>4, <2>3, PersonOfUuid DEF RequestFits
  <2>8. /\ \A x : ~ Accepted(x) /\ (Accepted(x)' <=> x.id = w.id)
        /\ \A i : ~ Offering(i)' /\ ~ Revoking(i) /\ ~ Revoking(i)'
        /\ \A e : ~ Replacing(e)
    BY <1>1, <1>4, <2>5 DEF Accepted, Offering, Revoking, Replacing, Bulk
  <2>9. Open = invites /\ (\A v \in Open' : v \in Open /\ v # a)
    BY <1>1, <2>6, <2>8 DEF Open
  <2>10. Private' = Private \cup {n}
    BY <2>2, <2>5 DEF Private
  <2>11. \A v \in Open' : v.item = w.item => Person(v.with) # w.with
    BY <1>2, <2>6, <2>7, <2>9 DEF RowsFit, OneRowEach
  <2>12. \A s \in Private : s.item = w.item => s.with # w.with
    BY <1>2, <2>6, <2>7, <2>9 DEF RowsFit, OneRowEach
  <2>13. OneRowEach'
    <3>1. \A v, x \in Open' : v.item = x.item /\ Person(v.with) = Person(x.with) => v = x
      BY <1>2, <2>9 DEF RowsFit, OneRowEach
    <3>2. \A s, x \in Private \cup {n} : s.item = x.item /\ s.with = x.with => s = x
      BY <1>2, <2>5, <2>12 DEF RowsFit, OneRowEach
    <3>3. \A v \in Open', s \in Private \cup {n} : v.item = s.item => Person(v.with) # s.with
      BY <1>2, <2>5, <2>9, <2>11 DEF RowsFit, OneRowEach
    <3> QED BY <2>10, <3>1, <3>2, <3>3 DEF OneRowEach
  <2>14. PublicExcludes'
    <3>1. ~ NoInvite(w.item)
      BY <2>6 DEF NoInvite
    <3>2. w.item \in Items \ mixed => NoPublic(w.item)
      BY <1>2, <3>1 DEF RowsFit, PublicExcludes
    <3> QED BY <1>1, <1>2, <2>2, <2>5, <2>10, <3>2
            DEF RowsFit, PublicExcludes, NoPublic, NoPrivate, NoInvite
  <2>15. GoneUnshared'
    BY <1>1, <1>2, <2>2, <2>5, <2>7, <2>8 DEF RowsFit, GoneUnshared, NotGone, NoRow, NoInvite
  <2>16. Readdressed'
    BY <1>1, <1>2, <2>8 DEF RowsFit, Readdressed
  <2>17. AccountsFirst'
    BY <1>1, <1>2, <2>5, <2>7, <2>10 DEF RowsFit, AccountsFirst
  <2>18. Counted'
    <3>1. ASSUME NEW i PROVE Recipients(i)' \subseteq Recipients(i)
      <4>1. OpenTo(i)' \subseteq OpenTo(i)
        BY <2>9 DEF OpenTo
      <4>2. \A e \in SharedTo(i)' : e \in SharedTo(i) \/ (e = w.with /\ i = w.item)
        BY <2>5, <2>10 DEF SharedTo
      <4>3. w.with \in OpenTo(w.item)
        BY <2>3, <2>6, <2>7, <2>9 DEF OpenTo
      <4> QED BY <4>1, <4>2, <4>3 DEF Recipients
    <3> QED BY <1>2, <2>8, <3>1, CountKept DEF RowsFit
  <2>19. RowsFit'
    BY <1>1, <1>2, <2>13, <2>14, <2>15, <2>16, <2>17, <2>18 DEF RowsFit
  <2>20. RequestFits(to)'
    BY <2>2, <2>5 DEF RequestFits
  <2> QED BY <2>5, <2>19, <2>20 DEF Serial, OneAtATime
<1> QED BY <1>1, <1>3, <1>4

\* The statements that remove what an item is shared with, alone or beside the
\* update of its row.
LEMMA BulkFits ==
    ASSUME SharingConstants, OfferedInv, Serial, NEW w \in inflight, bulkRemoveSharings(w)
    PROVE  Serial'
<1>1. /\ UNCHANGED <<status, registered, mixed>> /\ w.op \in Bulk
      /\ \A v \in invites' : v \in invites
      /\ \A s \in sharings' : s \in sharings
  BY DEF bulkRemoveSharings, Bulk, Histories
<1>2. RowsFit /\ RequestFits(w)
      /\ \A x \in inflight : x = w \/ (x.op = "trashRow" /\ x.item = w.item)
  BY <1>1 DEF Serial, OneAtATime, Pair, Bulk
<1>3. CASE w.op = "bulkDeleteInvites"
  <2>1. invites' = invites \ InvitesOf(w.item) /\ GoesOn(w, "bulkDeleteSharings")
    BY <1>3 DEF bulkRemoveSharings
  <2>2. PICK to : inflight' = (inflight \ {w}) \cup {to} /\ to.op = "bulkDeleteSharings" /\ to.item = w.item
    BY <2>1, GoesOnIs
  <2>3. RowsLeft
    BY <1>1, <1>2, <1>3, SharingsGo DEF RowsLeft, Accepted
  <2>4. /\ \A i : ~ Offering(i)'
        /\ \A i : Revoking(i) <=> i = w.item
        /\ \A i : Revoking(i)' <=> i = w.item
        /\ \A e : ~ Replacing(e)
    BY <1>1, <1>2, <1>3, <2>2 DEF Offering, Revoking, Replacing, Bulk
  <2>5. RowsFit'
    BY <1>1, <1>2, <2>3, <2>4, RowsKept
  <2>6. NoInvite(w.item)'
    BY <2>1 DEF NoInvite, InvitesOf
  <2>7. RequestFits(to)'
    BY <2>2, <2>6 DEF RequestFits
  <2>8. \A x \in inflight' : x = to \/ (x.op = "trashRow" /\ x.item = w.item /\ x \in inflight)
    BY <1>2, <2>2
  <2>9. \A x \in inflight' : RequestFits(x)'
    BY <2>4, <2>7, <2>8 DEF RequestFits
  <2>10. OneAtATime'
    <3>1. \A x, y \in inflight : x.op = "trashRow" /\ y.op = "trashRow" => x = y
      BY DEF Serial, OneAtATime, Pair, Bulk
    <3> QED BY <2>2, <2>8, <3>1 DEF OneAtATime, Pair, Bulk
  <2> QED BY <2>5, <2>9, <2>10 DEF Serial
<1>4. CASE w.op = "bulkDeleteSharings"
  <2>1. /\ sharings' = {s \in sharings : s.item # w.item} /\ inflight' = inflight \ {w}
        /\ UNCHANGED invites
    BY <1>4 DEF bulkRemoveSharings, Done
  <2>2. RowsLeft
    BY <1>1, <1>2, <1>4, SharingsGo DEF RowsLeft, Accepted
  <2>3. NoRow(w.item)'
    BY <1>2, <1>4, <2>1 DEF RequestFits, NoInvite, NoRow
  <2>4. /\ \A i : ~ Offering(i)'
        /\ \A i : Revoking(i) <=> i = w.item
        /\ \A e : ~ Replacing(e)
    BY <1>1, <1>2, <1>4, <2>1 DEF Offering, Revoking, Replacing, Bulk
  <2>5. GoneUnshared'
    <3>1. \A i : NoRow(i) => NoRow(i)'
      BY <1>2, <2>2, LeftFits
    <3> QED BY <1>1, <1>2, <2>3, <2>4, <3>1 DEF RowsFit, GoneUnshared
  <2>6. Readdressed'
    BY <1>1, <1>2, <2>1, <2>4 DEF RowsFit, Readdressed
  <2>7. Counted'
    BY <1>2, <2>2, <2>4, LeftFits, CountKept DEF RowsFit
  <2>8. RowsFit'
    BY <1>1, <1>2, <2>2, <2>5, <2>6, <2>7, LeftFits DEF RowsFit
  <2>9. \A x \in inflight' : x.op = "trashRow" /\ x.item = w.item /\ x \in inflight
    BY <1>2, <2>1
  <2>10. \A x \in inflight' : RequestFits(x)'
    BY <2>3, <2>9 DEF RequestFits
  <2>11. OneAtATime'
    BY <2>9 DEF Serial, OneAtATime, Pair, Bulk
  <2> QED BY <2>8, <2>10, <2>11 DEF Serial
<1> QED BY <1>1, <1>3, <1>4 DEF Bulk

\* The row goes to the trash while its rows are being removed, or after that.
LEMMA TrashFits ==
    ASSUME SharingConstants, Serial, NEW w \in inflight, trashRow(w)
    PROVE  Serial'
<1>1. /\ w.op = "trashRow" /\ inflight' = inflight \ {w}
      /\ status' = [status EXCEPT ![w.item] = IF @ = "EXISTS" THEN "TRASHED" ELSE @]
      /\ UNCHANGED <<invites, sharings, registered, mixed>>
  BY DEF trashRow, Done, Histories
<1>2. RowsFit /\ RequestFits(w)
      /\ \A x \in inflight : x = w \/ (x.op \in Bulk /\ x.item = w.item)
  BY <1>1 DEF Serial, OneAtATime, Pair, Bulk
<1>3. status \in [Items -> {"EXISTS", "TRASHED", "DELETED"}]
  BY <1>2 DEF RowsFit
<1>4. /\ status' \in [Items -> {"EXISTS", "TRASHED", "DELETED"}]
      /\ \A i \in Items : i # w.item => status'[i] = status[i]
  BY <1>1, <1>3
<1>5. RowsLeft
  BY <1>1, <1>2, SharingsGo DEF RowsLeft, Accepted, Bulk
<1>6. /\ \A i : ~ Offering(i)'
      /\ \A i : Revoking(i) => Revoking(i)'
      /\ \A e : ~ Replacing(e)
  BY <1>1, <1>2 DEF Offering, Revoking, Replacing, Bulk
<1>7. \A i : NoRow(i) => NoRow(i)'
  BY <1>2, <1>5, LeftFits
<1>8. GoneUnshared'
  <2> SUFFICES ASSUME NEW i \in Folders PROVE status'[i] = "EXISTS" \/ Revoking(i)' \/ NoRow(i)'
    BY DEF GoneUnshared
  <2>1. CASE i = w.item
    BY <1>1, <1>2, <1>6, <1>7, <2>1 DEF RequestFits
  <2>2. CASE i # w.item
    BY <1>2, <1>4, <1>6, <1>7, <2>2 DEF RowsFit, GoneUnshared, Items
  <2> QED BY <2>1, <2>2
<1>9. Readdressed'
  BY <1>1, <1>2, <1>6 DEF RowsFit, Readdressed
<1>10. Counted'
  BY <1>2, <1>5, <1>6, LeftFits, CountKept DEF RowsFit
<1>11. RowsFit'
  BY <1>2, <1>4, <1>5, <1>8, <1>9, <1>10, LeftFits DEF RowsFit
<1>12. \A x \in inflight' : x.op \in Bulk /\ x.item = w.item /\ x \in inflight
  BY <1>1, <1>2
<1>13. \A x \in inflight' : RequestFits(x)'
  <2> SUFFICES ASSUME NEW x \in inflight' PROVE RequestFits(x)'
    OBVIOUS
  <2>1. x.op \in Bulk /\ RequestFits(x)
    BY <1>12 DEF Serial
  <2>2. NoInvite(x.item) => NoInvite(x.item)'
    BY <1>2, <1>5, LeftFits
  <2> QED BY <2>1, <2>2 DEF RequestFits, Bulk
<1>14. OneAtATime'
  BY <1>12 DEF Serial, OneAtATime, Pair, Bulk
<1> QED BY <1>11, <1>13, <1>14 DEF Serial

\* A guest who signed up keeps its invites, under the new account, or loses them.
LEMMA ReplaceFits ==
    ASSUME SharingConstants, PreCreatedIsNew, OfferedInv, Serial, NEW w \in inflight,
           replacePreCreatedUser(w)
    PROVE  Serial'
<1>1. /\ UNCHANGED <<status, sharings, registered, mixed>>
      /\ w.op \in {"readInvites", "readdress"} /\ inflight = {w}
  BY OnlyRequest DEF replacePreCreatedUser, Serial, Bulk, Histories
<1>2. /\ RowsFit /\ RequestFits(w) /\ RequestOffered(w) /\ w.with \in registered
      /\ w.with \in Guests /\ w.with \in Invitees
  BY <1>1 DEF Serial, RequestFits, OfferedInv, RequestOffered, SharingConstants
<1>3. CASE w.op = "readInvites"
  <2> DEFINE mine == {v \in invites : v.with = PreCreated(w.with)}
  <2>1. PICK keep \in SUBSET mine :
           /\ invites' = invites \ (mine \ keep)
           /\ Goes(w, [w EXCEPT !.op = "readdress", !.ids = {v.id : v \in keep}])
    BY <1>3 DEF replacePreCreatedUser
  <2>2. PICK to : to = [w EXCEPT !.op = "readdress", !.ids = {v.id : v \in keep}]
    OBVIOUS
  <2>3. to = [nr |-> w.nr, op |-> "readdress", by |-> w.by, item |-> w.item, with |-> w.with,
              id |-> w.id, sharing |-> w.sharing, role |-> w.role, ids |-> {v.id : v \in keep}]
    BY <2>2, <1>2 DEF RequestOffered, IsRequest
  <2>4. to.op = "readdress" /\ to.with = w.with /\ to.ids = {v.id : v \in keep}
    BY <2>3
  <2>5. inflight' = {to}
    BY <1>1, <2>1, <2>2 DEF Goes
  <2>6. RowsLeft
    BY <1>1, <1>3, <2>1, SharingsGo DEF RowsLeft, Accepted
  <2>7. /\ \A i : ~ Offering(i)' /\ ~ Revoking(i)
        /\ \A e : Replacing(e) => Replacing(e)'
    BY <1>1, <1>3, <2>4, <2>5 DEF Offering, Revoking, Replacing, Bulk
  <2>8. RowsFit'
    BY <1>1, <1>2, <2>6, <2>7, RowsKept
  <2>9. \A v \in invites' : v.with = PreCreated(w.with) => v.id \in to.ids
    BY <2>1, <2>4
  <2>10. RequestFits(to)'
    BY <1>1, <1>2, <2>4, <2>9 DEF RequestFits
  <2> QED BY <2>5, <2>8, <2>10 DEF Serial, OneAtATime
<1>4. CASE w.op = "readdress"
  <2> DEFINE to(v) == IF v.id \in w.ids THEN [v EXCEPT !.with = w.with] ELSE v
  <2>1. invites' = {to(v) : v \in invites} /\ inflight' = {}
    BY <1>1, <1>4 DEF replacePreCreatedUser, Done
  <2>2. Person(w.with) = w.with
    BY <1>2, PersonOfUuid
  <2>3. ASSUME NEW v \in invites
        PROVE  /\ to(v).id = v.id /\ to(v).item = v.item /\ Person(to(v).with) = Person(v.with)
               /\ IF v.id \in w.ids THEN to(v).with = w.with ELSE to(v) = v
    <3>1. IsInvite(v)
      BY DEF OfferedInv, InviteOffered
    <3>2. CASE v.id \notin w.ids
      BY <3>2
    <3>3. CASE v.id \in w.ids
      <4>1. Person(v.with) = w.with
        BY <1>2, <1>4, <3>3 DEF RequestOffered
      <4>2. to(v) = [id |-> v.id, item |-> v.item, with |-> w.with, role |-> v.role,
                     expires |-> v.expires]
        BY <3>1, <3>3 DEF IsInvite
      <4> HIDE DEF to
      <4> QED BY <2>2, <3>3, <4>1, <4>2
    <3> QED BY <3>2, <3>3
  <2> HIDE DEF to
  <2>4. /\ \A x : ~ Accepted(x) /\ ~ Accepted(x)'
        /\ \A i : ~ Offering(i)' /\ ~ Revoking(i)
        /\ \A e : Replacing(e) => e = w.with
    BY <1>1, <1>4, <2>1 DEF Accepted, Offering, Revoking, Replacing, Bulk
  <2>5. Open = invites /\ Open' = {to(v) : v \in Open}
    BY <2>1, <2>4 DEF Open
  <2>6. Private' = Private
    BY <1>1 DEF Private
  <2>7. OneRowEach'
    <3>1. OneRowEach
      BY <1>2 DEF RowsFit
    <3>2. \A v, x \in Open' : v.item = x.item /\ Person(v.with) = Person(x.with) => v = x
      BY <2>3, <2>5, <3>1 DEF OneRowEach
    <3>3. \A v \in Open', s \in Private : v.item = s.item => Person(v.with) # s.with
      BY <2>3, <2>5, <3>1 DEF OneRowEach
    <3> QED BY <2>6, <3>1, <3>2, <3>3 DEF OneRowEach
  <2>8. \A i : NoInvite(i) => NoInvite(i)'
    BY <2>1, <2>3 DEF NoInvite
  <2>9. PublicExcludes'
    BY <1>1, <1>2, <2>6, <2>8 DEF RowsFit, PublicExcludes, NoPublic, NoPrivate
  <2>10. GoneUnshared'
    BY <1>1, <1>2, <2>4, <2>8 DEF RowsFit, GoneUnshared, NoRow
  <2>11. Readdressed'
    <3> SUFFICES ASSUME NEW v \in invites
                 PROVE  to(v).with \in registered' \/ Person(to(v).with) \notin registered'
      BY <2>1 DEF Readdressed
    <3>1. CASE v.id \in w.ids
      BY <1>1, <1>2, <2>3, <3>1
    <3>2. CASE v.id \notin w.ids
      <4>1. to(v) = v /\ v.with # PreCreated(w.with) /\ v.with \in Uuids
        BY <1>2, <1>4, <2>3, <3>2 DEF RequestFits, OfferedInv, InviteOffered
      <4>2. v.with \in registered \/ Person(v.with) \notin registered \/ Person(v.with) = w.with
        BY <1>2, <2>4 DEF RowsFit, Readdressed
      <4>3. Person(v.with) = w.with => v.with = w.with
        BY <4>1, PersonOfUuid DEF Uuids
      <4> QED BY <1>1, <1>2, <4>1, <4>2, <4>3
    <3> QED BY <3>1, <3>2
  <2>12. AccountsFirst'
    <3>1. \A v \in invites : to(v).with \in Invitees => to(v).with \in registered
      BY <1>2, <2>3 DEF RowsFit, AccountsFirst
    <3> QED BY <1>1, <1>2, <2>1, <2>6, <3>1 DEF RowsFit, AccountsFirst
  <2>13. Counted'
    <3>1. ASSUME NEW i PROVE Recipients(i)' \subseteq Recipients(i)
      <4>1. OpenTo(i)' \subseteq OpenTo(i)
        BY <2>3, <2>5 DEF OpenTo
      <4> QED BY <2>6, <4>1 DEF Recipients, SharedTo
    <3> QED BY <1>2, <2>4, <3>1, CountKept DEF RowsFit
  <2>14. RowsFit'
    BY <1>1, <1>2, <2>7, <2>9, <2>10, <2>11, <2>12, <2>13 DEF RowsFit
  <2> QED BY <2>1, <2>14 DEF Serial, OneAtATime
<1> QED BY <1>1, <1>3, <1>4

----------------------------------------------------------------------------
(* The theorem.                                                            *)

LEMMA Serially == Spec => []SerialInv
<1>1. Init => SerialInv
  <2> SUFFICES ASSUME Init PROVE Serial
    BY DEF SerialInv
  <2>1. \A i : Recipients(i) = {}
    BY DEF Init, Recipients, SharedTo, OpenTo, Private, Open
  <2>2. Counted
    <3>1. ~ \E i : Offering(i)
      BY DEF Init, Offering
    <3> QED BY <2>1, <3>1, FS_EmptySet, SharingConstants DEF Counted
  <2>3. OneRowEach /\ PublicExcludes /\ GoneUnshared /\ Readdressed /\ AccountsFirst
    BY DEF Init, OneRowEach, Private, Open, PublicExcludes, NoPublic, GoneUnshared, Items, Readdressed,
           AccountsFirst
  <2>4. status \in [Items -> {"EXISTS", "TRASHED", "DELETED"}]
    BY DEF Init
  <2> QED BY <2>2, <2>3, <2>4 DEF Init, Serial, OneAtATime, RowsFit
<1>2. OfferedInv /\ SerialInv /\ [Next]_vars => SerialInv'
  <2> SUFFICES ASSUME OfferedInv, SerialInv, [Next]_vars, alone, alone' = alone PROVE Serial'
    BY DEF SerialInv, Next, vars
  <2>1. Serial
    BY DEF SerialInv
  <2>2. CASE UNCHANGED vars
    BY <2>1, <2>2 DEF vars, Serial, OneAtATime, Pair, RowsFit, OneRowEach, Open, Accepted, Private,
       PublicExcludes, NoPublic, NoPrivate, NoInvite, GoneUnshared, Revoking, NoRow, Readdressed,
       Replacing, AccountsFirst, Counted, Recipients, SharedTo, OpenTo, Offering, RequestFits,
       NotGone, Newcomer
  <2>3. CASE Next
    <3>1. ASSUME NEW w \in inflight,
                 \/ createInviteUnpublishes(w) \/ createInviteInsert(w) \/ createInviteMailed(w)
                 \/ removeItemFromBeingShared(w) \/ createPublicSharingFinds(w)
                 \/ createPublicSharingInsert(w) \/ acceptInviteInserts(w) \/ acceptInviteDeletes(w)
                 \/ deleteInvite(w) \/ bulkRemoveSharings(w) \/ removeSharedWithDeletes(w)
                 \/ updateSharingRoleBy(w) \/ trashRow(w) \/ replacePreCreatedUser(w) \/ requestDies(w)
          PROVE  Serial'
      BY <2>1, <3>1, SharingConstants, PreCreatedIsNew, InviteSteps, PublishSteps, RoleSteps, InviteFits,
         PublicFits, AcceptFits, BulkFits, TrashFits, ReplaceFits DEF requestDies
    <3>2. ASSUME NEW i \in Items,
                 removeSharing(i) \/ changeSharingType(i) \/ moveToTrash(i) \/ leaveTrash(i)
          PROVE  Serial'
      BY <2>1, <3>2, SharingConstants, PreCreatedIsNew, BeginningsFit, AtRestFits, MoveToTrashFits
    <3>3. ASSUME NEW e \in Guests, signUp(e) PROVE Serial'
      BY <2>1, <3>3, SharingConstants, PreCreatedIsNew, SignUpFits
    <3> QED BY <2>1, <2>3, <3>1, <3>2, <3>3, SharingConstants, PreCreatedIsNew, BeginningsFit DEF Next, Step
  <2> QED BY <2>2, <2>3
<1> QED BY <1>1, <1>2, Offered, PTL DEF Spec

\* When requests do not race, whatever their order, a person has one invite to an
\* item or one sharing of it, an item is public or private unless its owner asked
\* for both, trashed folders are shared with nobody, the limit counts what was
\* only offered, and the invites of guests who sign up reach their accounts; and
\* the lists of all that agree, even when requests race.
THEOREM SharingIsCoherent == Spec => []SharingCoherent
<1>1. OfferedInv /\ SerialInv => SharingCoherent
  <2> SUFFICES ASSUME OfferedInv, SerialInv, alone, AtRest
               PROVE  /\ OnePerUser /\ PublicOrPrivate /\ TrashedFolderUnshared
                      /\ SharesWithinLimit /\ InvitesReachRegistered
    BY ListsAgree, SharingConstants
       DEF SharingCoherent, OnePerUser, PublicOrPrivate, TrashedFolderUnshared, SharesWithinLimit,
           InvitesReachRegistered
  <2>1. RowsFit /\ inflight = {} /\ Open = invites
    BY DEF SerialInv, Serial, AtRest, Open, Accepted
  <2>2. OnePerUser
    <3> SUFFICES ASSUME NEW i \in Items, NEW e \in Invitees
                 PROVE  Cardinality({v \in InvitesOf(i) : Person(v.with) = e})
                          + Cardinality({s \in SharingsOf(i, "private") : Person(s.with) = e}) <= 1
      BY DEF OnePerUser
    <3> DEFINE V == {v \in InvitesOf(i) : Person(v.with) = e}
               P == {s \in SharingsOf(i, "private") : Person(s.with) = e}
    <3>1. \A s \in P : s \in Private /\ s.item = i /\ s.with = e
      BY PersonOfUuid, SharingConstants, PreCreatedIsNew
         DEF SharingsOf, Private, OfferedInv, SharingOffered
    <3>2. \A v \in V : v \in Open /\ v.item = i /\ Person(v.with) = e
      BY <2>1 DEF InvitesOf
    <3>3. \A s, x \in P : s = x
      BY <2>1, <3>1 DEF RowsFit, OneRowEach
    <3>4. \A v, x \in V : v = x
      BY <2>1, <3>2 DEF RowsFit, OneRowEach
    <3>5. V = {} \/ P = {}
      BY <2>1, <3>1, <3>2 DEF RowsFit, OneRowEach
    <3>6. (V = {} \/ \E v : V = {v}) /\ (P = {} \/ \E s : P = {s})
      BY <3>3, <3>4
    <3> HIDE DEF V, P
    <3>7. Cardinality(V) \in 0 .. 1 /\ (V = {} => Cardinality(V) = 0)
      <4>1. CASE V = {}
        BY <4>1, FS_EmptySet
      <4>2. CASE V # {}
        <5>1. PICK v : V = {v}
          BY <3>6, <4>2
        <5>2. Cardinality(V) = 1
          BY <5>1, FS_Singleton
        <5> QED BY <4>2, <5>2
      <4> QED BY <4>1, <4>2
    <3>8. Cardinality(P) \in 0 .. 1 /\ (P = {} => Cardinality(P) = 0)
      <4>1. CASE P = {}
        BY <4>1, FS_EmptySet
      <4>2. CASE P # {}
        <5>1. PICK s : P = {s}
          BY <3>6, <4>2
        <5>2. Cardinality(P) = 1
          BY <5>1, FS_Singleton
        <5> QED BY <4>2, <5>2
      <4> QED BY <4>1, <4>2
    <3>9. Cardinality(V) + Cardinality(P) <= 1
      BY <3>5, <3>7, <3>8
    <3> QED BY <3>9 DEF V, P
  <2>3. PublicOrPrivate
    BY <2>1 DEF PublicOrPrivate, RowsFit, PublicExcludes, NoPublic, NoPrivate, NoInvite, Private,
       SharingsOf, InvitesOf
  <2>4. TrashedFolderUnshared
    BY <2>1 DEF TrashedFolderUnshared, RowsFit, GoneUnshared, Revoking, NoRow, NoInvite, InvitesOf
  <2>5. SharesWithinLimit
    <3> SUFFICES ASSUME NEW i \in Items
                 PROVE  Cardinality(SharingsOf(i, "private")) + Cardinality(InvitesOf(i)) <= Limit
      BY DEF SharesWithinLimit
    <3>1. {v \in Open : v.item = i} = InvitesOf(i)
      BY <2>1 DEF InvitesOf
    <3>2. Cardinality(SharingsOf(i, "private")) + Cardinality(InvitesOf(i)) = Cardinality(Recipients(i))
      BY <2>1, <3>1, RecipientsAreRows, SharingConstants, PreCreatedIsNew
    <3>3. IsFiniteSet(Recipients(i)) /\ Cardinality(Recipients(i)) + (IF Offering(i) THEN 1 ELSE 0) <= Limit
      BY <2>1 DEF RowsFit, Counted
    <3>4. ~ Offering(i)
      BY <2>1 DEF Offering
    <3>5. Cardinality(Recipients(i)) \in Nat
      BY <3>3, FS_CardinalityType
    <3> QED BY <3>2, <3>3, <3>4, <3>5
  <2>6. InvitesReachRegistered
    BY <2>1 DEF InvitesReachRegistered, RowsFit, Readdressed, Replacing
  <2> QED BY <2>2, <2>3, <2>4, <2>5, <2>6
<1> QED BY <1>1, Offered, Serially, PTL

----------------------------------------------------------------------------
(* Trees.                                                                  *)

\* A set that has the children of its folders in the tree p.
ClosedIn(p, S) == S \subseteq NavFolders /\ \A g \in NavFolders : p[g] \in S => g \in S

\* What is at or below f in the tree p.
Under(p, f) == {g \in NavFolders : \A S \in SUBSET NavFolders : ClosedIn(p, S) /\ f \in S => g \in S}

\* It is what SharedNavigation calls Below, before and after a step.
LEMMA BelowIsUnder ==
    ASSUME NEW f
    PROVE  Nav!Below(f) = Under(parent, f) /\ Nav!Below(f)' = Under(parent', f)
<1>1. Nav!Below(f) = Under(parent, f)
  BY DEF Nav!Below, Under, ClosedIn
<1>2. Nav!Below(f)' = Under(parent', f)
  BY DEF Nav!Below, Under, ClosedIn
<1> QED BY <1>1, <1>2

\* A folder is below itself and its children are below whatever it is below.
LEMMA WayDown ==
    ASSUME NEW p, NEW f \in NavFolders
    PROVE  f \in Under(p, f) /\ ClosedIn(p, Under(p, f))
BY DEF Under, ClosedIn

\* What is below f, other than f, has its parent there: without it the set would
\* still be closed.
LEMMA WayUp ==
    ASSUME NEW p, NEW f \in NavFolders, NEW g \in Under(p, f), g # f
    PROVE  p[g] \in Under(p, f)
<1> SUFFICES ASSUME p[g] \notin Under(p, f) PROVE FALSE
  OBVIOUS
<1> DEFINE S == Under(p, f) \ {g}
<1>1. f \in S
  BY WayDown
<1>2. ClosedIn(p, S)
  BY WayDown DEF ClosedIn
<1>3. S \in SUBSET NavFolders
  BY DEF Under
<1>4. g \in S
  BY <1>1, <1>2, <1>3 DEF Under
<1> QED BY <1>4

----------------------------------------------------------------------------
(* What a walk depends on.                                                 *)

\* Until a folder is moved a token names the parent that its folder has, and
\* its folder is below the shared one.
TokenFollows ==
    token # NoToken /\ ~ token.moved =>
        token.parent = parent[token.folder] /\ token.folder \in Nav!Below(token.root)

NavInv == Nav!TypeOK /\ TokenFollows

\* A folder is opened at the shared one or with a token from its parent or from
\* its child.
Opens(f, t) ==
    /\ f \in NavFolders /\ t \in {NoToken, token}
    /\ Nav!RootOf(f, t) \in Shared /\ Nav!navigatesFolders(f, t)

\* What is opened is shared, whoever asks.
LEMMA OpenedIsShared ==
    ASSUME Nav!TypeOK, NEW f, NEW t, NEW W, Nav!Rows(Nav!RootOf(f, t), W) # {}
    PROVE  Nav!RootOf(f, t) \in Shared
BY DEF Nav!TypeOK, Nav!Sharing, Nav!Rows

\* The token of what is opened is one again.
LEMMA TokenStep ==
    ASSUME NavInv, NEW f, NEW t, Opens(f, t), Nav!createSharedFolderToken(f, t),
           UNCHANGED <<parent, trashed, shares, members>>
    PROVE  NavInv'
<1> DEFINE r == Nav!RootOf(f, t)
           m == IF t = NoToken THEN FALSE ELSE t.moved
<1>1. token' = [root |-> r, folder |-> f, parent |-> parent[f], moved |-> m]
  BY DEF Nav!createSharedFolderToken
<1>2. f \in NavFolders /\ r \in Shared /\ r \in NavFolders /\ parent[f] \in NavFolders \cup {NoFolder}
  BY NavigationAssumption DEF Opens, NavInv, Nav!TypeOK, Nav!NavigationConstants
<1>3. t # NoToken => t = token /\ t \in Nav!Token
  BY DEF Opens, NavInv, Nav!TypeOK
<1>4. Nav!TypeOK'
  <2>1. m \in BOOLEAN
    BY <1>3 DEF Nav!Token
  <2>2. token' \in Nav!Token
    BY <1>1, <1>2, <2>1 DEF Nav!Token
  <2> QED BY <2>2 DEF NavInv, Nav!TypeOK, Nav!Sharing, Nav!SharedWith, Nav!RoleNames, Nav!Token
<1>5. ASSUME ~ m PROVE f \in Under(parent, r)
  <2>1. CASE t = NoToken
    BY <2>1, <1>2, WayDown DEF Nav!RootOf
  <2>2. CASE t # NoToken
    <3>1. r = t.root /\ t.parent = parent[t.folder] /\ t.folder \in Under(parent, r)
      BY <2>2, <1>3, <1>5, BelowIsUnder DEF NavInv, TokenFollows, Nav!RootOf
    <3>2. (f = t.parent /\ r # t.folder) \/ parent[f] = t.folder
      BY <2>2, <3>1 DEF Opens, Nav!navigatesFolders
    <3>3. CASE parent[f] = t.folder
      BY <3>1, <3>3, <1>2, WayDown DEF ClosedIn
    <3>4. CASE f = t.parent /\ r # t.folder
      BY <3>1, <3>4, <1>2, WayUp
    <3> QED BY <3>2, <3>3, <3>4
  <2> QED BY <2>1, <2>2
<1>6. TokenFollows'
  <2>1. token'.root = r /\ token'.folder = f /\ token'.parent = parent[f] /\ token'.moved = m
    BY <1>1
  <2>2. ~ token'.moved => token'.parent = parent'[token'.folder] /\ token'.folder \in Under(parent', token'.root)
    BY <2>1, <1>5
  <2> QED BY <2>2 DEF TokenFollows, Nav!Below, Under, ClosedIn
<1> QED BY <1>4, <1>6 DEF NavInv

\* Whoever asks, he opens a folder that is shared.
LEMMA OpenStep ==
    ASSUME NavInv, NEW f \in NavFolders,
           Nav!openAsUser(f) \/ Nav!openAsLink(f) \/ Nav!openAsTeam(f)
    PROVE  NavInv'
<1>1. CASE Nav!openAsUser(f)
  <2>1. PICK t \in {NoToken, token} :
           /\ Nav!getFoldersInSharedFolder(f, t, Walker) /\ Nav!createSharedFolderToken(f, t)
    BY <1>1 DEF Nav!openAsUser, Nav!Presents
  <2>2. Nav!Rows(Nav!RootOf(f, t), {Walker}) # {} /\ Nav!navigatesFolders(f, t)
    BY <2>1, NavigationAssumption DEF Nav!getFoldersInSharedFolder, Nav!NavigationConstants
  <2>3. Opens(f, t)
    BY <2>2, OpenedIsShared DEF Opens, NavInv
  <2> QED BY <1>1, <2>1, <2>3, TokenStep DEF Nav!openAsUser
<1>2. CASE Nav!openAsLink(f)
  <2>1. PICK t \in {NoToken, token} :
           /\ Nav!RootOf(f, t) \in Shared
           /\ Nav!getFoldersFromPublicFolder(f, t) /\ Nav!createSharedFolderToken(f, t)
    BY <1>2 DEF Nav!openAsLink, Nav!Presents
  <2>2. Opens(f, t)
    BY <2>1 DEF Opens, Nav!getFoldersFromPublicFolder
  <2> QED BY <1>2, <2>1, <2>2, TokenStep DEF Nav!openAsLink
<1>3. CASE Nav!openAsTeam(f)
  <2>1. PICK t \in {NoToken, token} :
           /\ Nav!getItemsInSharedFolder(f, t) # {} /\ Nav!createSharedFolderToken(f, t)
    BY <1>3 DEF Nav!openAsTeam, Nav!Presents
  <2>2. Nav!navigatesFolders(f, t) /\ Nav!Rows(Nav!RootOf(f, t), Nav!getTeamsUserBelongsTo) # {}
    BY <2>1 DEF Nav!getItemsInSharedFolder, Nav!findSharingsBySharedWithAndAttributes
  <2>3. Opens(f, t)
    BY <2>2, OpenedIsShared DEF Opens, NavInv
  <2> QED BY <1>3, <2>1, <2>3, TokenStep DEF Nav!openAsTeam
<1> QED BY <1>1, <1>2, <1>3

\* While the tree and the token stay, so does what relates them.
LEMMA TreeAndTokenStay ==
    ASSUME NavInv, UNCHANGED <<parent, token>>
    PROVE  TokenFollows'
BY DEF NavInv, TokenFollows, Nav!Below

\* A row is only inserted where there is none for that receiver.
LEMMA ShareStep ==
    ASSUME NavInv, NEW f \in Shared, NEW u \in Nav!SharedWith, NEW role \in Nav!RoleNames,
           Nav!Rows(f, {u}) = {},
           shares' = shares \cup {[item |-> f, with |-> u, role |-> role]},
           UNCHANGED <<parent, trashed, members, token>>
    PROVE  NavInv'
<1> DEFINE n == [item |-> f, with |-> u, role |-> role]
<1>1. n \in Nav!Sharing
  BY DEF Nav!Sharing
<1>2. \A s \in shares : ~ (s.item = n.item /\ s.with = n.with)
  BY DEF Nav!Rows
<1>3. \A s, x \in shares' : s.item = x.item /\ s.with = x.with => s = x
  <2> HIDE DEF n
  <2>1. shares' = shares \cup {n}
    BY DEF n
  <2> QED BY <2>1, <1>2 DEF NavInv, Nav!TypeOK
<1>4. Nav!TypeOK'
  BY <1>1, <1>3, TreeAndTokenStay DEF NavInv, Nav!TypeOK, Nav!Sharing, Nav!SharedWith, Nav!RoleNames, Nav!Token
<1> QED BY <1>4, TreeAndTokenStay DEF NavInv

\* Rows may go, teams and the trash may change.
LEMMA RowsGoStep ==
    ASSUME NavInv, shares' \subseteq shares, members' \subseteq Teams, trashed' \subseteq NavFolders,
           UNCHANGED <<parent, token>>
    PROVE  NavInv'
<1>1. Nav!TypeOK'
  BY TreeAndTokenStay DEF NavInv, Nav!TypeOK, Nav!Sharing, Nav!SharedWith, Nav!RoleNames, Nav!Token
<1> QED BY <1>1, TreeAndTokenStay DEF NavInv

\* A move marks the token, whatever becomes of the tree.
LEMMA MoveStep ==
    ASSUME NavInv, NEW f \in NavFolders, NEW to \in NavFolders, Nav!moveFolder(f, to)
    PROVE  NavInv'
<1>1. /\ parent' = [parent EXCEPT ![f] = to] /\ trashed' = trashed \ {f}
      /\ token' = IF token = NoToken THEN token ELSE [token EXCEPT !.moved = TRUE]
      /\ UNCHANGED <<shares, members>>
  BY DEF Nav!moveFolder
<1>2. token' = NoToken \/ (token' \in Nav!Token /\ token'.moved)
  BY <1>1 DEF NavInv, Nav!TypeOK, Nav!Token
<1>3. parent' \in [NavFolders -> NavFolders \cup {NoFolder}]
  BY <1>1 DEF NavInv, Nav!TypeOK
<1>4. Nav!TypeOK'
  BY <1>1, <1>2, <1>3 DEF NavInv, Nav!TypeOK, Nav!Sharing, Nav!SharedWith, Nav!RoleNames, Nav!Token
<1>5. TokenFollows'
  BY <1>2 DEF TokenFollows
<1> QED BY <1>4, <1>5 DEF NavInv

LEMMA NavNext ==
    ASSUME NavInv, Nav!Next
    PROVE  NavInv'
<1> USE DEF NavInv
<1>1. ASSUME NEW f \in NavFolders, Nav!moveFolderToTrash(f) PROVE NavInv'
  BY <1>1, RowsGoStep DEF Nav!moveFolderToTrash, Nav!TypeOK
<1>2. ASSUME NEW f \in NavFolders, Nav!restoreFolder(f) PROVE NavInv'
  BY <1>2, RowsGoStep DEF Nav!restoreFolder, Nav!TypeOK
<1>3. ASSUME NEW f \in Shared, NEW role \in Nav!RoleNames, NEW team \in Teams,
             Nav!shareItemWithTeam(f, team, role)
      PROVE  NavInv'
  BY <1>3, ShareStep DEF Nav!shareItemWithTeam, Nav!SharedWith
<1>4. ASSUME NEW f \in Shared, NEW role \in Nav!RoleNames, NEW with \in {Walker, Public},
             Nav!createSharing(f, with, role)
      PROVE  NavInv'
  BY <1>4, ShareStep DEF Nav!createSharing, Nav!SharedWith
<1>5. ASSUME NEW s \in shares, Nav!deleteSharing(s) PROVE NavInv'
  BY <1>5, RowsGoStep DEF Nav!deleteSharing, Nav!TypeOK
<1>6. ASSUME NEW team \in Teams, Nav!changeTeam(team) PROVE NavInv'
  BY <1>6, RowsGoStep DEF Nav!changeTeam, Nav!TypeOK
<1> QED BY <1>1, <1>2, <1>3, <1>4, <1>5, <1>6, OpenStep, MoveStep DEF Nav!Next

----------------------------------------------------------------------------
(* Walks and roles.                                                        *)

\* The rows of one receiver are one row.
LEMMA OneRowOfReceiver ==
    ASSUME NavInv, NEW u, NEW f, NEW s \in Nav!Rows(f, {u})
    PROVE  Nav!Rows(f, {u}) = {s}
BY DEF NavInv, Nav!TypeOK, Nav!Rows

\* What an editor shows is all that any row allows.
LEMMA RowShown ==
    ASSUME NavInv, NEW f, NEW s \in Nav!getItemsInSharedFolder(f, NoToken)
    PROVE  Nav!Permissions(s.role) = {a \in Nav!Actions : Nav!canActivate(f, a, TRUE)}
<1> DEFINE R == Nav!Rows(f, Nav!getTeamsUserBelongsTo)
<1>1. s \in R /\ (s.role = "EDITOR" \/ \A x \in R : x.role # "EDITOR")
  BY DEF Nav!getItemsInSharedFolder, Nav!findSharingsBySharedWithAndAttributes, Nav!RootOf
<1>2. \A x \in R : x.role \in {"EDITOR", "VIEWER"}
  BY DEF NavInv, Nav!TypeOK, Nav!Sharing, Nav!RoleNames, Nav!Rows
<1>3. \A a : Nav!canActivate(f, a, TRUE) <=> \E x \in R : a \in Nav!Permissions(x.role)
  BY DEF Nav!canActivate, Nav!isWorkspaceMemberAbleToPerfomAction, Nav!canPerfomAction,
     Nav!findPermissionsInSharing
<1>4. \A x \in R : Nav!Permissions(x.role) \subseteq Nav!Permissions(s.role)
  BY <1>1, <1>2 DEF Nav!Permissions, Nav!Actions
<1>5. Nav!Permissions(s.role) \subseteq Nav!Actions
  BY DEF Nav!Permissions, Nav!Actions
<1> HIDE DEF R
<1> QED BY <1>1, <1>3, <1>4, <1>5

LEMMA WalksFollow ==
    ASSUME NavInv
    PROVE  WalkFollowsSharings
<1>1. Nav!WalkStaysInside
  BY DEF NavInv, TokenFollows, Nav!WalkStaysInside
<1>2. Nav!FilesAndFoldersAgree
  BY DEF Nav!FilesAndFoldersAgree, Nav!getFoldersInSharedFolder, Nav!getFilesInSharedFolder,
     Nav!getFoldersFromPublicFolder, Nav!getFilesFromPublicFolder,
     Nav!navigatesFolders, Nav!navigatesFiles
<1>3. ASSUME NEW f \in Shared, NEW s \in Nav!Rows(f, {Walker})
      PROVE  Nav!Permissions(s.role) = {a \in Nav!Actions : Nav!canActivate(f, a, FALSE)}
  <2>1. Nav!findPermissionsInSharing({Walker}, f) = Nav!Permissions(s.role)
    <3>1. Nav!Rows(f, {Walker}) = {s}
      BY OneRowOfReceiver
    <3>2. Nav!findPermissionsInSharing({Walker}, f) = UNION {Nav!Permissions(x.role) : x \in {s}}
      BY <3>1 DEF Nav!findPermissionsInSharing
    <3> QED BY <3>2
  <2>2. Nav!Permissions(s.role) \subseteq Nav!Actions
    BY DEF Nav!Permissions, Nav!Actions
  <2>3. \A a : Nav!canActivate(f, a, FALSE) <=> a \in Nav!Permissions(s.role)
    BY <2>1 DEF Nav!canActivate, Nav!isUserAbleToPerfomAction, Nav!canPerfomAction
  <2> QED BY <2>2, <2>3
<1>4. Nav!RoleShownIsApplied
  BY <1>3, RowShown DEF Nav!RoleShownIsApplied
<1> QED BY <1>1, <1>2, <1>4 DEF WalkFollowsSharings

LEMMA NavCorrect == MCSpec => []NavInv
<1>1. MCInit => NavInv
  <2> SUFFICES ASSUME MCInit PROVE NavInv
    OBVIOUS
  <2>1. CASE AtHome
    <3>1. Root \in NavFolders
      BY NavigationAssumption DEF Nav!NavigationConstants
    <3>2. parent \in [NavFolders -> NavFolders \cup {NoFolder}]
      BY <2>1, <3>1 DEF AtHome
    <3>3. Nav!TypeOK
      BY <2>1, <3>2 DEF AtHome, Nav!TypeOK
    <3> QED BY <2>1, <3>3 DEF AtHome, NavInv, TokenFollows
  <2>2. CASE Nav!Init
    <3>1. parent \in [NavFolders -> NavFolders \cup {NoFolder}]
      BY <2>2, NavigationAssumption DEF Nav!Init, Nav!NavigationConstants
    <3> QED BY <2>2, <3>1 DEF Nav!Init, Nav!TypeOK, NavInv, TokenFollows
  <2> QED BY <2>1, <2>2 DEF MCInit
<1>2. NavInv /\ [MCNext]_<<vars, part, navVars>> => NavInv'
  <2> SUFFICES ASSUME NavInv, Nav!Next \/ UNCHANGED navVars PROVE NavInv'
    BY DEF MCNext, navVars
  <2>1. CASE Nav!Next
    BY <2>1, NavNext
  <2>2. CASE UNCHANGED navVars
    BY <2>2, RowsGoStep DEF navVars, NavInv, Nav!TypeOK
  <2> QED BY <2>1, <2>2
<1> QED BY <1>1, <1>2, PTL DEF MCSpec

\* An item is shared once with each user or team, and a token names folders: the
\* requests for rows look for one first, and requests are made of tokens.
THEOREM WalkTypeCorrect == MCSpec => []Nav!TypeOK
<1>1. NavInv => Nav!TypeOK
  BY DEF NavInv
<1> QED BY <1>1, NavCorrect, PTL

\* A walk stays at or below the shared folder while the tree stays as it is,
\* folders and files are listed to the same requests, and the role that is shown
\* is the one the guard applies, for any tree, teams and length of the walk.
THEOREM WalksFollowSharings == MCSpec => []WalkFollowsSharings
BY NavCorrect, WalksFollow, PTL

============================================================================
