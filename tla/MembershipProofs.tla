--------------------------- MODULE MembershipProofs ---------------------------
(***************************************************************************)
(* Proofs of what keeps an organisation in order, for any number of users, *)
(* organisations, invites and requests: it changes hands by a transfer     *)
(* only, in any overlap; and outside the overlaps the handlers do not      *)
(* provide for its owner can administer it, its users can be listed, and   *)
(* each of them has one role.                                              *)
(***************************************************************************)
EXTENDS MembershipProps, WellFoundedInduction, FiniteSetTheorems, SequenceTheorems, TLAPS

OrgOf(U) == [owner : U, deleted : BOOLEAN]
OrgsType == \E U : orgs \in Seq(OrgOf(U))

\* A transfer that has got past fetchOrg, where the owner it has read is compared
\* with who asks for it, has read that they are the same.
Rest == {<<"asAdmin", "findRole", "saveOrg">>, <<"findRole", "saveOrg">>, <<"saveOrg">>}
Fields == {"op", "todo", "me", "owner"}
Sound(r) ==
  /\ Fields \subseteq DOMAIN r
  /\ r.op = "transfer" => \/ r.todo = Handler["transfer"] \/ r.todo = <<>>
                          \/ r.todo \in Rest /\ r.owner = r.me
RequestsInv ==
  /\ req = [q \in Request |-> req[q]]
  /\ \A q \in Request : Sound(req[q])
HandsInv == OrgsType /\ RequestsInv

-----------------------------------------------------------------------------
\* A sequence of the elements of a set is one of those of a larger set.
LEMMA Widen ==
  ASSUME NEW S, NEW T, NEW s \in Seq(S), S \subseteq T PROVE s \in Seq(T)
<1>1. \A i \in 1 .. Len(s) : s[i] \in T
  OBVIOUS
<1>2. s = [i \in 1 .. Len(s) |-> s[i]]
  OBVIOUS
<1> QED BY <1>1, <1>2

LEMMA IdleSound == Sound(Idle)
BY DEF Sound, Idle, Fields

LEMMA InitInv == Init => HandsInv
<1> SUFFICES ASSUME Init PROVE HandsInv
  OBVIOUS
<1>1. OrgsType
  <2>1. [owner |-> 1, deleted |-> FALSE] \in OrgOf({1})
    BY DEF OrgOf
  <2>2. <<[owner |-> 1, deleted |-> FALSE]>> \in Seq(OrgOf({1}))
    BY <2>1
  <2> QED BY <2>2 DEF Init, OrgsType
<1>2. req = [q \in Request |-> Idle]
  BY DEF Init
<1> QED BY <1>1, <1>2, IdleSound DEF HandsInv, RequestsInv

-----------------------------------------------------------------------------
(* How a request goes on.                                                  *)

\* The steps a transfer can be at.
Transfers == {"fetchOrg", "asAdmin", "findRole", "saveOrg"}
LEMMA Heads ==
  ASSUME RequestsInv, NEW q \in Request, Running(q), req[q].op = "transfer"
  PROVE  Head(req[q].todo) \in Transfers
<1>1. req[q].todo = Handler["transfer"] \/ req[q].todo \in Rest
  BY DEF RequestsInv, Sound, Running
<1> QED BY <1>1 DEF Handler, Rest, Transfers

LEMMA Elsewhere ==
  ASSUME RequestsInv, NEW q \in Request, NEW step, At(q, step), step \notin Transfers
  PROVE  req[q].op # "transfer"
BY Heads DEF At

\* What one request does to itself.
LEMMA Changes ==
  ASSUME RequestsInv, NEW q \in Request, NEW r, Sound(r), req' = [req EXCEPT ![q] = r]
  PROVE  RequestsInv'
<1>1. req' = [p \in Request |-> IF p = q THEN r ELSE req[p]]
  BY DEF RequestsInv
<1>2. \A p \in Request : req'[p] = IF p = q THEN r ELSE req[p]
  BY <1>1
<1>3. \A p \in Request : Sound(req'[p])
  BY <1>2 DEF RequestsInv
<1>4. req' = [p \in Request |-> req'[p]]
  BY <1>1
<1>5. \A p \in Request : Sound(req[p])'
  BY <1>3 DEF Sound, Fields
<1> QED BY <1>4, <1>5 DEF RequestsInv

LEMMA Refusal ==
  ASSUME RequestsInv, NEW q \in Request, Refuses(q) PROVE RequestsInv'
BY IdleSound, Changes DEF Refuses

\* A request that is not a transfer does not become one.
LEMMA OtherGoes ==
  ASSUME RequestsInv, NEW q \in Request, req[q].op # "transfer",
         NEW more, {"op", "todo"} \cap DOMAIN more = {}, Goes(q, more)
  PROVE  RequestsInv'
<1> DEFINE now == Knowing(req[q], more)
<1> DEFINE next == IF Len(now.todo) = 1 THEN Idle ELSE [now EXCEPT !.todo = Tail(@)]
<1>1. req' = [req EXCEPT ![q] = next]
  BY DEF Goes
<1>2. Sound(req[q])
  BY DEF RequestsInv
<1>3. now.op = req[q].op /\ Fields \subseteq DOMAIN now
  BY <1>2 DEF Sound, Fields, Knowing
<1> HIDE DEF now
<1>4. CASE Len(now.todo) = 1
  BY <1>1, <1>4, IdleSound, Changes
<1>5. CASE Len(now.todo) # 1
  <2>1. Sound([now EXCEPT !.todo = Tail(@)])
    BY <1>3 DEF Sound, Fields
  <2> QED BY <1>1, <1>5, <2>1, Changes
<1> QED BY <1>4, <1>5

\* A transfer goes on once the owner is known to be who asks for it.
LEMMA TransferGoes ==
  ASSUME RequestsInv, NEW q \in Request, req[q].op = "transfer", Running(q),
         NEW more, {"op", "todo", "me"} \cap DOMAIN more = {}, Goes(q, more),
         \/ "owner" \in DOMAIN more /\ more.owner = req[q].me
         \/ "owner" \notin DOMAIN more /\ ~At(q, "fetchOrg")
  PROVE  RequestsInv'
<1> DEFINE now == Knowing(req[q], more)
<1> DEFINE next == IF Len(now.todo) = 1 THEN Idle ELSE [now EXCEPT !.todo = Tail(@)]
<1>1. req' = [req EXCEPT ![q] = next]
  BY DEF Goes
<1>2. Sound(req[q])
  BY DEF RequestsInv
<1>3. /\ now.op = "transfer" /\ now.todo = req[q].todo /\ now.me = req[q].me
      /\ Fields \subseteq DOMAIN now
  BY <1>2 DEF Sound, Fields, Knowing
<1>4. now.owner = now.me
  <2>1. CASE "owner" \in DOMAIN more
    BY <1>2, <1>3, <2>1 DEF Knowing, Sound, Fields
  <2>2. CASE "owner" \notin DOMAIN more
    <3>1. req[q].todo # Handler["transfer"]
      BY <2>2 DEF At, Handler
    <3>2. req[q].owner = req[q].me
      BY <1>2, <3>1 DEF Sound, Running
    <3>3. now.owner = req[q].owner
      BY <1>2, <2>2 DEF Sound, Fields, Knowing
    <3> QED BY <1>3, <3>2, <3>3
  <2> QED BY <2>1, <2>2
<1> HIDE DEF now
<1>5. now.todo = Handler["transfer"] \/ now.todo \in Rest
  BY <1>2, <1>3 DEF Sound, Running
<1>6. CASE Len(now.todo) = 1
  BY <1>1, <1>6, IdleSound, Changes
<1>7. CASE Len(now.todo) # 1
  <2>1. Tail(now.todo) \in Rest
    <3>1. CASE now.todo = Handler["transfer"]
      <4>1. now.todo = <<"fetchOrg", "asAdmin", "findRole", "saveOrg">>
        BY <3>1 DEF Handler
      <4>2. Tail(now.todo) = <<"asAdmin", "findRole", "saveOrg">>
        BY <4>1
      <4> QED BY <4>2 DEF Rest
    <3>2. CASE now.todo = <<"asAdmin", "findRole", "saveOrg">>
      <4>1. Tail(now.todo) = <<"findRole", "saveOrg">>
        BY <3>2
      <4> QED BY <4>1 DEF Rest
    <3>3. CASE now.todo = <<"findRole", "saveOrg">>
      <4>1. Tail(now.todo) = <<"saveOrg">>
        BY <3>3
      <4> QED BY <4>1 DEF Rest
    <3> QED BY <1>5, <1>7, <3>1, <3>2, <3>3 DEF Rest
  <2>2. Sound([now EXCEPT !.todo = Tail(@)])
    BY <1>3, <1>4, <2>1 DEF Sound, Fields
  <2> QED BY <1>1, <1>7, <2>2, Changes
<1> QED BY <1>6, <1>7

LEMMA Starts ==
  ASSUME RequestsInv, NEW q \in Request, NEW op, NEW more,
         {"op", "todo"} \cap DOMAIN more = {}, Begin(q, op, more)
  PROVE  RequestsInv' /\ orgs' = orgs
<1> DEFINE r == Knowing([Idle EXCEPT !.op = op, !.todo = Handler[op]], more)
<1>1. req' = [req EXCEPT ![q] = r] /\ orgs' = orgs
  BY DEF Begin, docs
<1>2. /\ r.op = op /\ r.todo = Handler[op] /\ Fields \subseteq DOMAIN r
  BY DEF Idle, Fields, Knowing
<1> HIDE DEF r
<1>3. Sound(r)
  BY <1>2 DEF Sound
<1> QED BY <1>1, <1>3, Changes

-----------------------------------------------------------------------------
(* The requests, one lemma per sort of step.                               *)

LEMMA NothingMore == DOMAIN <<>> = {}
OBVIOUS

LEMMA BeginSteps ==
  ASSUME RequestsInv, NEW q \in Request,
         \/ BeginOnOrg(q) \/ BeginOnEmail(q) \/ BeginOnInvite(q)
         \/ BeginOnUser(q) \/ BeginOnMe(q) \/ BeginSignUp(q)
  PROVE  RequestsInv' /\ orgs' = orgs
<1>1. \A op, more : {"op", "todo"} \cap DOMAIN more = {} /\ Begin(q, op, more)
                      => RequestsInv' /\ orgs' = orgs
  BY Starts
<1>2. CASE BeginOnOrg(q)
  BY <1>1, <1>2 DEF BeginOnOrg
<1>3. CASE BeginOnEmail(q)
  BY <1>1, <1>3 DEF BeginOnEmail
<1>4. CASE BeginOnInvite(q)
  BY <1>1, <1>4 DEF BeginOnInvite
<1>5. CASE BeginOnUser(q)
  BY <1>1, <1>5 DEF BeginOnUser
<1>6. CASE BeginOnMe(q)
  BY <1>1, <1>6 DEF BeginOnMe
<1>7. CASE BeginSignUp(q)
  BY <1>1, <1>7 DEF BeginSignUp
<1> QED BY <1>2, <1>3, <1>4, <1>5, <1>6, <1>7

\* The reads that a transfer makes too.
LEMMA TransferReads ==
  ASSUME RequestsInv, NEW q \in Request, FetchOrg(q) \/ Authorise(q) \/ FindRole(q)
  PROVE  RequestsInv' /\ orgs' = orgs
<1>1. orgs' = orgs
  BY DEF FetchOrg, Authorise, FindRole, ReadsOnly, docs
<1>2. Running(q)
  BY DEF FetchOrg, Authorise, FindRole, At
<1>3. CASE Refuses(q)
  BY <1>1, <1>3, Refusal
<1>4. CASE FetchOrg(q) /\ ~Refuses(q)
  <2> DEFINE o == orgs[req[q].org]
  <2>1. OwnerPasses(q, o.owner) /\ Goes(q, [owner |-> o.owner])
    BY <1>4 DEF FetchOrg, Check
  <2>2. req[q].op = "transfer" => o.owner = req[q].me
    BY <2>1 DEF OwnerPasses
  <2> HIDE DEF o
  <2>3. PICK more : more = [owner |-> o.owner]
    OBVIOUS
  <2>4. DOMAIN more = {"owner"} /\ more.owner = o.owner
    BY <2>3
  <2>5. Goes(q, more)
    BY <2>1, <2>3
  <2>6. CASE req[q].op = "transfer"
    BY <1>1, <1>2, <2>2, <2>4, <2>5, <2>6, TransferGoes
  <2>7. CASE req[q].op # "transfer"
    BY <1>1, <2>4, <2>5, <2>7, OtherGoes
  <2> QED BY <2>6, <2>7
<1>5. CASE (Authorise(q) \/ FindRole(q)) /\ ~Refuses(q)
  <2>1. ~At(q, "fetchOrg")
    BY <1>5 DEF Authorise, FindRole, At
  <2>2. PICK more : Goes(q, more) /\ DOMAIN more \subseteq {"role"}
    <3>1. CASE Authorise(q)
      <4>1. Goes(q, <<>>)
        BY <1>5, <3>1 DEF Authorise, Check
      <4> QED BY <4>1, NothingMore
    <3>2. CASE FindRole(q)
      <4>1. Goes(q, [role |-> RoleOf(req[q].user, req[q].org)])
        BY <1>5, <3>2 DEF FindRole, Check
      <4>2. \A r : DOMAIN [role |-> r] = {"role"}
        OBVIOUS
      <4> QED BY <4>1, <4>2
    <3> QED BY <1>5, <3>1, <3>2
  <2>3. CASE req[q].op = "transfer"
    BY <1>1, <1>2, <2>1, <2>2, <2>3, TransferGoes
  <2>4. CASE req[q].op # "transfer"
    BY <1>1, <2>2, <2>4, OtherGoes
  <2> QED BY <2>3, <2>4
<1> QED BY <1>3, <1>4, <1>5

LEMMA OtherReads ==
  ASSUME RequestsInv, NEW q \in Request,
         \/ FindUser(q) \/ NoRole(q) \/ NoInvite(q) \/ FindInvite(q)
         \/ CountOrgs(q) \/ MyRoles(q) \/ MyOrgs(q)
  PROVE  RequestsInv' /\ orgs' = orgs
<1>1. orgs' = orgs
  BY DEF FindUser, NoRole, NoInvite, FindInvite, CountOrgs, MyRoles, MyOrgs, ReadsOnly, docs
<1>2. req[q].op # "transfer"
  BY Elsewhere
     DEF Transfers, FindUser, NoRole, NoInvite, FindInvite, CountOrgs, MyRoles, MyOrgs
<1>3. CASE Refuses(q)
  BY <1>1, <1>3, Refusal
<1>4. ASSUME NEW more, Goes(q, more), {"op", "todo"} \cap DOMAIN more = {}
      PROVE  RequestsInv'
  BY <1>2, <1>4, OtherGoes
<1>5. CASE FindUser(q) /\ ~Refuses(q)
  <2>1. Goes(q, [user |-> UserWith(req[q].email)])
    BY <1>5 DEF FindUser, Check
  <2>2. \A u : DOMAIN [user |-> u] = {"user"}
    OBVIOUS
  <2> QED BY <1>1, <1>4, <2>1, <2>2
<1>6. CASE (NoRole(q) \/ NoInvite(q) \/ CountOrgs(q)) /\ ~Refuses(q)
  <2>1. Goes(q, <<>>)
    BY <1>6 DEF NoRole, NoInvite, CountOrgs, Check
  <2> QED BY <1>1, <1>4, <2>1, NothingMore
<1>7. CASE FindInvite(q) /\ ~Refuses(q)
  <2>1. PICK o, a : Goes(q, [org |-> o, admin |-> a])
    BY <1>7 DEF FindInvite, Check
  <2>2. \A x, y : DOMAIN [org |-> x, admin |-> y] = {"org", "admin"}
    OBVIOUS
  <2> QED BY <1>1, <1>4, <2>1, <2>2
<1>8. CASE (MyRoles(q) \/ MyOrgs(q)) /\ ~Refuses(q)
  <2>1. PICK left : Goes(q, [left |-> left])
    BY <1>8 DEF MyRoles, MyOrgs, Check
  <2>2. \A x : DOMAIN [left |-> x] = {"left"}
    OBVIOUS
  <2> QED BY <1>1, <1>4, <2>1, <2>2
<1> QED BY <1>3, <1>5, <1>6, <1>7, <1>8
\* The writes to other collections.
LEMMA OtherWrites ==
  ASSUME RequestsInv, NEW q \in Request,
         \/ SaveUser(q) \/ Link(q) \/ SaveInvite(q) \/ DropInvite(q) \/ SaveRole(q)
         \/ SaveMe(q) \/ DropMe(q)
  PROVE  RequestsInv' /\ orgs' = orgs
<1>1. orgs' = orgs
  BY DEF SaveUser, Link, SaveInvite, DropInvite, SaveRole, SaveMe, DropMe
<1>2. req[q].op # "transfer"
  BY Elsewhere
     DEF Transfers, SaveUser, Link, SaveInvite, DropInvite, SaveRole, SaveMe, DropMe
<1>3. CASE Refuses(q)
  BY <1>1, <1>3, Refusal
<1>4. CASE ~Refuses(q)
  <2>1. PICK more : Goes(q, more) /\ DOMAIN more \subseteq {"user", "me"}
    <3>1. CASE SaveUser(q)
      <4>1. \A u, m : DOMAIN [user |-> u, me |-> m] = {"user", "me"}
        OBVIOUS
      <4>2. Goes(q, <<>>) \/ \E u, m : Goes(q, [user |-> u, me |-> m])
        BY <1>4, <3>1 DEF SaveUser
      <4> QED BY <4>1, <4>2, NothingMore
    <3>2. CASE ~SaveUser(q)
      <4>1. Goes(q, <<>>)
        BY <1>4, <3>2 DEF Link, SaveInvite, DropInvite, SaveRole, SaveMe, DropMe
      <4> QED BY <4>1, NothingMore
    <3> QED BY <3>1, <3>2
  <2> QED BY <1>1, <1>2, <2>1, OtherGoes
<1> QED BY <1>3, <1>4

LEMMA LeaveOrgsSteps ==
  ASSUME RequestsInv, NEW q \in Request, LeaveOrgs(q)
  PROVE  RequestsInv' /\ orgs' = orgs
<1>1. orgs' = orgs
  BY DEF LeaveOrgs, ReadsOnly, docs
<1>2. req[q].op # "transfer"
  BY Elsewhere DEF Transfers, LeaveOrgs
<1>3. CASE Goes(q, <<>>)
  BY <1>1, <1>2, <1>3, NothingMore, OtherGoes
<1>4. CASE ~Goes(q, <<>>)
  <2>1. PICK left, role, todo :
          req' = [req EXCEPT ![q].left = left, ![q].role = role, ![q].todo = todo]
    BY <1>4 DEF LeaveOrgs
  <2> DEFINE r == [req[q] EXCEPT !.left = left, !.role = role, !.todo = todo]
  <2>2. req' = [req EXCEPT ![q] = r]
    BY <2>1 DEF RequestsInv
  <2>3. Sound(r)
    BY <1>2 DEF RequestsInv, Sound, Fields
  <2> QED BY <1>1, <2>2, <2>3, Changes
<1> QED BY <1>3, <1>4

-----------------------------------------------------------------------------
(* The organisations.                                                      *)

LEMMA Kept == ASSUME orgs' = orgs, OrgsType PROVE OrgsType' /\ OnlyByTransfer
BY DEF OrgsType, OnlyByTransfer

LEMMA InsertOrgSteps ==
  ASSUME HandsInv, NEW q \in Request, InsertOrg(q)
  PROVE  HandsInv' /\ OnlyByTransfer
<1>1. PICK U : orgs \in Seq(OrgOf(U))
  BY DEF HandsInv, OrgsType
<1> DEFINE V == U \cup {req[q].me}
<1> DEFINE new == [owner |-> req[q].me, deleted |-> FALSE]
<1>2. OrgOf(U) \subseteq OrgOf(V) /\ new \in OrgOf(V)
  BY DEF OrgOf
<1>3. orgs' = Append(orgs, new)
  BY DEF InsertOrg, Insert
<1> HIDE DEF V, new
<1>4. orgs \in Seq(OrgOf(V))
  BY <1>1, <1>2, Widen
<1>5. orgs' \in Seq(OrgOf(V)) /\ \A o \in DOMAIN orgs : orgs'[o] = orgs[o]
  BY <1>2, <1>3, <1>4
<1>6. req[q].op # "transfer"
  BY Elsewhere DEF HandsInv, Transfers, InsertOrg
<1>7. RequestsInv'
  <2>1. Goes(q, [org |-> Len(orgs) + 1])
    BY DEF InsertOrg
  <2>2. \A o : DOMAIN [org |-> o] = {"org"}
    OBVIOUS
  <2> QED BY <1>6, <2>1, <2>2, OtherGoes DEF HandsInv
<1>8. OrgsType' /\ OnlyByTransfer
  BY <1>5 DEF OrgsType, OnlyByTransfer
<1> QED BY <1>7, <1>8 DEF HandsInv

LEMMA SaveOrgSteps ==
  ASSUME HandsInv, NEW q \in Request, SaveOrg(q)
  PROVE  HandsInv' /\ OnlyByTransfer
<1>1. PICK U : orgs \in Seq(OrgOf(U))
  BY DEF HandsInv, OrgsType
<1> DEFINE V == U \cup {req[q].user}
<1> DEFINE O == req[q].org
<1>2. At(q, "saveOrg") /\ Running(q) /\ orgs' = [orgs EXCEPT ![O] = SavedOrg(q)]
  BY DEF SaveOrg, At
<1>3. Goes(q, <<>>)
  BY DEF SaveOrg
<1>4. RequestsInv'
  <2>1. CASE req[q].op = "transfer"
    <3>1. ~At(q, "fetchOrg")
      BY <1>2 DEF At
    <3> QED BY <1>2, <1>3, <2>1, <3>1, NothingMore, TransferGoes DEF HandsInv
  <2>2. CASE req[q].op # "transfer"
    BY <1>3, <2>2, NothingMore, OtherGoes DEF HandsInv
  <2> QED BY <2>1, <2>2
<1>5. req[q].op = "transfer" => req[q].owner = req[q].me
  <2> SUFFICES ASSUME req[q].op = "transfer" PROVE req[q].owner = req[q].me
    OBVIOUS
  <2>1. req[q].todo # Handler["transfer"] /\ req[q].todo # <<>>
    BY <1>2 DEF At, Running, Handler
  <2> QED BY <2>1 DEF HandsInv, RequestsInv, Sound
<1>6. OrgOf(U) \subseteq OrgOf(V)
  BY DEF OrgOf
<1>7. orgs \in Seq(OrgOf(V))
  BY <1>1, <1>6, Widen
<1>8. CASE O \in DOMAIN orgs
  <2>1. orgs[O] \in OrgOf(V)
    BY <1>7, <1>8
  <2>2. /\ SavedOrg(q) \in OrgOf(V)
        /\ orgs[O].deleted => SavedOrg(q).deleted
        /\ SavedOrg(q).owner = IF req[q].op = "transfer" THEN req[q].user ELSE orgs[O].owner
    BY <2>1 DEF SavedOrg, OrgOf
  <2> HIDE DEF V
  <2>3. /\ orgs' \in Seq(OrgOf(V))
        /\ \A o \in DOMAIN orgs : orgs'[o] = IF o = O THEN SavedOrg(q) ELSE orgs[o]
    BY <1>2, <1>7, <1>8, <2>2
  <2>4. OnlyByTransfer
    BY <1>2, <1>5, <2>2, <2>3 DEF OnlyByTransfer
  <2> QED BY <1>4, <2>3, <2>4 DEF HandsInv, OrgsType
<1>9. CASE O \notin DOMAIN orgs
  <2>1. orgs' = orgs
    BY <1>1, <1>2, <1>9
  <2> QED BY <1>4, <2>1, Kept DEF HandsInv
<1> QED BY <1>8, <1>9

LEMMA StepHands == ASSUME HandsInv, [Next]_vars PROVE HandsInv' /\ [OnlyByTransfer]_vars
<1>1. CASE UNCHANGED vars
  <2>1. orgs' = orgs /\ req' = req
    BY <1>1 DEF vars
  <2> QED BY <1>1, <2>1 DEF HandsInv, OrgsType, RequestsInv, Sound
<1>2. CASE Expire
  <2>1. orgs' = orgs /\ req' = req
    BY <1>2 DEF Expire
  <2>2. RequestsInv'
    BY <2>1 DEF HandsInv, RequestsInv, Sound
  <2> QED BY <2>1, <2>2, Kept DEF HandsInv
<1>3. ASSUME NEW q \in Request, Step(q) PROVE HandsInv' /\ OnlyByTransfer
  <2>1. CASE InsertOrg(q) \/ SaveOrg(q)
    BY <2>1, InsertOrgSteps, SaveOrgSteps
  <2>2. CASE Fail(q)
    <3>1. orgs' = orgs /\ RequestsInv'
      BY <2>2, Refusal DEF Fail, docs, HandsInv
    <3> QED BY <3>1, Kept DEF HandsInv
  <2>3. CASE ~(InsertOrg(q) \/ SaveOrg(q) \/ Fail(q))
    <3>1. orgs' = orgs /\ RequestsInv'
      BY <1>3, <2>3, BeginSteps, TransferReads, OtherReads, OtherWrites, LeaveOrgsSteps
         DEF Step, HandsInv
    <3> QED BY <3>1, Kept DEF HandsInv
  <2> QED BY <2>1, <2>2, <2>3
<1> QED BY <1>1, <1>2, <1>3 DEF Next

\* A transfer past fetchOrg was asked for by the owner it has read (transferOwnership).
THEOREM HandsCorrect == Spec => []HandsInv
BY InitInv, StepHands, PTL DEF Spec

\* An organisation changes hands by a transfer only, and a deleted one stays deleted
\* (transferOwnership, updateOrg, deleteOrg, Repo.save).
THEOREM HandsChangeByTransferCorrect == Spec => HandsChangeByTransfer
BY HandsCorrect, StepHands, PTL DEF Spec, HandsChangeByTransfer

-----------------------------------------------------------------------------
(* What is true of requests and documents, whatever overlaps.  Where a     *)
(* request is, is told by its handler and the awaits it has left.          *)

AnyUser == [email : Email \cup {None}, manages : BOOLEAN, deleted : BOOLEAN]
AnyOrg == [owner : Nat \cup {None}, deleted : BOOLEAN]
AnyRole == [user : Nat, org : Nat, admin : BOOLEAN, deleted : BOOLEAN]
AnyInvite == [email : Email \cup {None}, org : Nat, admin : BOOLEAN, gone : BOOLEAN]
Ref == Nat \cup {None}
Await == {"asAdmin", "asEditor", "countOrgs", "dropInvite", "dropMe", "dropRole",
          "fetchOrg", "findInvite", "findRole", "findUser", "insertOrg", "leaveOrgs",
          "link", "myOrgs", "myRoles", "noInvite", "noRole", "saveInvite", "saveMe",
          "saveOrg", "saveRole", "saveUser"}
AnyRequest == [op : DOMAIN Handler \cup {"none"}, todo : Seq(Await), me : Ref, org : Ref,
               user : Ref, email : Email \cup {None}, admin : BOOLEAN, invite : Ref,
               role : Ref, owner : Ref, left : SUBSET Nat]

Left(r) == Len(r.todo)
\* deleteMe about to drop one of the roles.
Dropping(r) == r.op = "deleteMe" /\ r.todo = <<"dropRole", "leaveOrgs", "saveMe", "dropMe">>
\* What is left of a handler is its end.
Placed(r) ==
  \/ r.op = "none" /\ r.todo = <<>>
  \/ /\ r.op \in DOMAIN Handler /\ Left(r) \in 1 .. Len(Handler[r.op])
     /\ \A k \in 1 .. Left(r) : r.todo[k] = Handler[r.op][Len(Handler[r.op]) - Left(r) + k]
  \/ Dropping(r)

\* An organisation that anybody has had a role in.
Founded(o) == \E x \in DOMAIN roles : roles[x].org = o
\* A new organisation is about to get its first role.
Creating(r) == r.op \in {"createOrg", "signUp"} /\ Left(r) = 1
\* The user who gets the role is known.
Joins(r) == \/ r.op \in {"accept", "createOrg"}
            \/ r.op = "add" /\ Left(r) = 1
            \/ r.op = "signUp" /\ Left(r) <= 2
\* Who asks has had a role in the organisation.
Entitled(r) == \/ r.op \in {"add", "invite"} /\ Left(r) <= 5
               \/ r.op = "accept" /\ Left(r) <= 3
               \/ r.op = "transfer" /\ Left(r) <= 2
\* It has found the role it is about to change.
HasRoleInHand(r) == r.op \in {"permit", "remove", "leave", "transfer"} /\ Left(r) = 1

Known(r) ==
  /\ Placed(r)
  /\ r.me \in DOMAIN users \cup {None} /\ r.user \in DOMAIN users \cup {None}
  /\ r.org \in DOMAIN orgs \cup {None}
  /\ r.op \in {"permit", "remove", "leave", "transfer", "add", "invite", "rename", "deleteOrg"} =>
       r.org # None
  /\ r.op \in {"cancel", "accept", "decline"} => r.invite \in DOMAIN invites
  /\ r.op = "signUp" /\ Left(r) >= 3 => r.user = None
  /\ Joins(r) => r.user # None /\ (r.op # "add" => r.user = r.me)
  /\ r.op \in {"createOrg", "signUp"} => r.admin
  /\ r.op = "deleteMe" => r.me # None
  /\ r.op = "leave" => r.user = r.me
  /\ Entitled(r) => r.org # None /\ Founded(r.org)
  /\ Creating(r) => r.org # None /\ ~Founded(r.org) /\ orgs[r.org].owner = r.user
  /\ HasRoleInHand(r) => /\ r.role \in DOMAIN roles
                         /\ roles[r.role].user = r.user /\ roles[r.role].org = r.org
  /\ Dropping(r) => r.role \in DOMAIN roles /\ roles[r.role].user = r.me

DocsInv ==
  /\ users \in Seq(AnyUser) /\ orgs \in Seq(AnyOrg)
  /\ roles \in Seq(AnyRole) /\ invites \in Seq(AnyInvite)
  /\ \A x \in DOMAIN roles : roles[x].user \in DOMAIN users /\ roles[x].org \in DOMAIN orgs
  /\ \A i \in DOMAIN invites : invites[i].org \in DOMAIN orgs /\ Founded(invites[i].org)
BaseInv ==
  /\ DocsInv
  /\ req \in [Request -> AnyRequest]
  /\ \A q \in Request, r \in AnyRequest : r = req[q] => Known(r)
  /\ \A p, q \in Request : Creating(req[p]) /\ Creating(req[q]) /\ p # q => req[p].org # req[q].org

-----------------------------------------------------------------------------
(* What is true as long as the overlaps are those the handlers provide     *)
(* for.                                                                    *)

HasRole(u, o) == \E x \in DOMAIN roles : roles[x].user = u /\ roles[x].org = o /\ ~roles[x].deleted
Rules(u, o) == \E x \in DOMAIN roles :
                 roles[x].user = u /\ roles[x].org = o /\ ~roles[x].deleted /\ roles[x].admin

\* The owner has been looked at: the user is not.
Spares(r) == \/ r.op \in {"permit", "remove"} /\ Left(r) <= 3
             \/ r.op = "leave" /\ Left(r) <= 2
\* deleteMe has found no organisation of the user.
Leaving(r) == r.op = "deleteMe" /\ (Left(r) <= 3 \/ Dropping(r))

CalmKnown(r) ==
  /\ r.op = "add" /\ Left(r) <= 3 => r.user \in LiveUser \cup {None}
  /\ r.op = "add" /\ Left(r) <= 2 => r.user = None \/ ~HasRole(r.user, r.org)
  /\ r.op = "accept" /\ Left(r) \in {2, 3} => ~HasRole(r.user, r.org)
  /\ Joins(r) => r.user \in LiveUser
  /\ Spares(r) => orgs[r.org].owner # r.user
  /\ r.op = "transfer" /\ Left(r) = 1 => roles[r.role].admin /\ ~roles[r.role].deleted
  /\ r.op = "deleteMe" /\ Left(r) = 4 /\ ~Dropping(r) =>
       \A x \in DOMAIN roles : roles[x].user = r.me /\ ~roles[x].deleted => roles[x].org \in r.left
  /\ Leaving(r) =>
       /\ \A o \in LiveOrg : orgs[o].owner # r.me
       /\ \A x \in DOMAIN roles :
            roles[x].user = r.me /\ ~roles[x].deleted /\ roles[x].org \in LiveOrg =>
              \/ Left(r) >= 3 /\ roles[x].org \in r.left
              \/ Dropping(r) /\ x = r.role

Apart == \A p, q \in Request : Running(p) /\ Running(q) => ~Conflict(req[p].op, req[q].op) \/ p = q
Ruled == \A o \in LiveOrg : \/ \E q \in Request : Creating(req[q]) /\ req[q].org = o
                            \/ orgs[o].owner \in LiveUser /\ Rules(orgs[o].owner, o)
Resolved == \A x \in DOMAIN roles : ~roles[x].deleted /\ roles[x].org \in LiveOrg
                                      => roles[x].user \in LiveUser
OneRole == \A x, y \in DOMAIN roles :
             ~roles[x].deleted /\ ~roles[y].deleted /\ roles[x].user = roles[y].user
               /\ roles[x].org = roles[y].org => x = y
Knowledge == \A q \in Request, r \in AnyRequest : r = req[q] => CalmKnown(r)
CalmInv == calm => Apart /\ Ruled /\ Resolved /\ OneRole /\ Knowledge

-----------------------------------------------------------------------------
(* Where a request is.                                                     *)

LEMMA IdleType == Idle \in AnyRequest /\ Idle.op = "none" /\ Idle.todo = <<>>
BY DEF Idle, AnyRequest, Ref

\* The next await of a handler.
LEMMA HeadIs ==
  ASSUME NEW r \in AnyRequest, Placed(r), r.op # "none", ~Dropping(r), NEW h, h = Handler[r.op]
  PROVE  /\ Left(r) \in 1 .. Len(h) /\ Head(r.todo) = h[Len(h) - Left(r) + 1]
         /\ r.op \in DOMAIN Handler
<1>1. /\ r.op \in DOMAIN Handler /\ Left(r) \in 1 .. Len(h)
      /\ \A k \in 1 .. Left(r) : r.todo[k] = h[Len(h) - Left(r) + k]
  BY DEF Placed
<1>2. r.todo \in Seq(Await)
  BY DEF AnyRequest
<1>3. r.todo # <<>> /\ 1 \in 1 .. Left(r)
  BY <1>1, <1>2 DEF Left
<1>4. Head(r.todo) = r.todo[1]
  BY <1>2, <1>3
<1> QED BY <1>1, <1>3, <1>4

LEMMA Spots ==
  ASSUME NEW r \in AnyRequest, Placed(r), r.op # "none", ~Dropping(r)
  PROVE  /\ r.op \in {"add", "invite", "cancel", "accept", "decline", "permit",
                      "remove", "leave", "transfer", "rename", "deleteOrg",
                      "createOrg", "signUp", "updateMe", "deleteMe"}
         /\ r.op = "add" =>
              \/ Left(r) = 6 /\ Head(r.todo) = "asAdmin"
              \/ Left(r) = 5 /\ Head(r.todo) = "fetchOrg"
              \/ Left(r) = 4 /\ Head(r.todo) = "findUser"
              \/ Left(r) = 3 /\ Head(r.todo) = "noRole"
              \/ Left(r) = 2 /\ Head(r.todo) = "saveUser"
              \/ Left(r) = 1 /\ Head(r.todo) = "link"
         /\ r.op = "invite" =>
              \/ Left(r) = 6 /\ Head(r.todo) = "asAdmin"
              \/ Left(r) = 5 /\ Head(r.todo) = "fetchOrg"
              \/ Left(r) = 4 /\ Head(r.todo) = "findUser"
              \/ Left(r) = 3 /\ Head(r.todo) = "noRole"
              \/ Left(r) = 2 /\ Head(r.todo) = "noInvite"
              \/ Left(r) = 1 /\ Head(r.todo) = "saveInvite"
         /\ r.op = "cancel" =>
              \/ Left(r) = 3 /\ Head(r.todo) = "findInvite"
              \/ Left(r) = 2 /\ Head(r.todo) = "asAdmin"
              \/ Left(r) = 1 /\ Head(r.todo) = "dropInvite"
         /\ r.op = "accept" =>
              \/ Left(r) = 4 /\ Head(r.todo) = "findInvite"
              \/ Left(r) = 3 /\ Head(r.todo) = "fetchOrg"
              \/ Left(r) = 2 /\ Head(r.todo) = "link"
              \/ Left(r) = 1 /\ Head(r.todo) = "dropInvite"
         /\ r.op = "decline" =>
              \/ Left(r) = 2 /\ Head(r.todo) = "findInvite"
              \/ Left(r) = 1 /\ Head(r.todo) = "dropInvite"
         /\ r.op = "permit" =>
              \/ Left(r) = 4 /\ Head(r.todo) = "fetchOrg"
              \/ Left(r) = 3 /\ Head(r.todo) = "asAdmin"
              \/ Left(r) = 2 /\ Head(r.todo) = "findRole"
              \/ Left(r) = 1 /\ Head(r.todo) = "saveRole"
         /\ r.op = "remove" =>
              \/ Left(r) = 4 /\ Head(r.todo) = "fetchOrg"
              \/ Left(r) = 3 /\ Head(r.todo) = "asAdmin"
              \/ Left(r) = 2 /\ Head(r.todo) = "findRole"
              \/ Left(r) = 1 /\ Head(r.todo) = "dropRole"
         /\ r.op = "leave" =>
              \/ Left(r) = 3 /\ Head(r.todo) = "fetchOrg"
              \/ Left(r) = 2 /\ Head(r.todo) = "findRole"
              \/ Left(r) = 1 /\ Head(r.todo) = "dropRole"
         /\ r.op = "transfer" =>
              \/ Left(r) = 4 /\ Head(r.todo) = "fetchOrg"
              \/ Left(r) = 3 /\ Head(r.todo) = "asAdmin"
              \/ Left(r) = 2 /\ Head(r.todo) = "findRole"
              \/ Left(r) = 1 /\ Head(r.todo) = "saveOrg"
         /\ r.op = "rename" =>
              \/ Left(r) = 3 /\ Head(r.todo) = "asEditor"
              \/ Left(r) = 2 /\ Head(r.todo) = "fetchOrg"
              \/ Left(r) = 1 /\ Head(r.todo) = "saveOrg"
         /\ r.op = "deleteOrg" =>
              \/ Left(r) = 2 /\ Head(r.todo) = "fetchOrg"
              \/ Left(r) = 1 /\ Head(r.todo) = "saveOrg"
         /\ r.op = "createOrg" =>
              \/ Left(r) = 3 /\ Head(r.todo) = "countOrgs"
              \/ Left(r) = 2 /\ Head(r.todo) = "insertOrg"
              \/ Left(r) = 1 /\ Head(r.todo) = "link"
         /\ r.op = "signUp" =>
              \/ Left(r) = 4 /\ Head(r.todo) = "findUser"
              \/ Left(r) = 3 /\ Head(r.todo) = "saveUser"
              \/ Left(r) = 2 /\ Head(r.todo) = "insertOrg"
              \/ Left(r) = 1 /\ Head(r.todo) = "link"
         /\ r.op = "updateMe" =>
              \/ Left(r) = 2 /\ Head(r.todo) = "findUser"
              \/ Left(r) = 1 /\ Head(r.todo) = "saveMe"
         /\ r.op = "deleteMe" =>
              \/ Left(r) = 5 /\ Head(r.todo) = "myRoles"
              \/ Left(r) = 4 /\ Head(r.todo) = "myOrgs"
              \/ Left(r) = 3 /\ Head(r.todo) = "leaveOrgs"
              \/ Left(r) = 2 /\ Head(r.todo) = "saveMe"
              \/ Left(r) = 1 /\ Head(r.todo) = "dropMe"
<1>1. PICK h : h = Handler[r.op]
  OBVIOUS
<1>2. r.op \in DOMAIN Handler /\ Left(r) \in 1 .. Len(h) /\ Head(r.todo) = h[Len(h) - Left(r) + 1]
  BY <1>1, HeadIs
<1>3. r.op \in {"add", "invite", "cancel", "accept", "decline", "permit", "remove",
               "leave", "transfer", "rename", "deleteOrg", "createOrg", "signUp",
               "updateMe", "deleteMe"}
  BY <1>2 DEF Handler
<1>4. CASE r.op = "add"
  <2>1. h = <<"asAdmin", "fetchOrg", "findUser", "noRole", "saveUser", "link">>
    BY <1>1, <1>4 DEF Handler
  <2> QED BY <1>2, <1>4, <2>1
<1>5. CASE r.op = "invite"
  <2>1. h = <<"asAdmin", "fetchOrg", "findUser", "noRole", "noInvite", "saveInvite">>
    BY <1>1, <1>5 DEF Handler
  <2> QED BY <1>2, <1>5, <2>1
<1>6. CASE r.op = "cancel"
  <2>1. h = <<"findInvite", "asAdmin", "dropInvite">>
    BY <1>1, <1>6 DEF Handler
  <2> QED BY <1>2, <1>6, <2>1
<1>7. CASE r.op = "accept"
  <2>1. h = <<"findInvite", "fetchOrg", "link", "dropInvite">>
    BY <1>1, <1>7 DEF Handler
  <2> QED BY <1>2, <1>7, <2>1
<1>8. CASE r.op = "decline"
  <2>1. h = <<"findInvite", "dropInvite">>
    BY <1>1, <1>8 DEF Handler
  <2> QED BY <1>2, <1>8, <2>1
<1>9. CASE r.op = "permit"
  <2>1. h = <<"fetchOrg", "asAdmin", "findRole", "saveRole">>
    BY <1>1, <1>9 DEF Handler
  <2> QED BY <1>2, <1>9, <2>1
<1>10. CASE r.op = "remove"
  <2>1. h = <<"fetchOrg", "asAdmin", "findRole", "dropRole">>
    BY <1>1, <1>10 DEF Handler
  <2> QED BY <1>2, <1>10, <2>1
<1>11. CASE r.op = "leave"
  <2>1. h = <<"fetchOrg", "findRole", "dropRole">>
    BY <1>1, <1>11 DEF Handler
  <2> QED BY <1>2, <1>11, <2>1
<1>12. CASE r.op = "transfer"
  <2>1. h = <<"fetchOrg", "asAdmin", "findRole", "saveOrg">>
    BY <1>1, <1>12 DEF Handler
  <2> QED BY <1>2, <1>12, <2>1
<1>13. CASE r.op = "rename"
  <2>1. h = <<"asEditor", "fetchOrg", "saveOrg">>
    BY <1>1, <1>13 DEF Handler
  <2> QED BY <1>2, <1>13, <2>1
<1>14. CASE r.op = "deleteOrg"
  <2>1. h = <<"fetchOrg", "saveOrg">>
    BY <1>1, <1>14 DEF Handler
  <2> QED BY <1>2, <1>14, <2>1
<1>15. CASE r.op = "createOrg"
  <2>1. h = <<"countOrgs", "insertOrg", "link">>
    BY <1>1, <1>15 DEF Handler
  <2> QED BY <1>2, <1>15, <2>1
<1>16. CASE r.op = "signUp"
  <2>1. h = <<"findUser", "saveUser", "insertOrg", "link">>
    BY <1>1, <1>16 DEF Handler
  <2> QED BY <1>2, <1>16, <2>1
<1>17. CASE r.op = "updateMe"
  <2>1. h = <<"findUser", "saveMe">>
    BY <1>1, <1>17 DEF Handler
  <2> QED BY <1>2, <1>17, <2>1
<1>18. CASE r.op = "deleteMe"
  <2>1. h = <<"myRoles", "myOrgs", "leaveOrgs", "saveMe", "dropMe">>
    BY <1>1, <1>18 DEF Handler
  <2> QED BY <1>2, <1>18, <2>1
<1> QED BY <1>3, <1>4, <1>5, <1>6, <1>7, <1>8, <1>9, <1>10, <1>11, <1>12, <1>13, <1>14,
           <1>15, <1>16, <1>17, <1>18

\* Where each await is.
LEMMA NotDropping ==
  ASSUME NEW r, Head(r.todo) # "dropRole" PROVE ~Dropping(r)
BY DEF Dropping

LEMMA At_asAdmin ==
  ASSUME NEW r \in AnyRequest, Placed(r), r.op # "none", Head(r.todo) = "asAdmin"
  PROVE  /\ ~Dropping(r)
         /\ \/ r.op = "add" /\ Left(r) = 6
            \/ r.op = "invite" /\ Left(r) = 6
            \/ r.op = "cancel" /\ Left(r) = 2
            \/ r.op = "permit" /\ Left(r) = 3
            \/ r.op = "remove" /\ Left(r) = 3
            \/ r.op = "transfer" /\ Left(r) = 3
BY NotDropping, Spots

LEMMA At_fetchOrg ==
  ASSUME NEW r \in AnyRequest, Placed(r), r.op # "none", Head(r.todo) = "fetchOrg"
  PROVE  /\ ~Dropping(r)
         /\ \/ r.op = "add" /\ Left(r) = 5
            \/ r.op = "invite" /\ Left(r) = 5
            \/ r.op = "accept" /\ Left(r) = 3
            \/ r.op = "permit" /\ Left(r) = 4
            \/ r.op = "remove" /\ Left(r) = 4
            \/ r.op = "leave" /\ Left(r) = 3
            \/ r.op = "transfer" /\ Left(r) = 4
            \/ r.op = "rename" /\ Left(r) = 2
            \/ r.op = "deleteOrg" /\ Left(r) = 2
BY NotDropping, Spots

LEMMA At_findUser ==
  ASSUME NEW r \in AnyRequest, Placed(r), r.op # "none", Head(r.todo) = "findUser"
  PROVE  /\ ~Dropping(r)
         /\ \/ r.op = "add" /\ Left(r) = 4
            \/ r.op = "invite" /\ Left(r) = 4
            \/ r.op = "signUp" /\ Left(r) = 4
            \/ r.op = "updateMe" /\ Left(r) = 2
BY NotDropping, Spots

LEMMA At_noRole ==
  ASSUME NEW r \in AnyRequest, Placed(r), r.op # "none", Head(r.todo) = "noRole"
  PROVE  /\ ~Dropping(r)
         /\ \/ r.op = "add" /\ Left(r) = 3
            \/ r.op = "invite" /\ Left(r) = 3
BY NotDropping, Spots

LEMMA At_saveUser ==
  ASSUME NEW r \in AnyRequest, Placed(r), r.op # "none", Head(r.todo) = "saveUser"
  PROVE  /\ ~Dropping(r)
         /\ \/ r.op = "add" /\ Left(r) = 2
            \/ r.op = "signUp" /\ Left(r) = 3
BY NotDropping, Spots

LEMMA At_link ==
  ASSUME NEW r \in AnyRequest, Placed(r), r.op # "none", Head(r.todo) = "link"
  PROVE  /\ ~Dropping(r)
         /\ \/ r.op = "add" /\ Left(r) = 1
            \/ r.op = "accept" /\ Left(r) = 2
            \/ r.op = "createOrg" /\ Left(r) = 1
            \/ r.op = "signUp" /\ Left(r) = 1
BY NotDropping, Spots

LEMMA At_noInvite ==
  ASSUME NEW r \in AnyRequest, Placed(r), r.op # "none", Head(r.todo) = "noInvite"
  PROVE  /\ ~Dropping(r)
         /\ r.op = "invite" /\ Left(r) = 2
BY NotDropping, Spots

LEMMA At_saveInvite ==
  ASSUME NEW r \in AnyRequest, Placed(r), r.op # "none", Head(r.todo) = "saveInvite"
  PROVE  /\ ~Dropping(r)
         /\ r.op = "invite" /\ Left(r) = 1
BY NotDropping, Spots

LEMMA At_findInvite ==
  ASSUME NEW r \in AnyRequest, Placed(r), r.op # "none", Head(r.todo) = "findInvite"
  PROVE  /\ ~Dropping(r)
         /\ \/ r.op = "cancel" /\ Left(r) = 3
            \/ r.op = "accept" /\ Left(r) = 4
            \/ r.op = "decline" /\ Left(r) = 2
BY NotDropping, Spots

LEMMA At_dropInvite ==
  ASSUME NEW r \in AnyRequest, Placed(r), r.op # "none", Head(r.todo) = "dropInvite"
  PROVE  /\ ~Dropping(r)
         /\ \/ r.op = "cancel" /\ Left(r) = 1
            \/ r.op = "accept" /\ Left(r) = 1
            \/ r.op = "decline" /\ Left(r) = 1
BY NotDropping, Spots

LEMMA At_findRole ==
  ASSUME NEW r \in AnyRequest, Placed(r), r.op # "none", Head(r.todo) = "findRole"
  PROVE  /\ ~Dropping(r)
         /\ \/ r.op = "permit" /\ Left(r) = 2
            \/ r.op = "remove" /\ Left(r) = 2
            \/ r.op = "leave" /\ Left(r) = 2
            \/ r.op = "transfer" /\ Left(r) = 2
BY NotDropping, Spots

LEMMA At_saveRole ==
  ASSUME NEW r \in AnyRequest, Placed(r), r.op # "none", Head(r.todo) = "saveRole"
  PROVE  /\ ~Dropping(r)
         /\ r.op = "permit" /\ Left(r) = 1
BY NotDropping, Spots

LEMMA At_dropRole ==
  ASSUME NEW r \in AnyRequest, Placed(r), r.op # "none", Head(r.todo) = "dropRole"
  PROVE  \/ Dropping(r)
         \/ ~Dropping(r) /\ r.op = "remove" /\ Left(r) = 1
         \/ ~Dropping(r) /\ r.op = "leave" /\ Left(r) = 1
BY Spots

LEMMA At_saveOrg ==
  ASSUME NEW r \in AnyRequest, Placed(r), r.op # "none", Head(r.todo) = "saveOrg"
  PROVE  /\ ~Dropping(r)
         /\ \/ r.op = "transfer" /\ Left(r) = 1
            \/ r.op = "rename" /\ Left(r) = 1
            \/ r.op = "deleteOrg" /\ Left(r) = 1
BY NotDropping, Spots

LEMMA At_asEditor ==
  ASSUME NEW r \in AnyRequest, Placed(r), r.op # "none", Head(r.todo) = "asEditor"
  PROVE  /\ ~Dropping(r)
         /\ r.op = "rename" /\ Left(r) = 3
BY NotDropping, Spots

LEMMA At_countOrgs ==
  ASSUME NEW r \in AnyRequest, Placed(r), r.op # "none", Head(r.todo) = "countOrgs"
  PROVE  /\ ~Dropping(r)
         /\ r.op = "createOrg" /\ Left(r) = 3
BY NotDropping, Spots

LEMMA At_insertOrg ==
  ASSUME NEW r \in AnyRequest, Placed(r), r.op # "none", Head(r.todo) = "insertOrg"
  PROVE  /\ ~Dropping(r)
         /\ \/ r.op = "createOrg" /\ Left(r) = 2
            \/ r.op = "signUp" /\ Left(r) = 2
BY NotDropping, Spots

LEMMA At_saveMe ==
  ASSUME NEW r \in AnyRequest, Placed(r), r.op # "none", Head(r.todo) = "saveMe"
  PROVE  /\ ~Dropping(r)
         /\ \/ r.op = "updateMe" /\ Left(r) = 1
            \/ r.op = "deleteMe" /\ Left(r) = 2
BY NotDropping, Spots

LEMMA At_myRoles ==
  ASSUME NEW r \in AnyRequest, Placed(r), r.op # "none", Head(r.todo) = "myRoles"
  PROVE  /\ ~Dropping(r)
         /\ r.op = "deleteMe" /\ Left(r) = 5
BY NotDropping, Spots

LEMMA At_myOrgs ==
  ASSUME NEW r \in AnyRequest, Placed(r), r.op # "none", Head(r.todo) = "myOrgs"
  PROVE  /\ ~Dropping(r)
         /\ r.op = "deleteMe" /\ Left(r) = 4
BY NotDropping, Spots

LEMMA At_leaveOrgs ==
  ASSUME NEW r \in AnyRequest, Placed(r), r.op # "none", Head(r.todo) = "leaveOrgs"
  PROVE  /\ ~Dropping(r)
         /\ r.op = "deleteMe" /\ Left(r) = 3
BY NotDropping, Spots

LEMMA At_dropMe ==
  ASSUME NEW r \in AnyRequest, Placed(r), r.op # "none", Head(r.todo) = "dropMe"
  PROVE  /\ ~Dropping(r)
         /\ r.op = "deleteMe" /\ Left(r) = 1
BY NotDropping, Spots

LEMMA TailIs ==
  ASSUME NEW S, NEW s \in Seq(S), s # <<>>
  PROVE  Tail(s) \in Seq(S) /\ Len(Tail(s)) = Len(s) - 1 /\ \A k \in 1 .. Len(s) - 1 : Tail(s)[k] = s[k + 1]
BY HeadTailProperties

LEMMA More == ASSUME NEW n \in Nat, n # 0, n # 1 PROVE n > 1
OBVIOUS

\* A request that goes on: it ends, or has one await less to go.
LEMMA Onward ==
  ASSUME NEW r \in AnyRequest, Placed(r), r.op # "none", NEW now \in AnyRequest,
         now.op = r.op, now.todo = r.todo,
         NEW new, \/ Left(r) = 1 /\ new = Idle
                  \/ Left(r) # 1 /\ new = [now EXCEPT !.todo = Tail(r.todo)]
  PROVE  /\ new \in AnyRequest /\ Placed(new) /\ ~Dropping(new)
         /\ \/ Left(r) = 1 /\ new = Idle
            \/ /\ Left(r) > 1 /\ Left(new) = Left(r) - 1 /\ new = [now EXCEPT !.todo = Tail(r.todo)]
               /\ new.op = r.op /\ new.todo = Tail(r.todo)
<1>1. r.todo \in Seq(Await) /\ Left(r) \in Nat /\ r.todo # <<>>
  <2>1. r.todo \in Seq(Await)
    BY DEF AnyRequest
  <2>2. r.todo # <<>>
    <3>1. CASE Dropping(r)
      BY <3>1 DEF Dropping
    <3>2. CASE ~Dropping(r)
      <4>1. Left(r) \in 1 .. Len(Handler[r.op])
        BY <3>2 DEF Placed
      <4> QED BY <2>1, <4>1 DEF Left
    <3> QED BY <3>1, <3>2
  <2> QED BY <2>1, <2>2 DEF Left
<1>2. CASE Left(r) = 1
  <2>1. new = Idle /\ Left(r) = 1
    BY <1>2
  <2> QED BY <2>1, IdleType DEF Placed, Dropping
<1>3. CASE Left(r) # 1
  <2>1. PICK t \in Seq(Await) : t = Tail(r.todo)
    <3>1. Tail(r.todo) \in Seq(Await)
      BY <1>1, TailIs
    <3> QED BY <3>1
  <2>2. Len(r.todo) > 1 /\ Len(t) = Len(r.todo) - 1 /\ \A k \in 1 .. Len(t) : t[k] = r.todo[k + 1]
    <3>1. Len(r.todo) # 1 /\ Len(r.todo) # 0
      BY <1>1, <1>3 DEF Left
    <3>2. PICK n \in Nat : n = Len(r.todo)
      BY <1>1 DEF Left
    <3>3. n > 1
      BY <3>1, <3>2, More
    <3> QED BY <1>1, <2>1, <3>2, <3>3, TailIs
  <2>3. new = [now EXCEPT !.todo = t]
    BY <1>3, <2>1
  <2>4. new \in AnyRequest /\ new.op = r.op /\ new.todo = t
    BY <2>3 DEF AnyRequest
  <2>5. Left(new) = Left(r) - 1 /\ Left(r) > 1
    BY <2>2, <2>4 DEF Left
  <2>6. ~Dropping(new) /\ Placed(new)
    <3>1. CASE Dropping(r)
      <4>1. r.op = "deleteMe" /\ r.todo = <<"dropRole", "leaveOrgs", "saveMe", "dropMe">>
        BY <3>1 DEF Dropping
      <4>2. t = <<"leaveOrgs", "saveMe", "dropMe">>
        BY <2>1, <4>1
      <4>3. PICK h : h = Handler["deleteMe"]
        OBVIOUS
      <4>4. h = <<"myRoles", "myOrgs", "leaveOrgs", "saveMe", "dropMe">>
        BY <4>3 DEF Handler
      <4>5. Len(t) = 3 /\ \A k \in 1 .. 3 : t[k] = h[Len(h) - 3 + k]
        BY <4>2, <4>4
      <4>6. t # <<"dropRole", "leaveOrgs", "saveMe", "dropMe">>
        BY <4>2
      <4>7. Len(h) = 5 /\ "deleteMe" \in DOMAIN Handler
        BY <4>4 DEF Handler
      <4>8. Left(new) = 3 /\ new.todo = t /\ new.op = "deleteMe" /\ Handler[new.op] = h
        BY <2>4, <4>1, <4>3, <4>5 DEF Left
      <4>9. ~Dropping(new)
        BY <4>6, <4>8 DEF Dropping
      <4>10. Left(new) \in 1 .. Len(h) /\ \A k \in 1 .. Left(new) : new.todo[k] = h[Len(h) - Left(new) + k]
        <5>2. Left(new) \in 1 .. Len(h)
          <6>1. 3 \in 1 .. 5
            OBVIOUS
          <6> QED BY <4>7, <4>8, <6>1
        <5>1. ASSUME NEW k \in 1 .. 3 PROVE t[k] = h[Len(h) - 3 + k]
          BY <4>5
        <5> QED BY <4>8, <5>1, <5>2
      <4>11. new.op \in DOMAIN Handler
        BY <4>7, <4>8
      <4> QED BY <4>8, <4>9, <4>10, <4>11 DEF Placed
    <3>2. CASE ~Dropping(r)
      <4>1. PICK h : h = Handler[r.op]
        OBVIOUS
      <4>2. /\ r.op \in DOMAIN Handler /\ Left(r) \in 1 .. Len(h)
            /\ \A k \in 1 .. Left(r) : r.todo[k] = h[Len(h) - Left(r) + k]
        BY <3>2, <4>1 DEF Placed
      <4>3. Len(h) \in Int
        BY <4>1 DEF Handler
      <4>4. Left(new) \in 1 .. Len(h)
        BY <2>5, <4>2, <4>3
      <4>5. \A k \in 1 .. Left(new) : new.todo[k] = h[Len(h) - Left(new) + k]
        <5> SUFFICES ASSUME NEW k \in 1 .. Left(new) PROVE new.todo[k] = h[Len(h) - Left(new) + k]
          OBVIOUS
        <5>1. k + 1 \in 1 .. Left(r) /\ k \in 1 .. Len(t)
          BY <1>1, <2>2, <2>4, <2>5 DEF Left
        <5>2. new.todo[k] = r.todo[k + 1]
          BY <2>2, <2>4, <5>1
        <5>3. Len(h) - Left(r) + (k + 1) = Len(h) - Left(new) + k
          BY <1>1, <2>5, <4>3
        <5> QED BY <4>2, <5>1, <5>2, <5>3
      <4>6. Placed(new)
        BY <2>4, <4>1, <4>2, <4>4, <4>5 DEF Placed
      <4>7. ~Dropping(new)
        <5> SUFFICES ASSUME Dropping(new) PROVE FALSE
          OBVIOUS
        <5>1. r.op = "deleteMe" /\ new.todo = <<"dropRole", "leaveOrgs", "saveMe", "dropMe">>
          BY <2>4 DEF Dropping
        <5>2. Left(new) = 4 /\ new.todo[1] = "dropRole"
          <6>1. PICK d : d = new.todo
            OBVIOUS
          <6>2. d = <<"dropRole", "leaveOrgs", "saveMe", "dropMe">>
            BY <5>1, <6>1
          <6>3. Len(d) = 4 /\ d[1] = "dropRole"
            BY <6>2
          <6> QED BY <6>1, <6>3 DEF Left
        <5>3. h = <<"myRoles", "myOrgs", "leaveOrgs", "saveMe", "dropMe">>
          BY <4>1, <5>1 DEF Handler
        <5>4. Len(h) = 5 /\ h[2] = "myOrgs"
          BY <5>3
        <5>5. new.todo[1] = h[5 - 4 + 1]
          <6>1. 1 \in 1 .. Left(new) /\ Len(h) - Left(new) + 1 = 5 - 4 + 1
            BY <5>2, <5>4
          <6>2. new.todo[1] = h[Len(h) - Left(new) + 1]
            BY <4>5, <6>1
          <6> QED BY <6>1, <6>2
        <5>6. h[5 - 4 + 1] = h[2]
          OBVIOUS
        <5> QED BY <5>2, <5>4, <5>5, <5>6
      <4> QED BY <4>6, <4>7
    <3> QED BY <3>1, <3>2
  <2> QED BY <2>1, <2>3, <2>4, <2>5, <2>6
<1> QED BY <1>2, <1>3

LEMMA KnowingIs ==
  ASSUME NEW r \in AnyRequest
  PROVE  /\ Knowing(r, <<>>) = r
         /\ \A x : Knowing(r, [owner |-> x]) = [r EXCEPT !.owner = x]
         /\ \A x : Knowing(r, [user |-> x]) = [r EXCEPT !.user = x]
         /\ \A x : Knowing(r, [role |-> x]) = [r EXCEPT !.role = x]
         /\ \A x : Knowing(r, [left |-> x]) = [r EXCEPT !.left = x]
         /\ \A x : Knowing(r, [org |-> x]) = [r EXCEPT !.org = x]
         /\ \A x, y : Knowing(r, [org |-> x, admin |-> y]) = [r EXCEPT !.org = x, !.admin = y]
         /\ \A x, y : Knowing(r, [user |-> x, me |-> y]) = [r EXCEPT !.user = x, !.me = y]
<1>1. Knowing(r, <<>>) = r
  BY DEF Knowing, AnyRequest
<1>2. ASSUME NEW x PROVE Knowing(r, [owner |-> x]) = [r EXCEPT !.owner = x]
  BY DEF Knowing, AnyRequest
<1>3. ASSUME NEW x PROVE Knowing(r, [user |-> x]) = [r EXCEPT !.user = x]
  BY DEF Knowing, AnyRequest
<1>4. ASSUME NEW x PROVE Knowing(r, [role |-> x]) = [r EXCEPT !.role = x]
  BY DEF Knowing, AnyRequest
<1>5. ASSUME NEW x PROVE Knowing(r, [left |-> x]) = [r EXCEPT !.left = x]
  BY DEF Knowing, AnyRequest
<1>6. ASSUME NEW x PROVE Knowing(r, [org |-> x]) = [r EXCEPT !.org = x]
  BY DEF Knowing, AnyRequest
<1>7. ASSUME NEW x, NEW y PROVE Knowing(r, [org |-> x, admin |-> y]) = [r EXCEPT !.org = x, !.admin = y]
  <2>1. PICK m : m = [org |-> x, admin |-> y]
    OBVIOUS
  <2>2. DOMAIN m = {"org", "admin"} /\ m.org = x /\ m.admin = y
    BY <2>1
  <2>3. Knowing(r, m) = [f \in DOMAIN r |-> IF f = "org" THEN x ELSE IF f = "admin" THEN y ELSE r[f]]
    BY <2>2 DEF Knowing
  <2>4. [r EXCEPT !.org = x, !.admin = y] = [f \in DOMAIN r |-> IF f = "org" THEN x
                                                                  ELSE IF f = "admin" THEN y ELSE r[f]]
    BY DEF AnyRequest
  <2> QED BY <2>1, <2>3, <2>4
<1>8. ASSUME NEW x, NEW y PROVE Knowing(r, [user |-> x, me |-> y]) = [r EXCEPT !.user = x, !.me = y]
  <2>1. PICK m : m = [user |-> x, me |-> y]
    OBVIOUS
  <2>2. DOMAIN m = {"user", "me"} /\ m.user = x /\ m.me = y
    BY <2>1
  <2>3. Knowing(r, m) = [f \in DOMAIN r |-> IF f = "user" THEN x ELSE IF f = "me" THEN y ELSE r[f]]
    BY <2>2 DEF Knowing
  <2>4. [r EXCEPT !.user = x, !.me = y] = [f \in DOMAIN r |-> IF f = "user" THEN x
                                                                ELSE IF f = "me" THEN y ELSE r[f]]
    BY DEF AnyRequest
  <2> QED BY <2>1, <2>3, <2>4
<1> QED BY <1>1, <1>2, <1>3, <1>4, <1>5, <1>6, <1>7, <1>8

LEMMA LeastOf ==
  ASSUME NEW T \in SUBSET Nat, T # {} PROVE Min(T) \in T
<1> DEFINE R == OpToRel(<, Nat)
<1>1. \A x, y \in Nat : y < x => <<y, x>> \in R
  BY DEF OpToRel
<1>2. IsWellFoundedOn(R, Nat)
  BY NatLessThanWellFounded
<1> HIDE DEF R
<1>3. \E x \in T : \A y \in T : ~(<<y, x>> \in R)
  BY <1>2, WFMin
<1>4. \E x \in T : \A y \in T : x =< y
  <2>1. PICK x \in T : \A y \in T : ~(<<y, x>> \in R)
    BY <1>3
  <2>2. ASSUME NEW y \in T PROVE x =< y
    <3>1. x \in Nat /\ y \in Nat /\ ~(y < x)
      BY <1>1, <2>1
    <3> QED BY <3>1
  <2> QED BY <2>2
<1> QED BY <1>4 DEF Min

LEMMA RoleOfIs ==
  ASSUME roles \in Seq(AnyRole), NEW u, NEW o
  PROVE  /\ RoleOf(u, o) = None <=> ~HasRole(u, o)
         /\ RoleOf(u, o) # None => /\ RoleOf(u, o) \in DOMAIN roles
                                   /\ roles[RoleOf(u, o)].user = u /\ roles[RoleOf(u, o)].org = o
                                   /\ ~roles[RoleOf(u, o)].deleted
<1> DEFINE F == {i \in DOMAIN roles : roles[i].user = u /\ roles[i].org = o /\ ~roles[i].deleted}
<1>1. RoleOf(u, o) = IF F = {} THEN None ELSE Min(F)
  BY DEF RoleOf, FindOne, Find
<1>2. F \in SUBSET Nat
  OBVIOUS
<1>3. F # {} => Min(F) \in F
  BY <1>2, LeastOf
<1>4. F # {} => Min(F) # None
  BY <1>2, <1>3, MembershipAssumption
<1>5. F = {} <=> ~HasRole(u, o)
  BY DEF HasRole
<1> QED BY <1>1, <1>3, <1>4, <1>5

LEMMA UserWithIs ==
  ASSUME users \in Seq(AnyUser), NEW e
  PROVE  UserWith(e) = None \/ UserWith(e) \in LiveUser
<1> DEFINE F == {i \in DOMAIN users : users[i].email = e /\ ~users[i].deleted}
<1>1. UserWith(e) = IF F = {} THEN None ELSE Min(F)
  BY DEF UserWith, FindOne, Find
<1>2. F \in SUBSET Nat
  OBVIOUS
<1>3. F # {} => Min(F) \in F
  BY <1>2, LeastOf
<1> QED BY <1>1, <1>3 DEF LiveUser

\* What is known is of the documents.
LEMMA SameDocs ==
  ASSUME docs' = docs, NEW x
  PROVE  (Known(x)' <=> Known(x)) /\ (CalmKnown(x)' <=> CalmKnown(x))
<1>1. users' = users /\ orgs' = orgs /\ roles' = roles /\ invites' = invites
  BY DEF docs
<1>2. LiveUser' = LiveUser /\ LiveOrg' = LiveOrg
  BY <1>1 DEF LiveUser, LiveOrg
<1>3. \A u, o : (HasRole(u, o)' <=> HasRole(u, o)) /\ (Founded(o)' <=> Founded(o))
  BY <1>1 DEF HasRole, Founded
<1>4. Known(x)' <=> Known(x)
  BY <1>1, <1>3 DEF Known
<1>5. CalmKnown(x)' <=> CalmKnown(x)
  BY <1>1, <1>2, <1>3 DEF CalmKnown
<1> QED BY <1>4, <1>5

-----------------------------------------------------------------------------
(* What a step of one request does to the invariant.                       *)

LEMMA Assemble ==
  ASSUME BaseInv, NEW q \in Request, NEW new \in AnyRequest, req' = [req EXCEPT ![q] = new],
         DocsInv', Known(new)',
         \A p \in Request \ {q}, r \in AnyRequest : r = req[p] => Known(r)',
         Creating(new) => \A p \in Request \ {q} : Creating(req[p]) => req[p].org # new.org
  PROVE  BaseInv'
<1>1. req' \in [Request -> AnyRequest] /\ \A p \in Request : req'[p] = IF p = q THEN new ELSE req[p]
  BY DEF BaseInv
<1>2. ASSUME NEW p \in Request, NEW r \in AnyRequest, r = req'[p] PROVE Known(r)'
  BY <1>1, <1>2
<1>3. ASSUME NEW p1 \in Request, NEW p2 \in Request, Creating(req'[p1]), Creating(req'[p2]), p1 # p2
      PROVE  req'[p1].org # req'[p2].org
  BY <1>1, <1>3 DEF BaseInv
<1> QED BY <1>1, <1>2, <1>3 DEF BaseInv

LEMMA StaysApart ==
  ASSUME BaseInv, Apart, NEW q \in Request, NEW new \in AnyRequest, req' = [req EXCEPT ![q] = new],
         new.todo = <<>> \/ (new.op = req[q].op /\ Running(q))
  PROVE  Apart'
<1>1. \A p \in Request : req'[p] = IF p = q THEN new ELSE req[p]
  BY DEF BaseInv
<1>2. ASSUME NEW a \in Request, NEW b \in Request, req'[a].todo # <<>>, req'[b].todo # <<>>, a # b
      PROVE  ~Conflict(req'[a].op, req'[b].op)
  <2>1. Running(a) /\ Running(b) /\ req'[a].op = req[a].op /\ req'[b].op = req[b].op
    BY <1>1, <1>2 DEF Running
  <2> QED BY <1>2, <2>1 DEF Apart
<1> QED BY <1>2 DEF Apart, Running

LEMMA AssembleCalm ==
  ASSUME BaseInv, NEW q \in Request, NEW new \in AnyRequest, req' = [req EXCEPT ![q] = new],
         Apart', Ruled', Resolved', OneRole', CalmKnown(new)',
         \A p \in Request \ {q}, r \in AnyRequest : r = req[p] => CalmKnown(r)'
  PROVE  CalmInv'
<1>1. \A p \in Request : req'[p] = IF p = q THEN new ELSE req[p]
  BY DEF BaseInv
<1>2. ASSUME NEW p \in Request, NEW r \in AnyRequest, r = req'[p] PROVE CalmKnown(r)'
  BY <1>1, <1>2
<1> QED BY <1>2 DEF CalmInv, Knowledge

LEMMA NotCalm == ASSUME ~calm' PROVE CalmInv'
BY DEF CalmInv

\* A step that reads, or is the first or the last of a request.
LEMMA ReadStep ==
  ASSUME BaseInv, CalmInv, docs' = docs, calm' => calm,
         NEW q \in Request, NEW new \in AnyRequest, req' = [req EXCEPT ![q] = new],
         Known(new), ~Creating(new), calm' => ~Creating(req[q]) /\ Apart' /\ CalmKnown(new)
  PROVE  BaseInv' /\ CalmInv'
<1>1. BaseInv'
  <2>1. Known(new)' /\ \A p \in Request \ {q}, r \in AnyRequest : r = req[p] => Known(r)'
    BY SameDocs DEF BaseInv
  <2>2. DocsInv'
    BY DEF docs, BaseInv, DocsInv, Founded
  <2> QED BY <2>1, <2>2, Assemble
<1>2. CASE ~calm'
  BY <1>1, <1>2, NotCalm
<1>3. CASE calm'
  <2>1. calm /\ Apart /\ Ruled /\ Resolved /\ OneRole /\ Knowledge
    BY <1>3 DEF CalmInv
  <2>2. users' = users /\ orgs' = orgs /\ roles' = roles
    BY DEF docs
  <2>3. LiveUser' = LiveUser /\ LiveOrg' = LiveOrg
    BY <2>2 DEF LiveUser, LiveOrg
  <2>4. Resolved' /\ OneRole'
    BY <2>1, <2>2, <2>3 DEF Resolved, OneRole
  <2>5. \A p \in Request : Creating(req[p]) => req'[p] = req[p]
    BY <1>3 DEF BaseInv
  <2>6. Ruled'
    <3>1. ASSUME NEW o \in LiveOrg, ~\E p \in Request : Creating(req'[p]) /\ req'[p].org = o
          PROVE  orgs[o].owner \in LiveUser /\ Rules(orgs[o].owner, o)
      BY <2>1, <2>5, <3>1 DEF Ruled
    <3>2. ASSUME NEW o \in LiveOrg, ~\E p \in Request : Creating(req'[p]) /\ req'[p].org = o
          PROVE  orgs'[o].owner \in LiveUser' /\ Rules(orgs[o].owner, o)'
      BY <2>2, <2>3, <3>1, <3>2 DEF Rules
    <3> QED BY <2>3, <3>2 DEF Ruled
  <2>7. CalmKnown(new)' /\ \A p \in Request \ {q}, r \in AnyRequest : r = req[p] => CalmKnown(r)'
    BY <1>3, <2>1, SameDocs DEF Knowledge
  <2>8. Apart'
    BY <1>3
  <2> QED BY <1>1, <2>4, <2>6, <2>7, <2>8, AssembleCalm
<1> QED BY <1>2, <1>3

LEMMA IdleKnown == Known(Idle) /\ CalmKnown(Idle) /\ ~Creating(Idle)
<1>1. ~Dropping(Idle) /\ Placed(Idle) /\ Left(Idle) = 0
  BY IdleType DEF Dropping, Placed, Left
<1>2. Idle.op = "none" /\ Idle.me = None /\ Idle.org = None /\ Idle.user = None
  BY DEF Idle
<1>3. /\ ~Creating(Idle) /\ ~Joins(Idle) /\ ~Entitled(Idle) /\ ~HasRoleInHand(Idle)
      /\ ~Spares(Idle) /\ ~Leaving(Idle)
  BY <1>2 DEF Creating, Joins, Entitled, HasRoleInHand, Spares, Leaving
<1> QED BY <1>1, <1>2, <1>3 DEF Known, CalmKnown

\* What is known of a request that is at one of its awaits.
LEMMA AtStep ==
  ASSUME BaseInv, CalmInv, NEW q \in Request, Running(q)
  PROVE  \E r \in AnyRequest :
           /\ r = req[q] /\ Known(r) /\ Placed(r) /\ r.op # "none" /\ r.todo # <<>>
           /\ calm => CalmKnown(r)
<1>1. PICK r \in AnyRequest : r = req[q]
  BY DEF BaseInv
<1>2. Known(r)
  BY <1>1 DEF BaseInv
<1>3. r.todo # <<>>
  BY <1>1 DEF Running
<1>4. Placed(r)
  BY <1>2 DEF Known
<1>5. r.op # "none"
  BY <1>3, <1>4 DEF Placed, Dropping, Handler
<1>6. calm => CalmKnown(r)
  BY <1>1 DEF CalmInv, Knowledge
<1> QED BY <1>1, <1>2, <1>3, <1>4, <1>5, <1>6

LEMMA RefuseStep ==
  ASSUME BaseInv, CalmInv, docs' = docs, calm' => calm, NEW q \in Request, Refuses(q),
         calm' => ~Creating(req[q])
  PROVE  BaseInv' /\ CalmInv'
<1>1. PICK new \in AnyRequest : new = Idle
  BY IdleType
<1>2. req' = [req EXCEPT ![q] = new]
  BY <1>1 DEF Refuses
<1>3. Known(new) /\ CalmKnown(new) /\ ~Creating(new)
  BY <1>1, IdleKnown
<1>4. new.todo = <<>>
  BY <1>1, IdleType
<1>5. calm' => Apart'
  BY <1>2, <1>4, StaysApart DEF CalmInv
<1> QED BY <1>2, <1>3, <1>5, ReadStep

\* The request r, which has learnt what it is `now`, has come to its next await.
Continues(r, now, new) ==
  /\ Left(r) > 1 /\ Left(new) = Left(r) - 1 /\ Placed(new) /\ ~Dropping(new)
  /\ new.op = r.op /\ new.todo = Tail(r.todo) /\ new = [now EXCEPT !.todo = Tail(r.todo)]

LEMMA GoStep ==
  ASSUME BaseInv, CalmInv, docs' = docs, calm' => calm, NEW q \in Request,
         NEW r \in AnyRequest, r = req[q], Placed(r), r.op # "none",
         NEW more, Goes(q, more), NEW now \in AnyRequest, now = Knowing(r, more),
         now.op = r.op, now.todo = r.todo,
         calm' => ~Creating(r),
         ASSUME NEW new \in AnyRequest, Continues(r, now, new)
         PROVE  Known(new) /\ ~Creating(new) /\ (calm' => CalmKnown(new))
  PROVE  BaseInv' /\ CalmInv'
<1>1. req' = [req EXCEPT ![q] = IF Len(now.todo) = 1 THEN Idle ELSE [now EXCEPT !.todo = Tail(@)]]
  BY DEF Goes
<1>2. r.todo \in Seq(Await)
  BY DEF AnyRequest
<1>3. CASE Left(r) = 1
  <2>1. Refuses(q)
    BY <1>1, <1>3 DEF Left, Refuses
  <2> QED BY <2>1, RefuseStep
<1>4. CASE Left(r) # 1
  <2>1. PICK new : new = [now EXCEPT !.todo = Tail(r.todo)]
    OBVIOUS
  <2>2. req' = [req EXCEPT ![q] = new]
    BY <1>1, <1>4, <2>1 DEF Left
  <2>3. new \in AnyRequest /\ Continues(r, now, new)
    BY <1>4, <2>1, Onward DEF Continues
  <2>4. Known(new) /\ ~Creating(new) /\ (calm' => CalmKnown(new))
    BY <2>3
  <2>5. calm' => Apart'
    <3>1. r.todo # <<>>
      BY <2>3 DEF Continues, Left
    <3>2. Running(q) /\ new.op = req[q].op
      BY <2>3, <3>1 DEF Running, Continues
    <3> QED BY <2>2, <2>3, <3>2, StaysApart DEF CalmInv
  <2> QED BY <2>2, <2>3, <2>4, <2>5, ReadStep
<1> QED BY <1>3, <1>4

\* A read that leaves the request as it was, but for one await less.
LEMMA PlainStep ==
  ASSUME BaseInv, CalmInv, docs' = docs, calm' => calm, NEW q \in Request,
         NEW r \in AnyRequest, r = req[q], Placed(r), r.op # "none", Goes(q, <<>>),
         calm' => ~Creating(r),
         ASSUME NEW new \in AnyRequest, Continues(r, r, new),
                \A f \in DOMAIN r \ {"todo"} : new[f] = r[f]
         PROVE  Known(new) /\ ~Creating(new) /\ (calm' => CalmKnown(new))
  PROVE  BaseInv' /\ CalmInv'
<1>1. r = Knowing(r, <<>>)
  BY KnowingIs
<1>2. ASSUME NEW new \in AnyRequest, Continues(r, r, new)
      PROVE  Known(new) /\ ~Creating(new) /\ (calm' => CalmKnown(new))
  <2>1. \A f \in DOMAIN r \ {"todo"} : new[f] = r[f]
    BY <1>2 DEF Continues, AnyRequest
  <2> QED BY <1>2, <2>1
<1>3. PICK more : more = <<>>
  OBVIOUS
<1> QED BY <1>1, <1>2, <1>3, GoStep

LEMMA FetchOrgStep ==
  ASSUME BaseInv, CalmInv, NEW q \in Request, FetchOrg(q) PROVE BaseInv' /\ CalmInv'
<1>1. At(q, "fetchOrg") /\ Running(q) /\ docs' = docs /\ calm' = calm
  BY DEF FetchOrg, At, ReadsOnly
<1>2. PICK r \in AnyRequest :
        /\ r = req[q] /\ Known(r) /\ Placed(r) /\ r.op # "none" /\ r.todo # <<>>
        /\ calm => CalmKnown(r)
  BY <1>1, AtStep
<1>3. Head(r.todo) = "fetchOrg"
  BY <1>1, <1>2 DEF At
<1>4. r.org \in DOMAIN orgs
  BY <1>2, <1>3, At_fetchOrg DEF Known, Entitled
<1>5. PICK owner \in Ref : owner = orgs[r.org].owner
  <2>1. orgs[r.org] \in AnyOrg
    BY <1>4 DEF BaseInv, DocsInv
  <2> QED BY <2>1 DEF AnyOrg, Ref
<1>6. ~Creating(r)
  BY <1>2, <1>3, At_fetchOrg DEF Creating
<1>7. CASE Refuses(q)
  BY <1>1, <1>2, <1>6, <1>7, RefuseStep
<1>8. CASE OwnerPasses(q, owner) /\ Goes(q, [owner |-> owner])
  <2>1. PICK more : more = [owner |-> owner]
    OBVIOUS
  <2>2. PICK now : now = [r EXCEPT !.owner = owner]
    OBVIOUS
  <2>3. now = Knowing(r, more)
    BY <2>1, <2>2, KnowingIs
  <2>4. now \in AnyRequest /\ now.op = r.op /\ now.todo = r.todo
    BY <2>2 DEF AnyRequest, Ref
  <2>5. Goes(q, more)
    BY <1>8, <2>1
  <2>6. ASSUME NEW new \in AnyRequest, Continues(r, now, new)
        PROVE  Known(new) /\ ~Creating(new) /\ (calm' => CalmKnown(new))
    <3>1. /\ new.me = r.me /\ new.user = r.user /\ new.org = r.org /\ new.admin = r.admin
          /\ new.invite = r.invite /\ new.role = r.role /\ new.left = r.left
      BY <2>2, <2>6 DEF Continues, AnyRequest
    <3>2. Known(new)
      BY <1>2, <1>3, <2>6, <3>1, At_fetchOrg
         DEF Continues, Known, Joins, Entitled, Creating, HasRoleInHand
    <3>3. ~Creating(new)
      BY <1>2, <1>3, <2>6, At_fetchOrg DEF Continues, Creating
    <3>4. Spares(new) => orgs[new.org].owner # new.user
      BY <1>2, <1>3, <1>5, <1>8, <2>6, <3>1, At_fetchOrg DEF Continues, Spares, OwnerPasses
    <3>5. calm => CalmKnown(new)
      BY <1>2, <1>3, <2>6, <3>1, <3>4, At_fetchOrg
         DEF Continues, CalmKnown, Joins, Leaving
    <3> QED BY <1>1, <3>2, <3>3, <3>5
  <2> QED BY <1>1, <1>2, <1>6, <2>3, <2>4, <2>5, <2>6, GoStep
<1> QED BY <1>2, <1>5, <1>7, <1>8 DEF FetchOrg, Check

LEMMA FoundedByRole ==
  ASSUME roles \in Seq(AnyRole), NEW u, NEW o, HasRole(u, o) PROVE Founded(o)
BY DEF HasRole, Founded

LEMMA AuthoriseStep ==
  ASSUME BaseInv, CalmInv, NEW q \in Request, Authorise(q) PROVE BaseInv' /\ CalmInv'
<1>1. (At(q, "asAdmin") \/ At(q, "asEditor")) /\ Running(q) /\ docs' = docs /\ calm' = calm
  BY DEF Authorise, At, ReadsOnly
<1>2. PICK r \in AnyRequest :
        /\ r = req[q] /\ Known(r) /\ Placed(r) /\ r.op # "none" /\ r.todo # <<>>
        /\ calm => CalmKnown(r)
  BY <1>1, AtStep
<1>3. Head(r.todo) \in {"asAdmin", "asEditor"}
  BY <1>1, <1>2 DEF At
<1>4. /\ ~Creating(r) /\ ~Dropping(r)
      /\ \/ r.op \in {"add", "invite"} /\ Left(r) = 6
         \/ r.op = "cancel" /\ Left(r) = 2
         \/ r.op \in {"permit", "remove", "transfer", "rename"} /\ Left(r) = 3
  BY <1>2, <1>3, At_asAdmin, At_asEditor DEF Creating
<1>5. CASE Refuses(q)
  BY <1>1, <1>2, <1>4, <1>5, RefuseStep
<1>6. CASE RoleOf(r.me, r.org) # None /\ Goes(q, <<>>)
  <2>1. Founded(r.org)
    BY <1>6, RoleOfIs, FoundedByRole DEF BaseInv, DocsInv
  <2>2. ASSUME NEW new \in AnyRequest, Continues(r, r, new),
               \A f \in DOMAIN r \ {"todo"} : new[f] = r[f]
        PROVE  Known(new) /\ ~Creating(new) /\ (calm' => CalmKnown(new))
    <3>1. /\ new.me = r.me /\ new.user = r.user /\ new.org = r.org /\ new.admin = r.admin
          /\ new.invite = r.invite /\ new.role = r.role /\ new.left = r.left
      BY <2>2 DEF AnyRequest
    <3>2. Known(new) /\ ~Creating(new)
      BY <1>2, <1>4, <2>1, <2>2, <3>1
         DEF Continues, Known, Joins, Entitled, Creating, HasRoleInHand
    <3>3. calm => CalmKnown(new)
      BY <1>2, <1>4, <2>2, <3>1 DEF Continues, CalmKnown, Joins, Leaving, Spares
    <3> QED BY <1>1, <3>2, <3>3
  <2> QED BY <1>1, <1>2, <1>4, <1>6, <2>2, PlainStep
<1> QED BY <1>2, <1>5, <1>6 DEF Authorise, Check, IsAdmin

LEMMA FindUserStep ==
  ASSUME BaseInv, CalmInv, NEW q \in Request, FindUser(q) PROVE BaseInv' /\ CalmInv'
<1>1. At(q, "findUser") /\ Running(q) /\ docs' = docs /\ calm' = calm
  BY DEF FindUser, At, ReadsOnly
<1>2. PICK r \in AnyRequest :
        /\ r = req[q] /\ Known(r) /\ Placed(r) /\ r.op # "none" /\ r.todo # <<>>
        /\ calm => CalmKnown(r)
  BY <1>1, AtStep
<1>3. Head(r.todo) = "findUser"
  BY <1>1, <1>2 DEF At
<1>4. PICK u : u = UserWith(r.email)
  OBVIOUS
<1>5. u = None \/ u \in LiveUser
  BY <1>4, UserWithIs DEF BaseInv, DocsInv
<1>6. u \in Ref /\ u \in DOMAIN users \cup {None}
  BY <1>5 DEF Ref, LiveUser, BaseInv, DocsInv
<1>7. ~Creating(r)
  BY <1>2, <1>3, At_findUser DEF Creating
<1>8. CASE Refuses(q)
  BY <1>1, <1>2, <1>7, <1>8, RefuseStep
<1>9. CASE (r.op = "signUp" => u = None) /\ Goes(q, [user |-> u])
  <2>1. PICK more : more = [user |-> u]
    OBVIOUS
  <2>2. PICK now : now = [r EXCEPT !.user = u]
    OBVIOUS
  <2>3. now = Knowing(r, more)
    BY <2>1, <2>2, KnowingIs
  <2>4. now \in AnyRequest /\ now.op = r.op /\ now.todo = r.todo
    BY <1>6, <2>2 DEF AnyRequest, Ref
  <2>5. Goes(q, more)
    BY <1>9, <2>1
  <2>6. ASSUME NEW new \in AnyRequest, Continues(r, now, new)
        PROVE  Known(new) /\ ~Creating(new) /\ (calm' => CalmKnown(new))
    <3>1. /\ new.me = r.me /\ new.user = u /\ new.org = r.org /\ new.admin = r.admin
          /\ new.invite = r.invite /\ new.role = r.role /\ new.left = r.left
      BY <2>2, <2>6 DEF Continues, AnyRequest
    <3>2. Known(new)
      BY <1>2, <1>3, <1>6, <1>9, <2>6, <3>1, At_findUser
         DEF Continues, Known, Joins, Entitled, Creating, HasRoleInHand
    <3>3. ~Creating(new)
      BY <1>2, <1>3, <2>6, At_findUser DEF Continues, Creating
    <3>4. calm => CalmKnown(new)
      BY <1>2, <1>3, <1>5, <2>6, <3>1, At_findUser
         DEF Continues, CalmKnown, Joins, Leaving, Spares
    <3> QED BY <1>1, <3>2, <3>3, <3>4
  <2> QED BY <1>1, <1>2, <1>7, <2>3, <2>4, <2>5, <2>6, GoStep
<1> QED BY <1>2, <1>4, <1>8, <1>9 DEF FindUser, Check

LEMMA NoRoleStep ==
  ASSUME BaseInv, CalmInv, NEW q \in Request, NoRole(q) PROVE BaseInv' /\ CalmInv'
<1>1. At(q, "noRole") /\ Running(q) /\ docs' = docs /\ calm' = calm
  BY DEF NoRole, At, ReadsOnly
<1>2. PICK r \in AnyRequest :
        /\ r = req[q] /\ Known(r) /\ Placed(r) /\ r.op # "none" /\ r.todo # <<>>
        /\ calm => CalmKnown(r)
  BY <1>1, AtStep
<1>3. Head(r.todo) = "noRole"
  BY <1>1, <1>2 DEF At
<1>4. ~Creating(r)
  BY <1>2, <1>3, At_noRole DEF Creating
<1>5. CASE Refuses(q)
  BY <1>1, <1>2, <1>4, <1>5, RefuseStep
<1>6. CASE (r.user = None \/ RoleOf(r.user, r.org) = None) /\ Goes(q, <<>>)
  <2>1. r.user = None \/ ~HasRole(r.user, r.org)
    BY <1>6, RoleOfIs DEF BaseInv, DocsInv
  <2>2. ASSUME NEW new \in AnyRequest, Continues(r, r, new),
               \A f \in DOMAIN r \ {"todo"} : new[f] = r[f]
        PROVE  Known(new) /\ ~Creating(new) /\ (calm' => CalmKnown(new))
    <3>1. /\ new.me = r.me /\ new.user = r.user /\ new.org = r.org /\ new.admin = r.admin
          /\ new.invite = r.invite /\ new.role = r.role /\ new.left = r.left
      BY <2>2 DEF AnyRequest
    <3>2. Known(new) /\ ~Creating(new)
      BY <1>2, <1>3, <2>2, <3>1, At_noRole
         DEF Continues, Known, Joins, Entitled, Creating, HasRoleInHand
    <3>3. calm => CalmKnown(new)
      BY <1>2, <1>3, <2>1, <2>2, <3>1, At_noRole DEF Continues, CalmKnown, Joins, Leaving, Spares
    <3> QED BY <1>1, <3>2, <3>3
  <2> QED BY <1>1, <1>2, <1>4, <1>6, <2>2, PlainStep
<1> QED BY <1>2, <1>5, <1>6 DEF NoRole, Check

LEMMA NoInviteStep ==
  ASSUME BaseInv, CalmInv, NEW q \in Request, NoInvite(q) PROVE BaseInv' /\ CalmInv'
<1>1. At(q, "noInvite") /\ Running(q) /\ docs' = docs /\ calm' = calm
  BY DEF NoInvite, At, ReadsOnly
<1>2. PICK r \in AnyRequest :
        /\ r = req[q] /\ Known(r) /\ Placed(r) /\ r.op # "none" /\ r.todo # <<>>
        /\ calm => CalmKnown(r)
  BY <1>1, AtStep
<1>3. Head(r.todo) = "noInvite"
  BY <1>1, <1>2 DEF At
<1>4. ~Creating(r)
  BY <1>2, <1>3, At_noInvite DEF Creating
<1>5. CASE Refuses(q)
  BY <1>1, <1>2, <1>4, <1>5, RefuseStep
<1>6. CASE Goes(q, <<>>)
  <2>2. ASSUME NEW new \in AnyRequest, Continues(r, r, new),
               \A f \in DOMAIN r \ {"todo"} : new[f] = r[f]
        PROVE  Known(new) /\ ~Creating(new) /\ (calm' => CalmKnown(new))
    <3>1. /\ new.me = r.me /\ new.user = r.user /\ new.org = r.org /\ new.admin = r.admin
          /\ new.invite = r.invite /\ new.role = r.role /\ new.left = r.left
      BY <2>2 DEF AnyRequest
    <3>2. Known(new) /\ ~Creating(new)
      BY <1>2, <1>3, <2>2, <3>1, At_noInvite
         DEF Continues, Known, Joins, Entitled, Creating, HasRoleInHand
    <3>3. calm => CalmKnown(new)
      BY <1>2, <1>3, <2>2, <3>1, At_noInvite DEF Continues, CalmKnown, Joins, Leaving, Spares
    <3> QED BY <1>1, <3>2, <3>3
  <2> QED BY <1>1, <1>2, <1>4, <1>6, <2>2, PlainStep
<1> QED BY <1>2, <1>5, <1>6 DEF NoInvite, Check

LEMMA CountOrgsStep ==
  ASSUME BaseInv, CalmInv, NEW q \in Request, CountOrgs(q) PROVE BaseInv' /\ CalmInv'
<1>1. At(q, "countOrgs") /\ Running(q) /\ docs' = docs /\ calm' = calm
  BY DEF CountOrgs, At, ReadsOnly
<1>2. PICK r \in AnyRequest :
        /\ r = req[q] /\ Known(r) /\ Placed(r) /\ r.op # "none" /\ r.todo # <<>>
        /\ calm => CalmKnown(r)
  BY <1>1, AtStep
<1>3. Head(r.todo) = "countOrgs"
  BY <1>1, <1>2 DEF At
<1>4. ~Creating(r)
  BY <1>2, <1>3, At_countOrgs DEF Creating
<1>5. CASE Refuses(q)
  BY <1>1, <1>2, <1>4, <1>5, RefuseStep
<1>6. CASE Goes(q, <<>>)
  <2>2. ASSUME NEW new \in AnyRequest, Continues(r, r, new),
               \A f \in DOMAIN r \ {"todo"} : new[f] = r[f]
        PROVE  Known(new) /\ ~Creating(new) /\ (calm' => CalmKnown(new))
    <3>1. /\ new.me = r.me /\ new.user = r.user /\ new.org = r.org /\ new.admin = r.admin
          /\ new.invite = r.invite /\ new.role = r.role /\ new.left = r.left
      BY <2>2 DEF AnyRequest
    <3>2. Known(new) /\ ~Creating(new)
      BY <1>2, <1>3, <2>2, <3>1, At_countOrgs
         DEF Continues, Known, Joins, Entitled, Creating, HasRoleInHand
    <3>3. calm => CalmKnown(new)
      BY <1>2, <1>3, <2>2, <3>1, At_countOrgs DEF Continues, CalmKnown, Joins, Leaving, Spares
    <3> QED BY <1>1, <3>2, <3>3
  <2> QED BY <1>1, <1>2, <1>4, <1>6, <2>2, PlainStep
<1> QED BY <1>2, <1>5, <1>6 DEF CountOrgs, Check

LEMMA FindRoleStep ==
  ASSUME BaseInv, CalmInv, NEW q \in Request, FindRole(q) PROVE BaseInv' /\ CalmInv'
<1>1. At(q, "findRole") /\ Running(q) /\ docs' = docs /\ calm' = calm
  BY DEF FindRole, At, ReadsOnly
<1>2. PICK r \in AnyRequest :
        /\ r = req[q] /\ Known(r) /\ Placed(r) /\ r.op # "none" /\ r.todo # <<>>
        /\ calm => CalmKnown(r)
  BY <1>1, AtStep
<1>3. Head(r.todo) = "findRole"
  BY <1>1, <1>2 DEF At
<1>4. ~Creating(r)
  BY <1>2, <1>3, At_findRole DEF Creating
<1>5. PICK x : x = RoleOf(r.user, r.org)
  OBVIOUS
<1>6. x # None => /\ x \in DOMAIN roles /\ x \in Ref /\ roles[x].user = r.user
                  /\ roles[x].org = r.org /\ ~roles[x].deleted
  BY <1>5, RoleOfIs DEF BaseInv, DocsInv, Ref
<1>7. CASE Refuses(q)
  BY <1>1, <1>2, <1>4, <1>7, RefuseStep
<1>8. CASE Eligible(q, x) /\ Goes(q, [role |-> x])
  <2>0. x # None /\ (r.op = "transfer" => roles[x].admin)
    BY <1>2, <1>8 DEF Eligible
  <2>1. PICK more : more = [role |-> x]
    OBVIOUS
  <2>2. PICK now : now = [r EXCEPT !.role = x]
    OBVIOUS
  <2>3. now = Knowing(r, more)
    BY <2>1, <2>2, KnowingIs
  <2>4. now \in AnyRequest /\ now.op = r.op /\ now.todo = r.todo
    BY <1>6, <2>0, <2>2 DEF AnyRequest, Ref
  <2>5. Goes(q, more)
    BY <1>8, <2>1
  <2>6. ASSUME NEW new \in AnyRequest, Continues(r, now, new)
        PROVE  Known(new) /\ ~Creating(new) /\ (calm' => CalmKnown(new))
    <3>1. /\ new.me = r.me /\ new.user = r.user /\ new.org = r.org /\ new.admin = r.admin
          /\ new.invite = r.invite /\ new.role = x /\ new.left = r.left
      BY <2>2, <2>6 DEF Continues, AnyRequest
    <3>2. Known(new)
      BY <1>2, <1>3, <1>6, <2>0, <2>6, <3>1, At_findRole
         DEF Continues, Known, Joins, Entitled, Creating, HasRoleInHand
    <3>3. ~Creating(new)
      BY <1>2, <1>3, <2>6, At_findRole DEF Continues, Creating
    <3>4. calm' => CalmKnown(new)
      BY <1>1, <1>2, <1>3, <1>6, <2>0, <2>6, <3>1, At_findRole
         DEF Continues, CalmKnown, Joins, Leaving, Spares
    <3> QED BY <3>2, <3>3, <3>4
  <2> QED BY <1>1, <1>2, <1>4, <2>3, <2>4, <2>5, <2>6, GoStep
<1> QED BY <1>2, <1>5, <1>6, <1>7, <1>8 DEF FindRole, Check

LEMMA MyRolesStep ==
  ASSUME BaseInv, CalmInv, NEW q \in Request, MyRoles(q) PROVE BaseInv' /\ CalmInv'
<1>1. At(q, "myRoles") /\ Running(q) /\ docs' = docs /\ calm' = calm
  BY DEF MyRoles, At, ReadsOnly
<1>2. PICK r \in AnyRequest :
        /\ r = req[q] /\ Known(r) /\ Placed(r) /\ r.op # "none" /\ r.todo # <<>>
        /\ calm => CalmKnown(r)
  BY <1>1, AtStep
<1>3. Head(r.todo) = "myRoles"
  BY <1>1, <1>2 DEF At
<1>4. ~Creating(r)
  BY <1>2, <1>3, At_myRoles DEF Creating
<1>5. PICK left : left = {roles[y].org : y \in {x \in DOMAIN roles :
                                                   roles[x].user = r.me /\ ~roles[x].deleted}}
  OBVIOUS
<1>6. left \in SUBSET Nat
  <2>1. \A x \in DOMAIN roles : roles[x].org \in Nat
    BY DEF BaseInv, DocsInv, AnyRole
  <2> QED BY <1>5, <2>1
<1>7. \A x \in DOMAIN roles : roles[x].user = r.me /\ ~roles[x].deleted => roles[x].org \in left
  BY <1>5
<1>8. CASE Refuses(q)
  BY <1>1, <1>2, <1>4, <1>8, RefuseStep
<1>9. CASE Goes(q, [left |-> left])
  <2>1. PICK more : more = [left |-> left]
    OBVIOUS
  <2>2. PICK now : now = [r EXCEPT !.left = left]
    OBVIOUS
  <2>3. now = Knowing(r, more)
    BY <2>1, <2>2, KnowingIs
  <2>4. now \in AnyRequest /\ now.op = r.op /\ now.todo = r.todo
    BY <1>6, <2>2 DEF AnyRequest, Ref
  <2>5. Goes(q, more)
    BY <1>9, <2>1
  <2>6. ASSUME NEW new \in AnyRequest, Continues(r, now, new)
        PROVE  Known(new) /\ ~Creating(new) /\ (calm' => CalmKnown(new))
    <3>1. /\ new.me = r.me /\ new.user = r.user /\ new.org = r.org /\ new.admin = r.admin
          /\ new.invite = r.invite /\ new.role = r.role /\ new.left = left
      BY <2>2, <2>6 DEF Continues, AnyRequest
    <3>2. Known(new)
      BY <1>2, <1>3, <2>6, <3>1, At_myRoles
         DEF Continues, Known, Joins, Entitled, Creating, HasRoleInHand
    <3>3. ~Creating(new)
      BY <1>2, <1>3, <2>6, At_myRoles DEF Continues, Creating
    <3>4. calm' => CalmKnown(new)
      BY <1>1, <1>2, <1>3, <1>7, <2>6, <3>1, At_myRoles
         DEF Continues, CalmKnown, Joins, Leaving, Spares
    <3> QED BY <3>2, <3>3, <3>4
  <2> QED BY <1>1, <1>2, <1>4, <2>3, <2>4, <2>5, <2>6, GoStep
<1> QED BY <1>2, <1>5, <1>6, <1>7, <1>8, <1>9 DEF MyRoles, Check

LEMMA FindInviteStep ==
  ASSUME BaseInv, CalmInv, NEW q \in Request, FindInvite(q) PROVE BaseInv' /\ CalmInv'
<1>1. At(q, "findInvite") /\ Running(q) /\ docs' = docs /\ (calm' => calm)
  BY DEF FindInvite, At, docs
<1>2. PICK r \in AnyRequest :
        /\ r = req[q] /\ Known(r) /\ Placed(r) /\ r.op # "none" /\ r.todo # <<>>
        /\ calm => CalmKnown(r)
  BY <1>1, AtStep
<1>3. Head(r.todo) = "findInvite"
  BY <1>1, <1>2 DEF At
<1>4. ~Creating(r)
  BY <1>2, <1>3, At_findInvite DEF Creating
<1>5. PICK i \in AnyInvite : i = invites[r.invite]
  BY <1>2, <1>3, At_findInvite DEF Known, BaseInv, DocsInv
<1>6. i.org \in Nat /\ i.admin \in BOOLEAN /\ i.org \in DOMAIN orgs /\ Founded(i.org) /\ i.org # None
  BY <1>2, <1>3, <1>5, At_findInvite, MembershipAssumption DEF Known, BaseInv, DocsInv, AnyInvite
<1>7. calm' /\ r.op = "accept" /\ ~i.gone => ~HasRole(r.me, i.org)
  BY <1>2, <1>5, RoleOfIs DEF FindInvite, BaseInv, DocsInv
<1>8. CASE Refuses(q)
  BY <1>1, <1>2, <1>4, <1>8, RefuseStep
<1>9. CASE ~i.gone /\ Goes(q, [org |-> i.org, admin |-> i.admin])
  <2>1. PICK more : more = [org |-> i.org, admin |-> i.admin]
    OBVIOUS
  <2>2. PICK now : now = [r EXCEPT !.org = i.org, !.admin = i.admin]
    OBVIOUS
  <2>3. now = Knowing(r, more)
    <3>1. \A x, y : Knowing(r, [org |-> x, admin |-> y]) = [r EXCEPT !.org = x, !.admin = y]
      BY KnowingIs
    <3> QED BY <2>1, <2>2, <3>1
  <2>4. now \in AnyRequest /\ now.op = r.op /\ now.todo = r.todo
    BY <1>6, <2>2 DEF AnyRequest, Ref
  <2>5. Goes(q, more)
    BY <1>9, <2>1
  <2>6. ASSUME NEW new \in AnyRequest, Continues(r, now, new)
        PROVE  Known(new) /\ ~Creating(new) /\ (calm' => CalmKnown(new))
    <3>1. /\ new.me = r.me /\ new.user = r.user /\ new.org = i.org /\ new.admin = i.admin
          /\ new.invite = r.invite /\ new.role = r.role /\ new.left = r.left
      BY <2>2, <2>6 DEF Continues, AnyRequest
    <3>2. Known(new)
      BY <1>2, <1>3, <1>6, <2>6, <3>1, At_findInvite
         DEF Continues, Known, Joins, Entitled, Creating, HasRoleInHand
    <3>3. ~Creating(new)
      BY <1>2, <1>3, <2>6, At_findInvite DEF Continues, Creating
    <3>4. ASSUME calm' PROVE CalmKnown(new)
      <4>1. CalmKnown(r)
        BY <1>1, <1>2, <3>4
      <4>2. r.op = "accept" => ~HasRole(r.me, i.org)
        BY <1>7, <1>9, <3>4
      <4>3. r.op = "accept" => r.user = r.me
        BY <1>2 DEF Known, Joins
      <4> QED BY <1>2, <1>3, <2>6, <3>1, <4>1, <4>2, <4>3, At_findInvite
             DEF Continues, CalmKnown, Joins, Leaving, Spares
    <3> QED BY <3>2, <3>3, <3>4
  <2> QED BY <1>1, <1>2, <1>4, <2>3, <2>4, <2>5, <2>6, GoStep
<1> QED BY <1>2, <1>5, <1>6, <1>7, <1>8, <1>9 DEF FindInvite, Check

LEMMA Excludes ==
  ASSUME Apart, NEW p \in Request, NEW q \in Request, p # q, Running(p), Running(q)
  PROVE  ~Conflict(req[p].op, req[q].op) /\ ~Conflict(req[q].op, req[p].op)
BY DEF Apart

\* While a user is being deleted nobody founds an organisation.
LEMMA NoCreation ==
  ASSUME BaseInv, Apart, NEW q \in Request, Running(q), req[q].op = "deleteMe"
  PROVE  \A p \in Request : ~Creating(req[p])
<1> SUFFICES ASSUME NEW p \in Request, Creating(req[p]) PROVE FALSE
  OBVIOUS
<1>1. req[p].op \in {"createOrg", "signUp"} /\ p # q
  BY DEF Creating
<1>2. Running(p)
  <2>1. PICK t \in Seq(Await) : t = req[p].todo
    BY DEF BaseInv, AnyRequest
  <2>2. Len(t) = 1
    BY <2>1 DEF Creating, Left
  <2>3. ASSUME t = <<>> PROVE FALSE
    <3>1. Len(t) = 0
      BY <2>3
    <3> QED BY <2>2, <3>1
  <2> QED BY <2>1, <2>3 DEF Running
<1>3. Conflict(req[p].op, req[q].op)
  BY <1>1 DEF Conflict
<1> QED BY <1>1, <1>2, <1>3, Excludes

LEMMA MyOrgsStep ==
  ASSUME BaseInv, CalmInv, NEW q \in Request, MyOrgs(q) PROVE BaseInv' /\ CalmInv'
<1>1. At(q, "myOrgs") /\ Running(q) /\ docs' = docs /\ calm' = calm
  BY DEF MyOrgs, At, ReadsOnly
<1>2. PICK r \in AnyRequest :
        /\ r = req[q] /\ Known(r) /\ Placed(r) /\ r.op # "none" /\ r.todo # <<>>
        /\ calm => CalmKnown(r)
  BY <1>1, AtStep
<1>3. Head(r.todo) = "myOrgs"
  BY <1>1, <1>2 DEF At
<1>4. ~Creating(r)
  BY <1>2, <1>3, At_myOrgs DEF Creating
<1>5. PICK left : left = r.left \cap LiveOrg
  OBVIOUS
<1>6. left \in SUBSET Nat
  BY <1>5 DEF AnyRequest
<1>7. r.op = "deleteMe" /\ Left(r) = 4 /\ ~Dropping(r)
  BY <1>2, <1>3, At_myOrgs
<1>8. CASE Refuses(q)
  BY <1>1, <1>2, <1>4, <1>8, RefuseStep
<1>9. CASE (\A o \in left : orgs[o].owner # r.me) /\ Goes(q, [left |-> left])
  <2>1. PICK more : more = [left |-> left]
    OBVIOUS
  <2>2. PICK now : now = [r EXCEPT !.left = left]
    OBVIOUS
  <2>3. now = Knowing(r, more)
    BY <2>1, <2>2, KnowingIs
  <2>4. now \in AnyRequest /\ now.op = r.op /\ now.todo = r.todo
    BY <1>6, <2>2 DEF AnyRequest, Ref
  <2>5. Goes(q, more)
    BY <1>9, <2>1
  <2>6. ASSUME NEW new \in AnyRequest, Continues(r, now, new)
        PROVE  Known(new) /\ ~Creating(new) /\ (calm' => CalmKnown(new))
    <3>1. /\ new.me = r.me /\ new.user = r.user /\ new.org = r.org /\ new.admin = r.admin
          /\ new.invite = r.invite /\ new.role = r.role /\ new.left = left
      BY <2>2, <2>6 DEF Continues, AnyRequest
    <3>2. Known(new)
      BY <1>2, <1>3, <2>6, <3>1, At_myOrgs
         DEF Continues, Known, Joins, Entitled, Creating, HasRoleInHand
    <3>3. ~Creating(new)
      BY <1>2, <1>3, <2>6, At_myOrgs DEF Continues, Creating
    <3>4. ASSUME calm PROVE CalmKnown(new)
      <4>1. CalmKnown(r) /\ Apart /\ Ruled
        BY <1>2, <3>4 DEF CalmInv
      <4>2. \A x \in DOMAIN roles : roles[x].user = r.me /\ ~roles[x].deleted => roles[x].org \in r.left
        BY <1>7, <4>1 DEF CalmKnown
      <4>3. ASSUME NEW o \in LiveOrg, orgs[o].owner = r.me PROVE FALSE
        <5>1. Rules(r.me, o)
          BY <1>1, <1>2, <1>7, <4>1, <4>3, NoCreation DEF Ruled
        <5>2. o \in r.left
          BY <4>2, <5>1 DEF Rules
        <5> QED BY <1>5, <1>9, <4>3, <5>2
      <4>4. ASSUME NEW x \in DOMAIN roles, roles[x].user = r.me, ~roles[x].deleted,
                   roles[x].org \in LiveOrg
            PROVE  roles[x].org \in left
        BY <1>5, <4>2, <4>4
      <4>5. new.op = "deleteMe" /\ Left(new) = 3 /\ ~Dropping(new)
        BY <1>7, <2>6 DEF Continues
      <4> QED BY <3>1, <4>3, <4>4, <4>5 DEF CalmKnown, Joins, Leaving, Spares
    <3> QED BY <1>1, <3>2, <3>3, <3>4
  <2> QED BY <1>1, <1>2, <1>4, <2>3, <2>4, <2>5, <2>6, GoStep
<1> QED BY <1>2, <1>5, <1>6, <1>7, <1>8, <1>9 DEF MyOrgs, Check

LEMMA FailStep ==
  ASSUME BaseInv, CalmInv, NEW q \in Request, Fail(q) PROVE BaseInv' /\ CalmInv'
<1>1. Running(q) /\ docs' = docs /\ (calm' => calm) /\ Refuses(q)
  BY DEF Fail, docs
<1>2. PICK r \in AnyRequest :
        /\ r = req[q] /\ Known(r) /\ Placed(r) /\ r.op # "none" /\ r.todo # <<>>
        /\ calm => CalmKnown(r)
  BY <1>1, AtStep
<1>3. Creating(r) => r.op \in {"createOrg", "signUp"} /\ Head(r.todo) = "link"
  BY <1>2, Spots DEF Creating, Dropping
<1>4. Creating(r) => ~calm'
  BY <1>1, <1>2, <1>3 DEF Fail, At
<1> QED BY <1>1, <1>2, <1>4, RefuseStep

LEMMA PushIs ==
  ASSUME NEW S, NEW a \in S, NEW b \in S, NEW c \in S, NEW d \in S
  PROVE  <<a>> \o <<b, c, d>> = <<a, b, c, d>>
<1>1. PICK s, t, w : s = <<a>> /\ t = <<b, c, d>> /\ w = <<a, b, c, d>>
  OBVIOUS
<1>2. s \in Seq(S) /\ t \in Seq(S) /\ w \in Seq(S)
  BY <1>1
<1>3. s \o t \in Seq(S) /\ Len(s \o t) = 4 /\ Len(w) = 4
  BY <1>1, <1>2
<1>4. \A k \in 1 .. 4 : (s \o t)[k] = w[k]
  BY <1>1, <1>2
<1>5. s \o t = w
  BY <1>2, <1>3, <1>4, SeqEqual
<1> QED BY <1>1, <1>5

LEMMA LeaveOrgsStep ==
  ASSUME BaseInv, CalmInv, NEW q \in Request, LeaveOrgs(q) PROVE BaseInv' /\ CalmInv'
<1>1. At(q, "leaveOrgs") /\ Running(q) /\ docs' = docs /\ calm' = calm
  BY DEF LeaveOrgs, At, ReadsOnly
<1>2. PICK r \in AnyRequest :
        /\ r = req[q] /\ Known(r) /\ Placed(r) /\ r.op # "none" /\ r.todo # <<>>
        /\ calm => CalmKnown(r)
  BY <1>1, AtStep
<1>3. r.op = "deleteMe" /\ Left(r) = 3 /\ ~Dropping(r) /\ ~Creating(r)
  BY <1>1, <1>2, At_leaveOrgs DEF At, Creating
<1>4. CASE r.left = {} /\ Goes(q, <<>>)
  <2>1. ASSUME NEW new \in AnyRequest, Continues(r, r, new),
               \A f \in DOMAIN r \ {"todo"} : new[f] = r[f]
        PROVE  Known(new) /\ ~Creating(new) /\ (calm' => CalmKnown(new))
    <3>1. /\ new.me = r.me /\ new.user = r.user /\ new.org = r.org /\ new.admin = r.admin
          /\ new.invite = r.invite /\ new.role = r.role /\ new.left = r.left
      BY <2>1 DEF AnyRequest
    <3>2. new.op = "deleteMe" /\ Left(new) = 2 /\ ~Dropping(new) /\ Placed(new)
      BY <1>3, <2>1 DEF Continues
    <3>3. Known(new) /\ ~Creating(new)
      BY <1>2, <1>3, <3>1, <3>2 DEF Known, Joins, Entitled, Creating, HasRoleInHand
    <3>4. calm => CalmKnown(new)
      BY <1>2, <1>3, <1>4, <3>1, <3>2 DEF CalmKnown, Joins, Leaving, Spares
    <3> QED BY <1>1, <3>3, <3>4
  <2> QED BY <1>1, <1>2, <1>3, <1>4, <2>1, PlainStep
<1>5. ASSUME NEW o \in r.left,
             req' = [req EXCEPT ![q].left = Remaining(q, o),
                                ![q].role = RoleOf(req[q].me, o),
                                ![q].todo = IF RoleOf(req[q].me, o) = None THEN @
                                              ELSE <<"dropRole">> \o @]
      PROVE  BaseInv' /\ CalmInv'
  <2>1. PICK x : x = RoleOf(r.me, o)
    OBVIOUS
  <2>2. /\ x = None => ~HasRole(r.me, o)
        /\ x # None => /\ x \in DOMAIN roles /\ roles[x].user = r.me /\ roles[x].org = o
                       /\ ~roles[x].deleted
        /\ x \in Ref
    BY <2>1, RoleOfIs DEF BaseInv, DocsInv, Ref
  <2>3. r.todo = <<"leaveOrgs", "saveMe", "dropMe">>
    <3>1. PICK h : h = Handler["deleteMe"]
      OBVIOUS
    <3>2. h = <<"myRoles", "myOrgs", "leaveOrgs", "saveMe", "dropMe">>
      BY <3>1 DEF Handler
    <3>3. PICK t \in Seq(Await) : t = r.todo
      BY DEF AnyRequest
    <3>4. Len(t) = 3 /\ \A k \in 1 .. 3 : t[k] = h[Len(h) - 3 + k]
      BY <1>2, <1>3, <3>1, <3>3 DEF Placed, Left
    <3>5. t[1] = "leaveOrgs" /\ t[2] = "saveMe" /\ t[3] = "dropMe"
      BY <3>2, <3>4
    <3>6. t = <<"leaveOrgs", "saveMe", "dropMe">>
      BY <3>4, <3>5
    <3> QED BY <3>3, <3>6
  <2>4. PICK todo : todo = IF x = None THEN r.todo ELSE <<"dropRole">> \o r.todo
    OBVIOUS
  <2>5. x # None => todo = <<"dropRole", "leaveOrgs", "saveMe", "dropMe">>
    <3>1. {"dropRole", "leaveOrgs", "saveMe", "dropMe"} \subseteq Await
      BY DEF Await
    <3> QED BY <2>3, <2>4, <3>1, PushIs
  <2>6. todo \in Seq(Await) /\ todo # <<>>
    <3>1. CASE x = None
      BY <1>2, <2>4, <3>1 DEF AnyRequest
    <3>2. CASE x # None
      <4>1. {"dropRole", "leaveOrgs", "saveMe", "dropMe"} \subseteq Await
        BY DEF Await
      <4>2. <<"dropRole", "leaveOrgs", "saveMe", "dropMe">> \in Seq(Await)
        BY <4>1
      <4>3. todo \in Seq(Await)
        BY <2>5, <3>2, <4>2
      <4>4. todo # <<>>
        BY <2>5, <3>2
      <4> QED BY <4>3, <4>4
    <3> QED BY <3>1, <3>2
  <2>7. PICK new : new = [r EXCEPT !.left = r.left \ {o}, !.role = x, !.todo = todo]
    OBVIOUS
  <2>8. /\ new \in AnyRequest /\ new.op = "deleteMe" /\ new.me = r.me /\ new.user = r.user
        /\ new.org = r.org /\ new.left = r.left \ {o} /\ new.role = x /\ new.todo = todo
    BY <1>3, <2>2, <2>6, <2>7 DEF AnyRequest
  <2>9. req' = [req EXCEPT ![q] = new]
    <3>1. req' = [req EXCEPT ![q].left = r.left \ {o}, ![q].role = x, ![q].todo = todo]
      BY <1>2, <1>5, <2>1, <2>4 DEF Remaining
    <3> QED BY <1>2, <2>7, <3>1 DEF BaseInv
  <2>10. \/ x = None /\ Placed(new) /\ Left(new) = 3 /\ ~Dropping(new)
         \/ x # None /\ Placed(new) /\ Left(new) = 4 /\ Dropping(new)
    <3>1. CASE x = None
      <4>1. new.todo = r.todo /\ new.op = r.op
        BY <1>3, <2>4, <2>8, <3>1
      <4>2. Left(new) = Left(r) /\ (Dropping(new) <=> Dropping(r))
        BY <4>1 DEF Left, Dropping
      <4>3. Placed(new)
        BY <1>2, <4>1, <4>2 DEF Placed
      <4> QED BY <1>3, <3>1, <4>2, <4>3
    <3>2. CASE x # None
      <4>1. Dropping(new)
        BY <2>5, <2>8, <3>2 DEF Dropping
      <4>2. Len(todo) = 4
        BY <2>5, <3>2
      <4> QED BY <2>8, <3>2, <4>1, <4>2 DEF Placed, Left
    <3> QED BY <3>1, <3>2
  <2>11. Known(new) /\ ~Creating(new)
    BY <1>2, <1>3, <2>2, <2>8, <2>10 DEF Known, Joins, Entitled, Creating, HasRoleInHand
  <2>12. ASSUME calm PROVE CalmKnown(new) /\ Apart'
    <3>1. CalmKnown(r) /\ Apart /\ OneRole
      BY <1>2, <2>12 DEF CalmInv
    <3>2. /\ \A l \in LiveOrg : orgs[l].owner # r.me
          /\ \A y \in DOMAIN roles :
               roles[y].user = r.me /\ ~roles[y].deleted /\ roles[y].org \in LiveOrg =>
                 roles[y].org \in r.left
      BY <1>3, <3>1 DEF CalmKnown, Leaving
    <3>3. ASSUME NEW y \in DOMAIN roles, roles[y].user = r.me, ~roles[y].deleted,
                 roles[y].org = o
          PROVE  x # None /\ y = x
      BY <2>2, <3>1, <3>3 DEF HasRole, OneRole
    <3>4. \A y \in DOMAIN roles :
            roles[y].user = r.me /\ ~roles[y].deleted /\ roles[y].org \in LiveOrg =>
              roles[y].org \in new.left \/ (x # None /\ y = x)
      BY <2>8, <3>2, <3>3
    <3>5. CalmKnown(new)
      BY <2>8, <2>10, <3>2, <3>4 DEF CalmKnown, Joins, Leaving, Spares
    <3>6. Apart'
      BY <1>1, <1>2, <1>3, <2>8, <2>9, <3>1, StaysApart
    <3> QED BY <3>5, <3>6
  <2> QED BY <1>1, <1>2, <1>3, <2>8, <2>9, <2>11, <2>12, ReadStep
<1> QED BY <1>2, <1>4, <1>5 DEF LeaveOrgs

\* How long the handlers are.
LEMMA HandlerIs ==
  /\ Handler["add"] \in Seq(Await) /\ Len(Handler["add"]) = 6
  /\ Handler["invite"] \in Seq(Await) /\ Len(Handler["invite"]) = 6
  /\ Handler["cancel"] \in Seq(Await) /\ Len(Handler["cancel"]) = 3
  /\ Handler["accept"] \in Seq(Await) /\ Len(Handler["accept"]) = 4
  /\ Handler["decline"] \in Seq(Await) /\ Len(Handler["decline"]) = 2
  /\ Handler["permit"] \in Seq(Await) /\ Len(Handler["permit"]) = 4
  /\ Handler["remove"] \in Seq(Await) /\ Len(Handler["remove"]) = 4
  /\ Handler["leave"] \in Seq(Await) /\ Len(Handler["leave"]) = 3
  /\ Handler["transfer"] \in Seq(Await) /\ Len(Handler["transfer"]) = 4
  /\ Handler["rename"] \in Seq(Await) /\ Len(Handler["rename"]) = 3
  /\ Handler["deleteOrg"] \in Seq(Await) /\ Len(Handler["deleteOrg"]) = 2
  /\ Handler["createOrg"] \in Seq(Await) /\ Len(Handler["createOrg"]) = 3
  /\ Handler["signUp"] \in Seq(Await) /\ Len(Handler["signUp"]) = 4
  /\ Handler["updateMe"] \in Seq(Await) /\ Len(Handler["updateMe"]) = 2
  /\ Handler["deleteMe"] \in Seq(Await) /\ Len(Handler["deleteMe"]) = 5
<1>1. Handler["add"] \in Seq(Await) /\ Len(Handler["add"]) = 6
  <2>1. PICK h : h = Handler["add"]
    OBVIOUS
  <2>2. h = <<"asAdmin", "fetchOrg", "findUser", "noRole", "saveUser", "link">>
    BY <2>1 DEF Handler
  <2>3. {"asAdmin", "fetchOrg", "findUser", "noRole", "saveUser", "link"} \subseteq Await
    BY DEF Await
  <2>4. h \in Seq(Await)
    BY <2>2, <2>3
  <2>5. Len(h) = 6
    BY <2>2
  <2> QED BY <2>1, <2>4, <2>5
<1>2. Handler["invite"] \in Seq(Await) /\ Len(Handler["invite"]) = 6
  <2>1. PICK h : h = Handler["invite"]
    OBVIOUS
  <2>2. h = <<"asAdmin", "fetchOrg", "findUser", "noRole", "noInvite", "saveInvite">>
    BY <2>1 DEF Handler
  <2>3. {"asAdmin", "fetchOrg", "findUser", "noRole", "noInvite", "saveInvite"} \subseteq Await
    BY DEF Await
  <2>4. h \in Seq(Await)
    BY <2>2, <2>3
  <2>5. Len(h) = 6
    BY <2>2
  <2> QED BY <2>1, <2>4, <2>5
<1>3. Handler["cancel"] \in Seq(Await) /\ Len(Handler["cancel"]) = 3
  <2>1. PICK h : h = Handler["cancel"]
    OBVIOUS
  <2>2. h = <<"findInvite", "asAdmin", "dropInvite">>
    BY <2>1 DEF Handler
  <2>3. {"findInvite", "asAdmin", "dropInvite"} \subseteq Await
    BY DEF Await
  <2>4. h \in Seq(Await)
    BY <2>2, <2>3
  <2>5. Len(h) = 3
    BY <2>2
  <2> QED BY <2>1, <2>4, <2>5
<1>4. Handler["accept"] \in Seq(Await) /\ Len(Handler["accept"]) = 4
  <2>1. PICK h : h = Handler["accept"]
    OBVIOUS
  <2>2. h = <<"findInvite", "fetchOrg", "link", "dropInvite">>
    BY <2>1 DEF Handler
  <2>3. {"findInvite", "fetchOrg", "link", "dropInvite"} \subseteq Await
    BY DEF Await
  <2>4. h \in Seq(Await)
    BY <2>2, <2>3
  <2>5. Len(h) = 4
    BY <2>2
  <2> QED BY <2>1, <2>4, <2>5
<1>5. Handler["decline"] \in Seq(Await) /\ Len(Handler["decline"]) = 2
  <2>1. PICK h : h = Handler["decline"]
    OBVIOUS
  <2>2. h = <<"findInvite", "dropInvite">>
    BY <2>1 DEF Handler
  <2>3. {"findInvite", "dropInvite"} \subseteq Await
    BY DEF Await
  <2>4. h \in Seq(Await)
    BY <2>2, <2>3
  <2>5. Len(h) = 2
    BY <2>2
  <2> QED BY <2>1, <2>4, <2>5
<1>6. Handler["permit"] \in Seq(Await) /\ Len(Handler["permit"]) = 4
  <2>1. PICK h : h = Handler["permit"]
    OBVIOUS
  <2>2. h = <<"fetchOrg", "asAdmin", "findRole", "saveRole">>
    BY <2>1 DEF Handler
  <2>3. {"fetchOrg", "asAdmin", "findRole", "saveRole"} \subseteq Await
    BY DEF Await
  <2>4. h \in Seq(Await)
    BY <2>2, <2>3
  <2>5. Len(h) = 4
    BY <2>2
  <2> QED BY <2>1, <2>4, <2>5
<1>7. Handler["remove"] \in Seq(Await) /\ Len(Handler["remove"]) = 4
  <2>1. PICK h : h = Handler["remove"]
    OBVIOUS
  <2>2. h = <<"fetchOrg", "asAdmin", "findRole", "dropRole">>
    BY <2>1 DEF Handler
  <2>3. {"fetchOrg", "asAdmin", "findRole", "dropRole"} \subseteq Await
    BY DEF Await
  <2>4. h \in Seq(Await)
    BY <2>2, <2>3
  <2>5. Len(h) = 4
    BY <2>2
  <2> QED BY <2>1, <2>4, <2>5
<1>8. Handler["leave"] \in Seq(Await) /\ Len(Handler["leave"]) = 3
  <2>1. PICK h : h = Handler["leave"]
    OBVIOUS
  <2>2. h = <<"fetchOrg", "findRole", "dropRole">>
    BY <2>1 DEF Handler
  <2>3. {"fetchOrg", "findRole", "dropRole"} \subseteq Await
    BY DEF Await
  <2>4. h \in Seq(Await)
    BY <2>2, <2>3
  <2>5. Len(h) = 3
    BY <2>2
  <2> QED BY <2>1, <2>4, <2>5
<1>9. Handler["transfer"] \in Seq(Await) /\ Len(Handler["transfer"]) = 4
  <2>1. PICK h : h = Handler["transfer"]
    OBVIOUS
  <2>2. h = <<"fetchOrg", "asAdmin", "findRole", "saveOrg">>
    BY <2>1 DEF Handler
  <2>3. {"fetchOrg", "asAdmin", "findRole", "saveOrg"} \subseteq Await
    BY DEF Await
  <2>4. h \in Seq(Await)
    BY <2>2, <2>3
  <2>5. Len(h) = 4
    BY <2>2
  <2> QED BY <2>1, <2>4, <2>5
<1>10. Handler["rename"] \in Seq(Await) /\ Len(Handler["rename"]) = 3
  <2>1. PICK h : h = Handler["rename"]
    OBVIOUS
  <2>2. h = <<"asEditor", "fetchOrg", "saveOrg">>
    BY <2>1 DEF Handler
  <2>3. {"asEditor", "fetchOrg", "saveOrg"} \subseteq Await
    BY DEF Await
  <2>4. h \in Seq(Await)
    BY <2>2, <2>3
  <2>5. Len(h) = 3
    BY <2>2
  <2> QED BY <2>1, <2>4, <2>5
<1>11. Handler["deleteOrg"] \in Seq(Await) /\ Len(Handler["deleteOrg"]) = 2
  <2>1. PICK h : h = Handler["deleteOrg"]
    OBVIOUS
  <2>2. h = <<"fetchOrg", "saveOrg">>
    BY <2>1 DEF Handler
  <2>3. {"fetchOrg", "saveOrg"} \subseteq Await
    BY DEF Await
  <2>4. h \in Seq(Await)
    BY <2>2, <2>3
  <2>5. Len(h) = 2
    BY <2>2
  <2> QED BY <2>1, <2>4, <2>5
<1>12. Handler["createOrg"] \in Seq(Await) /\ Len(Handler["createOrg"]) = 3
  <2>1. PICK h : h = Handler["createOrg"]
    OBVIOUS
  <2>2. h = <<"countOrgs", "insertOrg", "link">>
    BY <2>1 DEF Handler
  <2>3. {"countOrgs", "insertOrg", "link"} \subseteq Await
    BY DEF Await
  <2>4. h \in Seq(Await)
    BY <2>2, <2>3
  <2>5. Len(h) = 3
    BY <2>2
  <2> QED BY <2>1, <2>4, <2>5
<1>13. Handler["signUp"] \in Seq(Await) /\ Len(Handler["signUp"]) = 4
  <2>1. PICK h : h = Handler["signUp"]
    OBVIOUS
  <2>2. h = <<"findUser", "saveUser", "insertOrg", "link">>
    BY <2>1 DEF Handler
  <2>3. {"findUser", "saveUser", "insertOrg", "link"} \subseteq Await
    BY DEF Await
  <2>4. h \in Seq(Await)
    BY <2>2, <2>3
  <2>5. Len(h) = 4
    BY <2>2
  <2> QED BY <2>1, <2>4, <2>5
<1>14. Handler["updateMe"] \in Seq(Await) /\ Len(Handler["updateMe"]) = 2
  <2>1. PICK h : h = Handler["updateMe"]
    OBVIOUS
  <2>2. h = <<"findUser", "saveMe">>
    BY <2>1 DEF Handler
  <2>3. {"findUser", "saveMe"} \subseteq Await
    BY DEF Await
  <2>4. h \in Seq(Await)
    BY <2>2, <2>3
  <2>5. Len(h) = 2
    BY <2>2
  <2> QED BY <2>1, <2>4, <2>5
<1>15. Handler["deleteMe"] \in Seq(Await) /\ Len(Handler["deleteMe"]) = 5
  <2>1. PICK h : h = Handler["deleteMe"]
    OBVIOUS
  <2>2. h = <<"myRoles", "myOrgs", "leaveOrgs", "saveMe", "dropMe">>
    BY <2>1 DEF Handler
  <2>3. {"myRoles", "myOrgs", "leaveOrgs", "saveMe", "dropMe"} \subseteq Await
    BY DEF Await
  <2>4. h \in Seq(Await)
    BY <2>2, <2>3
  <2>5. Len(h) = 5
    BY <2>2
  <2> QED BY <2>1, <2>4, <2>5
<1> QED BY <1>1, <1>2, <1>3, <1>4, <1>5, <1>6, <1>7, <1>8, <1>9, <1>10, <1>11, <1>12, <1>13, <1>14, <1>15

LEMMA OpsAre ==
  DOMAIN Handler = {"add", "invite", "cancel", "accept", "decline", "permit", "remove", "leave",
                    "transfer", "rename", "deleteOrg", "createOrg", "signUp", "updateMe", "deleteMe"}
BY DEF Handler

\* A request that has just begun.
LEMMA FreshIs ==
  ASSUME NEW op \in DOMAIN Handler, NEW r, r.op = op, r.todo = Handler[op]
  PROVE  /\ Placed(r) /\ ~Dropping(r) /\ Left(r) = Len(Handler[op]) /\ Left(r) >= 2
         /\ Handler[op] \in Seq(Await) /\ (op = "deleteMe" => Left(r) = 5)
<1>1. Handler[op] \in Seq(Await) /\ Len(Handler[op]) \in 2 .. 6
  BY HandlerIs, OpsAre
<1>2. Left(r) = Len(Handler[op])
  BY DEF Left
<1>3. op = "deleteMe" => Left(r) = 5
  BY <1>2, HandlerIs
<1>4. ~Dropping(r)
  <2>1. ASSUME Dropping(r) PROVE FALSE
    <3>1. op = "deleteMe" /\ r.todo = <<"dropRole", "leaveOrgs", "saveMe", "dropMe">>
      BY <2>1 DEF Dropping
    <3>2. Left(r) = 4
      BY <3>1 DEF Left
    <3> QED BY <1>3, <3>1, <3>2
  <2> QED BY <2>1
<1>5. Placed(r)
  <2>1. Left(r) \in 1 .. Len(Handler[op])
    BY <1>1, <1>2
  <2>2. ASSUME NEW k \in 1 .. Left(r) PROVE r.todo[k] = Handler[op][Len(Handler[op]) - Left(r) + k]
    <3>1. Len(Handler[op]) - Left(r) + k = k
      BY <1>1, <1>2
    <3> QED BY <3>1
  <2> QED BY <2>1, <2>2 DEF Placed
<1> QED BY <1>1, <1>2, <1>3, <1>4, <1>5

LEMMA BlankIs ==
  ASSUME NEW op \in DOMAIN Handler
  PROVE  \E b \in AnyRequest :
           /\ b = [Idle EXCEPT !.op = op, !.todo = Handler[op]]
           /\ b.op = op /\ b.todo = Handler[op] /\ b.me = None /\ b.org = None /\ b.user = None
           /\ b.email = None /\ ~b.admin
<1>1. PICK h \in Seq(Await) : h = Handler[op]
  BY HandlerIs, OpsAre
<1>2. PICK i \in AnyRequest : i = Idle
  BY IdleType
<1>3. i.me = None /\ i.org = None /\ i.user = None /\ i.email = None /\ i.admin = FALSE
  BY <1>2 DEF Idle
<1>4. PICK b : b = [i EXCEPT !.op = op, !.todo = h]
  OBVIOUS
<1>5. b \in AnyRequest
  BY <1>4 DEF AnyRequest
<1>6. /\ b.op = op /\ b.todo = h /\ b.me = i.me /\ b.org = i.org /\ b.user = i.user
      /\ b.email = i.email /\ b.admin = i.admin
  BY <1>4 DEF AnyRequest
<1> QED BY <1>1, <1>2, <1>3, <1>4, <1>5, <1>6

LEMMA BeginStep ==
  ASSUME BaseInv, CalmInv, NEW q \in Request, NEW op \in DOMAIN Handler, NEW more, Begin(q, op, more),
         NEW new \in AnyRequest, new = Knowing([Idle EXCEPT !.op = op, !.todo = Handler[op]], more),
         new.op = op, Known(new), ~Creating(new), calm => CalmKnown(new)
  PROVE  BaseInv' /\ CalmInv'
<1>1. docs' = docs /\ (calm' => calm) /\ ~Running(q) /\ req' = [req EXCEPT ![q] = new]
  BY DEF Begin, docs
<1>2. ~Creating(req[q])
  <2>1. PICK r : r = req[q]
    OBVIOUS
  <2>2. Left(r) = 0
    BY <1>1, <2>1 DEF Running, Left
  <2> QED BY <2>1, <2>2 DEF Creating
<1>3. ASSUME calm' PROVE Apart'
  <2>1. \A p \in Request : Running(p) => ~Conflict(op, req[p].op) /\ ~Conflict(req[p].op, op)
    BY <1>3 DEF Begin
  <2>2. Apart
    BY <1>1, <1>3 DEF CalmInv
  <2>3. \A p \in Request : req'[p] = IF p = q THEN new ELSE req[p]
    BY <1>1 DEF BaseInv
  <2>4. ASSUME NEW a \in Request, NEW b \in Request, req'[a].todo # <<>>, req'[b].todo # <<>>, a # b
        PROVE  ~Conflict(req'[a].op, req'[b].op)
    <3>1. CASE a = q
      BY <2>1, <2>3, <2>4, <3>1 DEF Running
    <3>2. CASE b = q
      BY <2>1, <2>3, <2>4, <3>2 DEF Running
    <3>3. CASE a # q /\ b # q
      BY <2>2, <2>3, <2>4, <3>3 DEF Apart, Running
    <3> QED BY <3>1, <3>2, <3>3
  <2> QED BY <2>4 DEF Apart, Running
<1> QED BY <1>1, <1>2, <1>3, ReadStep

LEMMA Knowing_OnOrg ==
  ASSUME NEW r \in AnyRequest, NEW toMe \in Ref, NEW toOrg \in Ref, NEW toUser \in Ref
  PROVE  \E new \in AnyRequest :
           /\ new = Knowing(r, [me |-> toMe, org |-> toOrg, user |-> toUser])
           /\ new.me = toMe /\ new.org = toOrg /\ new.user = toUser
           /\ new.op = r.op /\ new.todo = r.todo /\ new.email = r.email
           /\ new.admin = r.admin /\ new.invite = r.invite /\ new.role = r.role
           /\ new.owner = r.owner /\ new.left = r.left
<1>1. PICK m : m = [me |-> toMe, org |-> toOrg, user |-> toUser]
  OBVIOUS
<1>2. DOMAIN m = {"me", "org", "user"} /\ m.me = toMe /\ m.org = toOrg /\ m.user = toUser
  BY <1>1
<1>3. Knowing(r, m) = [f \in DOMAIN r |->
            IF f = "me" THEN toMe ELSE IF f = "org" THEN toOrg ELSE IF f = "user" THEN toUser ELSE r[f]]
  BY <1>2 DEF Knowing
<1>4. PICK new : new = [r EXCEPT !.me = toMe, !.org = toOrg, !.user = toUser]
  OBVIOUS
<1>5. new = [f \in DOMAIN r |->
            IF f = "me" THEN toMe ELSE IF f = "org" THEN toOrg ELSE IF f = "user" THEN toUser ELSE r[f]]
  BY <1>4 DEF AnyRequest
<1>6. new = Knowing(r, [me |-> toMe, org |-> toOrg, user |-> toUser])
  BY <1>1, <1>3, <1>5
<1>7. new \in AnyRequest
  BY <1>4 DEF AnyRequest
<1>8. /\ new.me = toMe /\ new.org = toOrg /\ new.user = toUser
      /\ new.op = r.op /\ new.todo = r.todo /\ new.email = r.email /\ new.admin = r.admin
      /\ new.invite = r.invite /\ new.role = r.role /\ new.owner = r.owner
      /\ new.left = r.left
  BY <1>4 DEF AnyRequest
<1> QED BY <1>6, <1>7, <1>8

LEMMA Knowing_OnEmail ==
  ASSUME NEW r \in AnyRequest, NEW toMe \in Ref, NEW toOrg \in Ref,
         NEW toEmail \in Email \cup {None}, NEW toAdmin \in BOOLEAN
  PROVE  \E new \in AnyRequest :
           /\ new = Knowing(r, [me |-> toMe, org |-> toOrg, email |-> toEmail, admin |-> toAdmin])
           /\ new.me = toMe /\ new.org = toOrg /\ new.email = toEmail /\ new.admin = toAdmin
           /\ new.op = r.op /\ new.todo = r.todo /\ new.user = r.user
           /\ new.invite = r.invite /\ new.role = r.role /\ new.owner = r.owner
           /\ new.left = r.left
<1>1. PICK m : m = [me |-> toMe, org |-> toOrg, email |-> toEmail, admin |-> toAdmin]
  OBVIOUS
<1>2. /\ DOMAIN m = {"me", "org", "email", "admin"}
      /\ m.me = toMe /\ m.org = toOrg /\ m.email = toEmail /\ m.admin = toAdmin
  BY <1>1
<1>3. Knowing(r, m) = [f \in DOMAIN r |->
            IF f = "me" THEN toMe ELSE IF f = "org" THEN toOrg
              ELSE IF f = "email" THEN toEmail ELSE IF f = "admin" THEN toAdmin ELSE r[f]]
  BY <1>2 DEF Knowing
<1>4. PICK new : new = [r EXCEPT !.me = toMe, !.org = toOrg, !.email = toEmail, !.admin = toAdmin]
  OBVIOUS
<1>5. new = [f \in DOMAIN r |->
            IF f = "me" THEN toMe ELSE IF f = "org" THEN toOrg
              ELSE IF f = "email" THEN toEmail ELSE IF f = "admin" THEN toAdmin ELSE r[f]]
  BY <1>4 DEF AnyRequest
<1>6. new = Knowing(r, [me |-> toMe, org |-> toOrg, email |-> toEmail, admin |-> toAdmin])
  BY <1>1, <1>3, <1>5
<1>7. new \in AnyRequest
  BY <1>4 DEF AnyRequest
<1>8. /\ new.me = toMe /\ new.org = toOrg /\ new.email = toEmail /\ new.admin = toAdmin
      /\ new.op = r.op /\ new.todo = r.todo /\ new.user = r.user /\ new.invite = r.invite
      /\ new.role = r.role /\ new.owner = r.owner /\ new.left = r.left
  BY <1>4 DEF AnyRequest
<1> QED BY <1>6, <1>7, <1>8

LEMMA Knowing_OnInvite ==
  ASSUME NEW r \in AnyRequest, NEW toMe \in Ref, NEW toInvite \in Ref, NEW toUser \in Ref,
         NEW toEmail \in Email \cup {None}
  PROVE  \E new \in AnyRequest :
           /\ new = Knowing(r, [me |-> toMe, invite |-> toInvite, user |-> toUser, email |-> toEmail])
           /\ new.me = toMe /\ new.invite = toInvite /\ new.user = toUser /\ new.email = toEmail
           /\ new.op = r.op /\ new.todo = r.todo /\ new.org = r.org /\ new.admin = r.admin
           /\ new.role = r.role /\ new.owner = r.owner /\ new.left = r.left
<1>1. PICK m : m = [me |-> toMe, invite |-> toInvite, user |-> toUser, email |-> toEmail]
  OBVIOUS
<1>2. /\ DOMAIN m = {"me", "invite", "user", "email"}
      /\ m.me = toMe /\ m.invite = toInvite /\ m.user = toUser /\ m.email = toEmail
  BY <1>1
<1>3. Knowing(r, m) = [f \in DOMAIN r |->
            IF f = "me" THEN toMe ELSE IF f = "invite" THEN toInvite
              ELSE IF f = "user" THEN toUser ELSE IF f = "email" THEN toEmail ELSE r[f]]
  BY <1>2 DEF Knowing
<1>4. PICK new : new = [r EXCEPT !.me = toMe, !.invite = toInvite, !.user = toUser, !.email = toEmail]
  OBVIOUS
<1>5. new = [f \in DOMAIN r |->
            IF f = "me" THEN toMe ELSE IF f = "invite" THEN toInvite
              ELSE IF f = "user" THEN toUser ELSE IF f = "email" THEN toEmail ELSE r[f]]
  BY <1>4 DEF AnyRequest
<1>6. new = Knowing(r, [me |-> toMe, invite |-> toInvite, user |-> toUser, email |-> toEmail])
  BY <1>1, <1>3, <1>5
<1>7. new \in AnyRequest
  BY <1>4 DEF AnyRequest
<1>8. /\ new.me = toMe /\ new.invite = toInvite /\ new.user = toUser /\ new.email = toEmail
      /\ new.op = r.op /\ new.todo = r.todo /\ new.org = r.org /\ new.admin = r.admin
      /\ new.role = r.role /\ new.owner = r.owner /\ new.left = r.left
  BY <1>4 DEF AnyRequest
<1> QED BY <1>6, <1>7, <1>8

LEMMA Knowing_OnUser ==
  ASSUME NEW r \in AnyRequest, NEW toMe \in Ref, NEW toOrg \in Ref, NEW toUser \in Ref,
         NEW toAdmin \in BOOLEAN
  PROVE  \E new \in AnyRequest :
           /\ new = Knowing(r, [me |-> toMe, org |-> toOrg, user |-> toUser, admin |-> toAdmin])
           /\ new.me = toMe /\ new.org = toOrg /\ new.user = toUser /\ new.admin = toAdmin
           /\ new.op = r.op /\ new.todo = r.todo /\ new.email = r.email
           /\ new.invite = r.invite /\ new.role = r.role /\ new.owner = r.owner
           /\ new.left = r.left
<1>1. PICK m : m = [me |-> toMe, org |-> toOrg, user |-> toUser, admin |-> toAdmin]
  OBVIOUS
<1>2. /\ DOMAIN m = {"me", "org", "user", "admin"}
      /\ m.me = toMe /\ m.org = toOrg /\ m.user = toUser /\ m.admin = toAdmin
  BY <1>1
<1>3. Knowing(r, m) = [f \in DOMAIN r |->
            IF f = "me" THEN toMe ELSE IF f = "org" THEN toOrg
              ELSE IF f = "user" THEN toUser ELSE IF f = "admin" THEN toAdmin ELSE r[f]]
  BY <1>2 DEF Knowing
<1>4. PICK new : new = [r EXCEPT !.me = toMe, !.org = toOrg, !.user = toUser, !.admin = toAdmin]
  OBVIOUS
<1>5. new = [f \in DOMAIN r |->
            IF f = "me" THEN toMe ELSE IF f = "org" THEN toOrg
              ELSE IF f = "user" THEN toUser ELSE IF f = "admin" THEN toAdmin ELSE r[f]]
  BY <1>4 DEF AnyRequest
<1>6. new = Knowing(r, [me |-> toMe, org |-> toOrg, user |-> toUser, admin |-> toAdmin])
  BY <1>1, <1>3, <1>5
<1>7. new \in AnyRequest
  BY <1>4 DEF AnyRequest
<1>8. /\ new.me = toMe /\ new.org = toOrg /\ new.user = toUser /\ new.admin = toAdmin
      /\ new.op = r.op /\ new.todo = r.todo /\ new.email = r.email
      /\ new.invite = r.invite /\ new.role = r.role /\ new.owner = r.owner
      /\ new.left = r.left
  BY <1>4 DEF AnyRequest
<1> QED BY <1>6, <1>7, <1>8

LEMMA Knowing_Create ==
  ASSUME NEW r \in AnyRequest, NEW toMe \in Ref, NEW toUser \in Ref
  PROVE  \E new \in AnyRequest :
           /\ new = Knowing(r, [me |-> toMe, user |-> toUser, admin |-> TRUE])
           /\ new.me = toMe /\ new.user = toUser /\ new.admin = TRUE
           /\ new.op = r.op /\ new.todo = r.todo /\ new.org = r.org /\ new.email = r.email
           /\ new.invite = r.invite /\ new.role = r.role /\ new.owner = r.owner
           /\ new.left = r.left
<1>1. PICK m : m = [me |-> toMe, user |-> toUser, admin |-> TRUE]
  OBVIOUS
<1>2. DOMAIN m = {"me", "user", "admin"} /\ m.me = toMe /\ m.user = toUser /\ m.admin = TRUE
  BY <1>1
<1>3. Knowing(r, m) = [f \in DOMAIN r |->
            IF f = "me" THEN toMe ELSE IF f = "user" THEN toUser
              ELSE IF f = "admin" THEN TRUE ELSE r[f]]
  BY <1>2 DEF Knowing
<1>4. PICK new : new = [r EXCEPT !.me = toMe, !.user = toUser, !.admin = TRUE]
  OBVIOUS
<1>5. new = [f \in DOMAIN r |->
            IF f = "me" THEN toMe ELSE IF f = "user" THEN toUser
              ELSE IF f = "admin" THEN TRUE ELSE r[f]]
  BY <1>4 DEF AnyRequest
<1>6. new = Knowing(r, [me |-> toMe, user |-> toUser, admin |-> TRUE])
  BY <1>1, <1>3, <1>5
<1>7. new \in AnyRequest
  BY <1>4 DEF AnyRequest
<1>8. /\ new.me = toMe /\ new.user = toUser /\ new.admin = TRUE
      /\ new.op = r.op /\ new.todo = r.todo /\ new.org = r.org /\ new.email = r.email
      /\ new.invite = r.invite /\ new.role = r.role /\ new.owner = r.owner
      /\ new.left = r.left
  BY <1>4 DEF AnyRequest
<1> QED BY <1>6, <1>7, <1>8

LEMMA Knowing_Update ==
  ASSUME NEW r \in AnyRequest, NEW toMe \in Ref, NEW toEmail \in Email \cup {None}
  PROVE  \E new \in AnyRequest :
           /\ new = Knowing(r, [me |-> toMe, email |-> toEmail])
           /\ new.me = toMe /\ new.email = toEmail
           /\ new.op = r.op /\ new.todo = r.todo /\ new.org = r.org /\ new.user = r.user
           /\ new.admin = r.admin /\ new.invite = r.invite /\ new.role = r.role
           /\ new.owner = r.owner /\ new.left = r.left
<1>1. PICK m : m = [me |-> toMe, email |-> toEmail]
  OBVIOUS
<1>2. DOMAIN m = {"me", "email"} /\ m.me = toMe /\ m.email = toEmail
  BY <1>1
<1>3. Knowing(r, m) = [f \in DOMAIN r |->
            IF f = "me" THEN toMe ELSE IF f = "email" THEN toEmail ELSE r[f]]
  BY <1>2 DEF Knowing
<1>4. PICK new : new = [r EXCEPT !.me = toMe, !.email = toEmail]
  OBVIOUS
<1>5. new = [f \in DOMAIN r |->
            IF f = "me" THEN toMe ELSE IF f = "email" THEN toEmail ELSE r[f]]
  BY <1>4 DEF AnyRequest
<1>6. new = Knowing(r, [me |-> toMe, email |-> toEmail])
  BY <1>1, <1>3, <1>5
<1>7. new \in AnyRequest
  BY <1>4 DEF AnyRequest
<1>8. /\ new.me = toMe /\ new.email = toEmail
      /\ new.op = r.op /\ new.todo = r.todo /\ new.org = r.org /\ new.user = r.user
      /\ new.admin = r.admin /\ new.invite = r.invite /\ new.role = r.role
      /\ new.owner = r.owner /\ new.left = r.left
  BY <1>4 DEF AnyRequest
<1> QED BY <1>6, <1>7, <1>8

LEMMA Knowing_Delete ==
  ASSUME NEW r \in AnyRequest, NEW toMe \in Ref
  PROVE  \E new \in AnyRequest :
           /\ new = Knowing(r, [me |-> toMe])
           /\ new.me = toMe
           /\ new.op = r.op /\ new.todo = r.todo /\ new.org = r.org /\ new.user = r.user
           /\ new.email = r.email /\ new.admin = r.admin /\ new.invite = r.invite
           /\ new.role = r.role /\ new.owner = r.owner /\ new.left = r.left
<1>1. PICK m : m = [me |-> toMe]
  OBVIOUS
<1>2. DOMAIN m = {"me"} /\ m.me = toMe
  BY <1>1
<1>3. Knowing(r, m) = [f \in DOMAIN r |->
            IF f = "me" THEN toMe ELSE r[f]]
  BY <1>2 DEF Knowing
<1>4. PICK new : new = [r EXCEPT !.me = toMe]
  OBVIOUS
<1>5. new = [f \in DOMAIN r |->
            IF f = "me" THEN toMe ELSE r[f]]
  BY <1>4 DEF AnyRequest
<1>6. new = Knowing(r, [me |-> toMe])
  BY <1>1, <1>3, <1>5
<1>7. new \in AnyRequest
  BY <1>4 DEF AnyRequest
<1>8. /\ new.me = toMe
      /\ new.op = r.op /\ new.todo = r.todo /\ new.org = r.org /\ new.user = r.user
      /\ new.email = r.email /\ new.admin = r.admin /\ new.invite = r.invite
      /\ new.role = r.role /\ new.owner = r.owner /\ new.left = r.left
  BY <1>4 DEF AnyRequest
<1> QED BY <1>6, <1>7, <1>8

LEMMA Knowing_SignUp ==
  ASSUME NEW r \in AnyRequest, NEW toEmail \in Email \cup {None}, NEW toAdmin \in BOOLEAN
  PROVE  \E new \in AnyRequest :
           /\ new = Knowing(r, [email |-> toEmail, admin |-> toAdmin])
           /\ new.email = toEmail /\ new.admin = toAdmin
           /\ new.op = r.op /\ new.todo = r.todo /\ new.me = r.me /\ new.org = r.org
           /\ new.user = r.user /\ new.invite = r.invite /\ new.role = r.role
           /\ new.owner = r.owner /\ new.left = r.left
<1>1. PICK m : m = [email |-> toEmail, admin |-> toAdmin]
  OBVIOUS
<1>2. DOMAIN m = {"email", "admin"} /\ m.email = toEmail /\ m.admin = toAdmin
  BY <1>1
<1>3. Knowing(r, m) = [f \in DOMAIN r |->
            IF f = "email" THEN toEmail ELSE IF f = "admin" THEN toAdmin ELSE r[f]]
  BY <1>2 DEF Knowing
<1>4. PICK new : new = [r EXCEPT !.email = toEmail, !.admin = toAdmin]
  OBVIOUS
<1>5. new = [f \in DOMAIN r |->
            IF f = "email" THEN toEmail ELSE IF f = "admin" THEN toAdmin ELSE r[f]]
  BY <1>4 DEF AnyRequest
<1>6. new = Knowing(r, [email |-> toEmail, admin |-> toAdmin])
  BY <1>1, <1>3, <1>5
<1>7. new \in AnyRequest
  BY <1>4 DEF AnyRequest
<1>8. /\ new.email = toEmail /\ new.admin = toAdmin
      /\ new.op = r.op /\ new.todo = r.todo /\ new.me = r.me /\ new.org = r.org
      /\ new.user = r.user /\ new.invite = r.invite /\ new.role = r.role
      /\ new.owner = r.owner /\ new.left = r.left
  BY <1>4 DEF AnyRequest
<1> QED BY <1>6, <1>7, <1>8

LEMMA LiveIs ==
  ASSUME BaseInv
  PROVE  /\ \A u \in DOMAIN users : u \in Ref /\ u # None
         /\ \A u \in LiveUser : u \in DOMAIN users /\ u \in Ref /\ u # None
         /\ \A x \in LiveOrg : x \in DOMAIN orgs /\ x \in Ref /\ x # None
         /\ \A i \in DOMAIN invites : i \in Ref
<1>1. DOMAIN users \subseteq Nat /\ DOMAIN orgs \subseteq Nat /\ DOMAIN invites \subseteq Nat
  BY DEF BaseInv, DocsInv
<1> QED BY <1>1, MembershipAssumption DEF LiveUser, LiveOrg, Ref

LEMMA MailIs == ASSUME BaseInv PROVE \A u \in LiveUser : users[u].email \in Email \cup {None}
<1>1. \A u \in DOMAIN users : users[u] \in AnyUser
  BY DEF BaseInv, DocsInv
<1> QED BY <1>1 DEF LiveUser, AnyUser

LEMMA BeginOnOrgStep ==
  ASSUME BaseInv, CalmInv, NEW q \in Request, BeginOnOrg(q) PROVE BaseInv' /\ CalmInv'
<1>0. PICK me \in LiveUser, o \in LiveOrg, op \in {"rename", "deleteOrg", "leave"} :
        Begin(q, op, [me |-> me, org |-> o, user |-> me])
  BY DEF BeginOnOrg
<1>1. PICK b \in AnyRequest :
         /\ b = [Idle EXCEPT !.op = op, !.todo = Handler[op]]
         /\ b.op = op /\ b.todo = Handler[op] /\ b.me = None /\ b.org = None /\ b.user = None
         /\ b.email = None /\ ~b.admin
  BY BlankIs, OpsAre
<1>2. me \in LiveUser /\ me \in DOMAIN users /\ me \in Ref /\ me # None /\ o \in DOMAIN orgs /\ o \in Ref /\ o # None
  BY <1>0, LiveIs
<1>3. PICK new \in AnyRequest :
         /\ new = Knowing(b, [me |-> me, org |-> o, user |-> me])
         /\ new.me = me /\ new.org = o /\ new.user = me
         /\ new.op = b.op /\ new.todo = b.todo /\ new.email = b.email
         /\ new.admin = b.admin /\ new.invite = b.invite /\ new.role = b.role
         /\ new.owner = b.owner /\ new.left = b.left
  BY <1>2, Knowing_OnOrg
<1>4. new.op = op /\ new.todo = Handler[op]
  BY <1>1, <1>3
<1>5. Placed(new) /\ ~Dropping(new) /\ Left(new) = Len(Handler[op])
  BY <1>4, FreshIs, OpsAre
<1>6. \/ new.op \in {"rename", "leave"} /\ Left(new) = 3
      \/ new.op \in {"deleteOrg"} /\ Left(new) = 2
  BY <1>4, <1>5, HandlerIs
<1>7. Known(new) /\ ~Creating(new)
  BY <1>1, <1>2, <1>3, <1>5, <1>6 DEF Known, Joins, Entitled, Creating, HasRoleInHand
<1>8. CalmKnown(new)
  BY <1>1, <1>2, <1>3, <1>5, <1>6 DEF CalmKnown, Joins, Leaving, Spares
<1> QED BY <1>0, <1>1, <1>3, <1>4, <1>7, <1>8, BeginStep, OpsAre

LEMMA BeginOnEmailStep ==
  ASSUME BaseInv, CalmInv, NEW q \in Request, BeginOnEmail(q) PROVE BaseInv' /\ CalmInv'
<1>0. PICK me \in LiveUser, o \in LiveOrg, e \in Email, a \in Grants, op \in {"add", "invite"} :
        Begin(q, op, [me |-> me, org |-> o, email |-> e, admin |-> a])
  BY DEF BeginOnEmail
<1>1. PICK b \in AnyRequest :
         /\ b = [Idle EXCEPT !.op = op, !.todo = Handler[op]]
         /\ b.op = op /\ b.todo = Handler[op] /\ b.me = None /\ b.org = None /\ b.user = None
         /\ b.email = None /\ ~b.admin
  BY BlankIs, OpsAre
<1>2. /\ me \in DOMAIN users /\ me \in Ref /\ o \in DOMAIN orgs /\ o \in Ref /\ o # None
      /\ e \in Email \cup {None} /\ a \in BOOLEAN
  BY <1>0, LiveIs , MembershipAssumption
<1>3. PICK new \in AnyRequest :
         /\ new = Knowing(b, [me |-> me, org |-> o, email |-> e, admin |-> a])
         /\ new.me = me /\ new.org = o /\ new.email = e /\ new.admin = a
         /\ new.op = b.op /\ new.todo = b.todo /\ new.user = b.user
         /\ new.invite = b.invite /\ new.role = b.role /\ new.owner = b.owner
         /\ new.left = b.left
  BY <1>2, Knowing_OnEmail
<1>4. new.op = op /\ new.todo = Handler[op]
  BY <1>1, <1>3
<1>5. Placed(new) /\ ~Dropping(new) /\ Left(new) = Len(Handler[op])
  BY <1>4, FreshIs, OpsAre
<1>6. new.op \in {"add", "invite"} /\ Left(new) = 6
  BY <1>4, <1>5, HandlerIs
<1>7. Known(new) /\ ~Creating(new)
  BY <1>1, <1>2, <1>3, <1>5, <1>6 DEF Known, Joins, Entitled, Creating, HasRoleInHand
<1>8. CalmKnown(new)
  BY <1>1, <1>2, <1>3, <1>5, <1>6 DEF CalmKnown, Joins, Leaving, Spares
<1> QED BY <1>0, <1>1, <1>3, <1>4, <1>7, <1>8, BeginStep, OpsAre

LEMMA BeginOnInviteStep ==
  ASSUME BaseInv, CalmInv, NEW q \in Request, BeginOnInvite(q) PROVE BaseInv' /\ CalmInv'
<1>0. PICK me \in LiveUser, i \in DOMAIN invites, op \in {"cancel", "accept", "decline"} :
        Begin(q, op, [me |-> me, invite |-> i, user |-> me, email |-> users[me].email])
  BY DEF BeginOnInvite
<1>1. PICK b \in AnyRequest :
         /\ b = [Idle EXCEPT !.op = op, !.todo = Handler[op]]
         /\ b.op = op /\ b.todo = Handler[op] /\ b.me = None /\ b.org = None /\ b.user = None
         /\ b.email = None /\ ~b.admin
  BY BlankIs, OpsAre
<1>2. /\ me \in LiveUser /\ me \in DOMAIN users /\ me \in Ref /\ me # None
      /\ i \in DOMAIN invites /\ i \in Ref /\ users[me].email \in Email \cup {None}
  BY <1>0, LiveIs , MailIs
<1>3. PICK new \in AnyRequest :
         /\ new = Knowing(b, [me |-> me, invite |-> i, user |-> me, email |-> users[me].email])
         /\ new.me = me /\ new.invite = i /\ new.user = me /\ new.email = users[me].email
         /\ new.op = b.op /\ new.todo = b.todo /\ new.org = b.org /\ new.admin = b.admin
         /\ new.role = b.role /\ new.owner = b.owner /\ new.left = b.left
  BY <1>2, Knowing_OnInvite
<1>4. new.op = op /\ new.todo = Handler[op]
  BY <1>1, <1>3
<1>5. Placed(new) /\ ~Dropping(new) /\ Left(new) = Len(Handler[op])
  BY <1>4, FreshIs, OpsAre
<1>6. \/ new.op \in {"cancel"} /\ Left(new) = 3
      \/ new.op \in {"accept"} /\ Left(new) = 4
      \/ new.op \in {"decline"} /\ Left(new) = 2
  BY <1>4, <1>5, HandlerIs
<1>7. Known(new) /\ ~Creating(new)
  BY <1>1, <1>2, <1>3, <1>5, <1>6 DEF Known, Joins, Entitled, Creating, HasRoleInHand
<1>8. CalmKnown(new)
  BY <1>1, <1>2, <1>3, <1>5, <1>6 DEF CalmKnown, Joins, Leaving, Spares
<1> QED BY <1>0, <1>1, <1>3, <1>4, <1>7, <1>8, BeginStep, OpsAre

LEMMA BeginOnUserStep ==
  ASSUME BaseInv, CalmInv, NEW q \in Request, BeginOnUser(q) PROVE BaseInv' /\ CalmInv'
<1>0. PICK me \in LiveUser, o \in LiveOrg, u \in DOMAIN users, a \in BOOLEAN,
             op \in {"permit", "remove", "transfer"} : Begin(q, op, [me |-> me, org |-> o, user |-> u, admin |-> a])
  BY DEF BeginOnUser
<1>1. PICK b \in AnyRequest :
         /\ b = [Idle EXCEPT !.op = op, !.todo = Handler[op]]
         /\ b.op = op /\ b.todo = Handler[op] /\ b.me = None /\ b.org = None /\ b.user = None
         /\ b.email = None /\ ~b.admin
  BY BlankIs, OpsAre
<1>2. /\ me \in DOMAIN users /\ me \in Ref /\ o \in DOMAIN orgs /\ o \in Ref /\ o # None
      /\ u \in DOMAIN users /\ u \in Ref
  BY <1>0, LiveIs
<1>3. PICK new \in AnyRequest :
         /\ new = Knowing(b, [me |-> me, org |-> o, user |-> u, admin |-> a])
         /\ new.me = me /\ new.org = o /\ new.user = u /\ new.admin = a
         /\ new.op = b.op /\ new.todo = b.todo /\ new.email = b.email
         /\ new.invite = b.invite /\ new.role = b.role /\ new.owner = b.owner
         /\ new.left = b.left
  BY <1>2, Knowing_OnUser
<1>4. new.op = op /\ new.todo = Handler[op]
  BY <1>1, <1>3
<1>5. Placed(new) /\ ~Dropping(new) /\ Left(new) = Len(Handler[op])
  BY <1>4, FreshIs, OpsAre
<1>6. new.op \in {"permit", "remove", "transfer"} /\ Left(new) = 4
  BY <1>4, <1>5, HandlerIs
<1>7. Known(new) /\ ~Creating(new)
  BY <1>1, <1>2, <1>3, <1>5, <1>6 DEF Known, Joins, Entitled, Creating, HasRoleInHand
<1>8. CalmKnown(new)
  BY <1>1, <1>2, <1>3, <1>5, <1>6 DEF CalmKnown, Joins, Leaving, Spares
<1> QED BY <1>0, <1>1, <1>3, <1>4, <1>7, <1>8, BeginStep, OpsAre

LEMMA BeginOnMeStep ==
  ASSUME BaseInv, CalmInv, NEW q \in Request, BeginOnMe(q) PROVE BaseInv' /\ CalmInv'
<1>0. PICK me \in LiveUser :
        \/ Begin(q, "createOrg", [me |-> me, user |-> me, admin |-> TRUE])
        \/ \E e \in Email : Begin(q, "updateMe", [me |-> me, email |-> e])
        \/ Begin(q, "deleteMe", [me |-> me])
  BY DEF BeginOnMe
<1>1. CASE Begin(q, "createOrg", [me |-> me, user |-> me, admin |-> TRUE])
  <2>1. PICK b \in AnyRequest :
           /\ b = [Idle EXCEPT !.op = "createOrg", !.todo = Handler["createOrg"]]
           /\ b.op = "createOrg" /\ b.todo = Handler["createOrg"] /\ b.me = None
           /\ b.org = None /\ b.user = None
           /\ b.email = None /\ ~b.admin
    BY BlankIs, OpsAre
  <2>2. me \in LiveUser /\ me \in DOMAIN users /\ me \in Ref /\ me # None
    BY <1>1, LiveIs
  <2>3. PICK new \in AnyRequest :
           /\ new = Knowing(b, [me |-> me, user |-> me, admin |-> TRUE])
           /\ new.me = me /\ new.user = me /\ new.admin = TRUE
           /\ new.op = b.op /\ new.todo = b.todo /\ new.org = b.org /\ new.email = b.email
           /\ new.invite = b.invite /\ new.role = b.role /\ new.owner = b.owner
           /\ new.left = b.left
    BY <2>2, Knowing_Create, ZenonT(40)
  <2>4. new.op = "createOrg" /\ new.todo = Handler["createOrg"]
    BY <2>1, <2>3
  <2>5. Placed(new) /\ ~Dropping(new) /\ Left(new) = Len(Handler["createOrg"])
    BY <2>4, FreshIs, OpsAre
  <2>6. new.op = "createOrg" /\ Left(new) = 3
    BY <2>4, <2>5, HandlerIs
  <2>7. Known(new) /\ ~Creating(new)
    BY <2>1, <2>2, <2>3, <2>5, <2>6 DEF Known, Joins, Entitled, Creating, HasRoleInHand
  <2>8. CalmKnown(new)
    BY <2>1, <2>2, <2>3, <2>5, <2>6 DEF CalmKnown, Joins, Leaving, Spares
  <2> QED BY <1>1, <2>1, <2>3, <2>4, <2>7, <2>8, BeginStep, OpsAre
<1>2. ASSUME NEW e \in Email, Begin(q, "updateMe", [me |-> me, email |-> e]) PROVE BaseInv' /\ CalmInv'
  <2>1. PICK b \in AnyRequest :
           /\ b = [Idle EXCEPT !.op = "updateMe", !.todo = Handler["updateMe"]]
           /\ b.op = "updateMe" /\ b.todo = Handler["updateMe"] /\ b.me = None
           /\ b.org = None /\ b.user = None
           /\ b.email = None /\ ~b.admin
    BY BlankIs, OpsAre
  <2>2. me \in LiveUser /\ me \in DOMAIN users /\ me \in Ref /\ me # None /\ e \in Email \cup {None}
    BY <1>2, LiveIs
  <2>3. PICK new \in AnyRequest :
           /\ new = Knowing(b, [me |-> me, email |-> e])
           /\ new.me = me /\ new.email = e
           /\ new.op = b.op /\ new.todo = b.todo /\ new.org = b.org /\ new.user = b.user
           /\ new.admin = b.admin /\ new.invite = b.invite /\ new.role = b.role
           /\ new.owner = b.owner /\ new.left = b.left
    BY <2>2, Knowing_Update
  <2>4. new.op = "updateMe" /\ new.todo = Handler["updateMe"]
    BY <2>1, <2>3
  <2>5. Placed(new) /\ ~Dropping(new) /\ Left(new) = Len(Handler["updateMe"])
    BY <2>4, FreshIs, OpsAre
  <2>6. new.op = "updateMe" /\ Left(new) = 2
    BY <2>4, <2>5, HandlerIs
  <2>7. Known(new) /\ ~Creating(new)
    BY <2>1, <2>2, <2>3, <2>5, <2>6 DEF Known, Joins, Entitled, Creating, HasRoleInHand
  <2>8. CalmKnown(new)
    BY <2>1, <2>2, <2>3, <2>5, <2>6 DEF CalmKnown, Joins, Leaving, Spares
  <2> QED BY <1>2, <2>1, <2>3, <2>4, <2>7, <2>8, BeginStep, OpsAre
<1>3. CASE Begin(q, "deleteMe", [me |-> me])
  <2>1. PICK b \in AnyRequest :
           /\ b = [Idle EXCEPT !.op = "deleteMe", !.todo = Handler["deleteMe"]]
           /\ b.op = "deleteMe" /\ b.todo = Handler["deleteMe"] /\ b.me = None
           /\ b.org = None /\ b.user = None
           /\ b.email = None /\ ~b.admin
    BY BlankIs, OpsAre
  <2>2. me \in LiveUser /\ me \in DOMAIN users /\ me \in Ref /\ me # None
    BY <1>3, LiveIs
  <2>3. PICK new \in AnyRequest :
           /\ new = Knowing(b, [me |-> me])
           /\ new.me = me
           /\ new.op = b.op /\ new.todo = b.todo /\ new.org = b.org /\ new.user = b.user
           /\ new.email = b.email /\ new.admin = b.admin /\ new.invite = b.invite
           /\ new.role = b.role /\ new.owner = b.owner /\ new.left = b.left
    BY <2>2, Knowing_Delete
  <2>4. new.op = "deleteMe" /\ new.todo = Handler["deleteMe"]
    BY <2>1, <2>3
  <2>5. Placed(new) /\ ~Dropping(new) /\ Left(new) = Len(Handler["deleteMe"])
    BY <2>4, FreshIs, OpsAre
  <2>6. new.op = "deleteMe" /\ Left(new) = 5
    BY <2>4, <2>5, HandlerIs
  <2>7. Known(new) /\ ~Creating(new)
    BY <2>1, <2>2, <2>3, <2>5, <2>6 DEF Known, Joins, Entitled, Creating, HasRoleInHand
  <2>8. CalmKnown(new)
    BY <2>1, <2>2, <2>3, <2>5, <2>6 DEF CalmKnown, Joins, Leaving, Spares
  <2> QED BY <1>3, <2>1, <2>3, <2>4, <2>7, <2>8, BeginStep, OpsAre
<1> QED BY <1>0, <1>1, <1>2, <1>3

LEMMA BeginSignUpStep ==
  ASSUME BaseInv, CalmInv, NEW q \in Request, BeginSignUp(q) PROVE BaseInv' /\ CalmInv'
<1>0. PICK e \in Email : Begin(q, "signUp", [email |-> e, admin |-> TRUE])
  BY DEF BeginSignUp
<1>1. PICK b \in AnyRequest :
         /\ b = [Idle EXCEPT !.op = "signUp", !.todo = Handler["signUp"]]
         /\ b.op = "signUp" /\ b.todo = Handler["signUp"] /\ b.me = None /\ b.org = None
         /\ b.user = None
         /\ b.email = None /\ ~b.admin
  BY BlankIs, OpsAre
<1>2. e \in Email \cup {None}
  BY <1>0, LiveIs
<1>3. PICK new \in AnyRequest :
         /\ new = Knowing(b, [email |-> e, admin |-> TRUE])
         /\ new.email = e /\ new.admin = TRUE
         /\ new.op = b.op /\ new.todo = b.todo /\ new.me = b.me /\ new.org = b.org
         /\ new.user = b.user /\ new.invite = b.invite /\ new.role = b.role
         /\ new.owner = b.owner /\ new.left = b.left
  BY <1>2, Knowing_SignUp
<1>4. new.op = "signUp" /\ new.todo = Handler["signUp"]
  BY <1>1, <1>3
<1>5. Placed(new) /\ ~Dropping(new) /\ Left(new) = Len(Handler["signUp"])
  BY <1>4, FreshIs, OpsAre
<1>6. new.op = "signUp" /\ Left(new) = 4
  BY <1>4, <1>5, HandlerIs
<1>7. Known(new) /\ ~Creating(new)
  BY <1>1, <1>2, <1>3, <1>5, <1>6 DEF Known, Joins, Entitled, Creating, HasRoleInHand
<1>8. CalmKnown(new)
  BY <1>1, <1>2, <1>3, <1>5, <1>6 DEF CalmKnown, Joins, Leaving, Spares
<1> QED BY <1>0, <1>1, <1>3, <1>4, <1>7, <1>8, BeginStep, OpsAre

\* What is known stays known as the collections grow.
LEMMA KnownGrows ==
  ASSUME NEW r, Known(r), DOMAIN users \subseteq DOMAIN users', DOMAIN orgs \subseteq DOMAIN orgs',
         DOMAIN roles \subseteq DOMAIN roles', DOMAIN invites \subseteq DOMAIN invites',
         \A x \in DOMAIN roles : roles'[x].user = roles[x].user /\ roles'[x].org = roles[x].org,
         Creating(r) => ~Founded(r.org)' /\ orgs'[r.org].owner = orgs[r.org].owner
  PROVE  Known(r)'
<1>1. \A o : Founded(o) => Founded(o)'
  BY DEF Founded
<1> QED BY <1>1 DEF Known

\* The request that goes on has one await less, or is done.
LEMMA GoesTo ==
  ASSUME BaseInv, NEW q \in Request, NEW r \in AnyRequest, r = req[q], Running(q), Placed(r), r.op # "none",
         NEW more, Goes(q, more), NEW now \in AnyRequest, now = Knowing(r, more),
         now.op = r.op, now.todo = r.todo
  PROVE  \E new \in AnyRequest :
           /\ req' = [req EXCEPT ![q] = new]
           /\ \/ Left(r) = 1 /\ new = Idle
              \/ Continues(r, now, new)
           /\ Apart => Apart'
<1>1. req' = [req EXCEPT ![q] = IF Len(now.todo) = 1 THEN Idle ELSE [now EXCEPT !.todo = Tail(@)]]
  BY DEF Goes
<1>2. CASE Left(r) = 1
  <2>1. PICK new \in AnyRequest : new = Idle
    BY IdleType
  <2>2. req' = [req EXCEPT ![q] = new]
    BY <1>1, <1>2, <2>1 DEF Left
  <2>3. new.todo = <<>>
    BY <2>1, IdleType
  <2>4. Apart => Apart'
    BY <2>2, <2>3, StaysApart
  <2> QED BY <1>2, <2>1, <2>2, <2>4
<1>3. CASE Left(r) # 1
  <2>1. PICK new : new = [now EXCEPT !.todo = Tail(r.todo)]
    OBVIOUS
  <2>2. req' = [req EXCEPT ![q] = new]
    BY <1>1, <1>3, <2>1 DEF Left
  <2>3. r.todo # <<>>
    BY DEF Running
  <2>4. new \in AnyRequest /\ Continues(r, now, new)
    BY <1>3, <2>1, <2>3, Onward DEF Continues
  <2>5. Apart => Apart'
    <3>1. new.op = req[q].op
      BY <2>4 DEF Continues
    <3> QED BY <2>2, <2>4, <3>1, StaysApart
  <2> QED BY <2>2, <2>4, <2>5
<1> QED BY <1>2, <1>3

\* A step that changes no more than an address or an invite.
LEMMA AlikeStep ==
  ASSUME BaseInv, CalmInv, DocsInv', orgs' = orgs, roles' = roles, DOMAIN users' = DOMAIN users,
         LiveUser' = LiveUser, DOMAIN invites \subseteq DOMAIN invites', calm' = calm
  PROVE  /\ \A r \in AnyRequest : (Known(r) => Known(r)') /\ (CalmKnown(r)' <=> CalmKnown(r))
         /\ calm => Resolved' /\ OneRole'
         /\ LiveOrg' = LiveOrg
         /\ \A o : Rules(orgs[o].owner, o)' <=> Rules(orgs[o].owner, o)
<1>1. \A u, o : (HasRole(u, o)' <=> HasRole(u, o)) /\ (Founded(o)' <=> Founded(o))
  BY DEF HasRole, Founded
<1>2. LiveOrg' = LiveOrg
  BY DEF LiveOrg
<1>3. ASSUME NEW r \in AnyRequest, Known(r) PROVE Known(r)'
  <2>1. Creating(r) => ~Founded(r.org)
    BY <1>3 DEF Known
  <2> QED BY <1>1, <1>3, <2>1, KnownGrows
<1>4. ASSUME NEW r \in AnyRequest PROVE CalmKnown(r)' <=> CalmKnown(r)
  BY <1>1, <1>2 DEF CalmKnown
<1>5. calm => Resolved' /\ OneRole'
  BY <1>2 DEF CalmInv, Resolved, OneRole
<1>6. \A o : Rules(orgs[o].owner, o)' <=> Rules(orgs[o].owner, o)
  BY DEF Rules
<1> QED BY <1>2, <1>3, <1>4, <1>5, <1>6

LEMMA AlikeWrite ==
  ASSUME BaseInv, CalmInv, DocsInv', orgs' = orgs, roles' = roles, DOMAIN users' = DOMAIN users,
         LiveUser' = LiveUser, DOMAIN invites \subseteq DOMAIN invites', calm' = calm,
         NEW q \in Request, NEW new \in AnyRequest, req' = [req EXCEPT ![q] = new],
         Known(new), ~Creating(new), ~Creating(req[q]), Apart => Apart', calm => CalmKnown(new)
  PROVE  BaseInv' /\ CalmInv'
<1>1. Known(new)' /\ \A p \in Request \ {q}, r \in AnyRequest : r = req[p] => Known(r)'
  BY AlikeStep DEF BaseInv
<1>2. BaseInv'
  BY <1>1, Assemble
<1>3. CASE ~calm
  BY <1>2, <1>3, NotCalm
<1>4. CASE calm
  <2>1. Apart' /\ Resolved' /\ OneRole' /\ Ruled /\ Knowledge /\ LiveOrg' = LiveOrg
    BY <1>4, AlikeStep DEF CalmInv
  <2>2. \A p \in Request : Creating(req[p]) => req'[p] = req[p]
    BY DEF BaseInv
  <2>3. Ruled'
    <3>1. ASSUME NEW o \in LiveOrg, ~\E p \in Request : Creating(req'[p]) /\ req'[p].org = o
          PROVE  orgs[o].owner \in LiveUser /\ Rules(orgs[o].owner, o)
      BY <2>1, <2>2, <3>1 DEF Ruled
    <3>2. ASSUME NEW o \in LiveOrg, ~\E p \in Request : Creating(req'[p]) /\ req'[p].org = o
          PROVE  orgs'[o].owner \in LiveUser' /\ Rules(orgs[o].owner, o)'
      BY <3>1, <3>2, AlikeStep
    <3> QED BY <2>1, <3>2 DEF Ruled
  <2>4. CalmKnown(new)' /\ \A p \in Request \ {q}, r \in AnyRequest : r = req[p] => CalmKnown(r)'
    BY <1>4, <2>1, AlikeStep DEF Knowledge
  <2> QED BY <1>2, <2>1, <2>3, <2>4, AssembleCalm
<1> QED BY <1>3, <1>4

LEMMA DoneIs ==
  ASSUME NEW new, new = Idle
  PROVE  Known(new) /\ CalmKnown(new) /\ ~Creating(new)
BY IdleKnown

\* The last await of a request that learns nothing.
LEMMA EndsStep ==
  ASSUME BaseInv, NEW q \in Request, NEW r \in AnyRequest, r = req[q], Running(q), Placed(r), r.op # "none",
         Goes(q, <<>>)
  PROVE  \E new \in AnyRequest :
           /\ req' = [req EXCEPT ![q] = new] /\ (Apart => Apart')
           /\ \/ Left(r) = 1 /\ new = Idle /\ Known(new) /\ CalmKnown(new) /\ ~Creating(new)
              \/ Continues(r, r, new)
<1>1. PICK more : more = <<>>
  OBVIOUS
<1>2. r = Knowing(r, more) /\ Goes(q, more)
  BY <1>1, KnowingIs
<1>3. PICK new \in AnyRequest :
         /\ req' = [req EXCEPT ![q] = new] /\ ((Left(r) = 1 /\ new = Idle) \/ Continues(r, r, new))
         /\ Apart => Apart'
  BY <1>2, GoesTo
<1> QED BY <1>3, DoneIs

LEMMA SaveInviteStep ==
  ASSUME BaseInv, CalmInv, NEW q \in Request, SaveInvite(q) PROVE BaseInv' /\ CalmInv'
<1>1. /\ At(q, "saveInvite") /\ Running(q) /\ Goes(q, <<>>)
      /\ users' = users /\ orgs' = orgs /\ roles' = roles /\ calm' = calm
  BY DEF SaveInvite, At
<1>2. PICK r \in AnyRequest :
        /\ r = req[q] /\ Known(r) /\ Placed(r) /\ r.op # "none" /\ r.todo # <<>>
        /\ calm => CalmKnown(r)
  BY <1>1, AtStep
<1>3. r.op = "invite" /\ Left(r) = 1 /\ ~Creating(r)
  BY <1>1, <1>2, At_saveInvite DEF At, Creating
<1>4. r.org \in DOMAIN orgs /\ Founded(r.org) /\ r.email \in Email \cup {None} /\ r.admin \in BOOLEAN
  BY <1>2, <1>3 DEF Known, Entitled, AnyRequest
<1>5. PICK doc : doc = [email |-> r.email, org |-> r.org, admin |-> r.admin, gone |-> FALSE]
  OBVIOUS
<1>6. doc \in AnyInvite /\ doc.org = r.org
  <2>1. r.org \in Nat
    BY <1>4 DEF BaseInv, DocsInv
  <2> QED BY <1>4, <1>5, <2>1 DEF AnyInvite
<1>7. invites' = invites \/ invites' = Append(invites, doc)
  BY <1>2, <1>5 DEF SaveInvite, Insert
<1>8. DocsInv' /\ DOMAIN invites \subseteq DOMAIN invites'
  <2>1. /\ invites \in Seq(AnyInvite)
        /\ \A i \in DOMAIN invites : invites[i].org \in DOMAIN orgs /\ Founded(invites[i].org)
    BY DEF BaseInv, DocsInv
  <2>2. /\ invites' \in Seq(AnyInvite) /\ DOMAIN invites \subseteq DOMAIN invites'
        /\ \A i \in DOMAIN invites' : \/ i \in DOMAIN invites /\ invites'[i] = invites[i]
                                      \/ invites'[i] = doc
    BY <1>6, <1>7, <2>1
  <2>3. \A i \in DOMAIN invites' : invites'[i].org \in DOMAIN orgs /\ Founded(invites'[i].org)
    BY <1>4, <1>6, <2>1, <2>2
  <2>4. \A i \in DOMAIN invites' : invites'[i].org \in DOMAIN orgs' /\ \E x \in DOMAIN roles' : roles'[x].org = invites'[i].org
    BY <1>1, <2>3 DEF Founded
  <2>5. users \in Seq(AnyUser) /\ orgs \in Seq(AnyOrg) /\ roles \in Seq(AnyRole)
    BY DEF BaseInv, DocsInv
  <2>6. \A x \in DOMAIN roles : roles[x].user \in DOMAIN users /\ roles[x].org \in DOMAIN orgs
    BY DEF BaseInv, DocsInv
  <2> QED BY <1>1, <2>2, <2>4, <2>5, <2>6 DEF DocsInv, Founded
<1>9. LiveUser' = LiveUser
  BY <1>1 DEF LiveUser
<1>10. PICK new \in AnyRequest :
          /\ req' = [req EXCEPT ![q] = new] /\ (Apart => Apart')
          /\ Known(new) /\ CalmKnown(new) /\ ~Creating(new)
  BY <1>1, <1>2, <1>3, EndsStep DEF Continues
<1> QED BY <1>1, <1>2, <1>3, <1>8, <1>9, <1>10, AlikeWrite

LEMMA PatchIs ==
  ASSUME NEW S, NEW s \in Seq(S), NEW i, NEW e, i \in DOMAIN s => e \in S
  PROVE  /\ [s EXCEPT ![i] = e] \in Seq(S) /\ DOMAIN [s EXCEPT ![i] = e] = DOMAIN s
         /\ \A j \in DOMAIN s : [s EXCEPT ![i] = e][j] = IF j = i THEN e ELSE s[j]
<1>1. PICK t : t = [s EXCEPT ![i] = e]
  OBVIOUS
<1>2. DOMAIN s = 1 .. Len(s) /\ Len(s) \in Nat
  OBVIOUS
<1>3. t \in [1 .. Len(s) -> S]
  <2>1. PICK n \in Nat : n = Len(s) /\ DOMAIN s = 1 .. n
    BY <1>2
  <2>2. s \in [1 .. n -> S]
    BY <2>1
  <2>3. [s EXCEPT ![i] = e] \in [1 .. n -> S]
    BY <2>1, <2>2
  <2> QED BY <1>1, <2>1, <2>3
<1>4. t \in Seq(S) /\ DOMAIN t = 1 .. Len(s)
  <2>1. PICK n \in Nat : n = Len(s)
    BY <1>2
  <2>2. t \in [1 .. n -> S]
    BY <1>3, <2>1
  <2>3. t \in Seq(S)
    BY <2>1, <2>2, SeqDef
  <2> QED BY <2>1, <2>2, <2>3
<1>5. \A j \in DOMAIN s : t[j] = IF j = i THEN e ELSE s[j]
  BY <1>1
<1> QED BY <1>1, <1>2, <1>4, <1>5

\* An invite is crossed out.
LEMMA CrossOut ==
  ASSUME BaseInv, NEW i, invites' = [invites EXCEPT ![i].gone = TRUE],
         users' = users, orgs' = orgs, roles' = roles
  PROVE  DocsInv' /\ DOMAIN invites' = DOMAIN invites
<1>1. /\ users \in Seq(AnyUser) /\ orgs \in Seq(AnyOrg)
      /\ roles \in Seq(AnyRole) /\ invites \in Seq(AnyInvite)
      /\ \A x \in DOMAIN roles : roles[x].user \in DOMAIN users /\ roles[x].org \in DOMAIN orgs
      /\ \A j \in DOMAIN invites : invites[j].org \in DOMAIN orgs
                                   /\ \E x \in DOMAIN roles : roles[x].org = invites[j].org
  BY DEF BaseInv, DocsInv, Founded
<1>2. \A j \in DOMAIN invites : [invites[j] EXCEPT !.gone = TRUE] \in AnyInvite
                                /\ [invites[j] EXCEPT !.gone = TRUE].org = invites[j].org
  <2>1. \A d \in AnyInvite : [d EXCEPT !.gone = TRUE] \in AnyInvite /\ [d EXCEPT !.gone = TRUE].org = d.org
    BY DEF AnyInvite
  <2> QED BY <1>1, <2>1
<1>3. PICK e : e = [invites[i] EXCEPT !.gone = TRUE]
  OBVIOUS
<1>4. /\ invites' \in Seq(AnyInvite) /\ DOMAIN invites' = DOMAIN invites
      /\ \A j \in DOMAIN invites : invites'[j].org = invites[j].org
  <2>1. invites' = [invites EXCEPT ![i] = e]
    BY <1>3
  <2>2. i \in DOMAIN invites => e \in AnyInvite /\ e.org = invites[i].org
    BY <1>2, <1>3
  <2>3. /\ [invites EXCEPT ![i] = e] \in Seq(AnyInvite) /\ DOMAIN [invites EXCEPT ![i] = e] = DOMAIN invites
        /\ \A j \in DOMAIN invites : [invites EXCEPT ![i] = e][j] = IF j = i THEN e ELSE invites[j]
    BY <1>1, <2>2, PatchIs
  <2>4. \A j \in DOMAIN invites : invites'[j] = IF j = i THEN e ELSE invites[j]
    BY <2>1, <2>3
  <2> QED BY <2>1, <2>2, <2>3, <2>4
<1>5. \A j \in DOMAIN invites' : invites'[j].org \in DOMAIN orgs'
                                 /\ \E x \in DOMAIN roles' : roles'[x].org = invites'[j].org
  BY <1>1, <1>4
<1> QED BY <1>1, <1>4, <1>5 DEF DocsInv, Founded

LEMMA DropInviteStep ==
  ASSUME BaseInv, CalmInv, NEW q \in Request, DropInvite(q) PROVE BaseInv' /\ CalmInv'
<1>1. /\ At(q, "dropInvite") /\ Running(q) /\ Goes(q, <<>>)
      /\ users' = users /\ orgs' = orgs /\ roles' = roles /\ calm' = calm
  BY DEF DropInvite, At
<1>2. PICK r \in AnyRequest :
        /\ r = req[q] /\ Known(r) /\ Placed(r) /\ r.op # "none" /\ r.todo # <<>>
        /\ calm => CalmKnown(r)
  BY <1>1, AtStep
<1>3. Left(r) = 1 /\ ~Creating(r)
  BY <1>1, <1>2, At_dropInvite DEF At, Creating
<1>4. DocsInv' /\ DOMAIN invites' = DOMAIN invites
  BY <1>1, CrossOut DEF DropInvite
<1>5. LiveUser' = LiveUser
  BY <1>1 DEF LiveUser
<1>6. PICK new \in AnyRequest :
          /\ req' = [req EXCEPT ![q] = new] /\ (Apart => Apart')
          /\ Known(new) /\ CalmKnown(new) /\ ~Creating(new)
  BY <1>1, <1>2, <1>3, EndsStep DEF Continues
<1> QED BY <1>1, <1>2, <1>3, <1>4, <1>5, <1>6, AlikeWrite

LEMMA ExpireStep ==
  ASSUME BaseInv, CalmInv, Expire PROVE BaseInv' /\ CalmInv'
<1>1. users' = users /\ orgs' = orgs /\ roles' = roles /\ calm' = calm /\ req' = req
  BY DEF Expire
<1>2. DocsInv' /\ DOMAIN invites' = DOMAIN invites
  BY <1>1, CrossOut DEF Expire
<1>3. LiveUser' = LiveUser
  BY <1>1 DEF LiveUser
<1>4. /\ \A r \in AnyRequest : (Known(r) => Known(r)') /\ (CalmKnown(r)' <=> CalmKnown(r))
      /\ calm => Resolved' /\ OneRole'
      /\ LiveOrg' = LiveOrg
  BY <1>1, <1>2, <1>3, AlikeStep
<1>5. BaseInv'
  BY <1>1, <1>2, <1>4 DEF BaseInv
<1>6. calm => Apart' /\ Knowledge'
  BY <1>1, <1>4 DEF CalmInv, Apart, Knowledge, Running
<1>7. calm => Ruled'
  BY <1>1, <1>3, <1>4 DEF CalmInv, Ruled, Rules
<1> QED BY <1>1, <1>4, <1>5, <1>6, <1>7 DEF CalmInv

LEMMA SaveMeStep ==
  ASSUME BaseInv, CalmInv, NEW q \in Request, SaveMe(q) PROVE BaseInv' /\ CalmInv'
<1>1. /\ At(q, "saveMe") /\ Running(q)
      /\ invites' = invites /\ orgs' = orgs /\ roles' = roles /\ calm' = calm
  BY DEF SaveMe, At
<1>2. PICK r \in AnyRequest :
        /\ r = req[q] /\ Known(r) /\ Placed(r) /\ r.op # "none" /\ r.todo # <<>>
        /\ calm => CalmKnown(r)
  BY <1>1, AtStep
<1>3. ~Creating(r) /\ ~Dropping(r) /\ ((r.op = "updateMe" /\ Left(r) = 1) \/ (r.op = "deleteMe" /\ Left(r) = 2))
  <2>1. Head(r.todo) = "saveMe"
    BY <1>1, <1>2 DEF At
  <2>2. ~Dropping(r) /\ ((r.op = "updateMe" /\ Left(r) = 1) \/ (r.op = "deleteMe" /\ Left(r) = 2))
    BY <1>2, <2>1, At_saveMe
  <2> QED BY <2>2 DEF Creating
<1>4. CASE Refuses(q) /\ users' = users
  <2>1. docs' = docs
    BY <1>1, <1>4 DEF docs
  <2> QED BY <1>1, <1>2, <1>3, <1>4, <2>1, RefuseStep
<1>5. CASE Goes(q, <<>>) /\ users' = [users EXCEPT ![r.me].email = r.email]
  <2>1. /\ users \in Seq(AnyUser) /\ orgs \in Seq(AnyOrg)
        /\ roles \in Seq(AnyRole) /\ invites \in Seq(AnyInvite)
        /\ \A x \in DOMAIN roles : roles[x].user \in DOMAIN users /\ roles[x].org \in DOMAIN orgs
        /\ \A j \in DOMAIN invites : invites[j].org \in DOMAIN orgs /\ Founded(invites[j].org)
    BY DEF BaseInv, DocsInv
  <2>2. PICK e \in Email \cup {None} : e = r.email
    BY DEF AnyRequest
  <2>3. \A u \in DOMAIN users : [users[u] EXCEPT !.email = e] \in AnyUser
                                /\ [users[u] EXCEPT !.email = e].deleted = users[u].deleted
    <3>1. \A d \in AnyUser : [d EXCEPT !.email = e] \in AnyUser /\ [d EXCEPT !.email = e].deleted = d.deleted
      BY DEF AnyUser
    <3> QED BY <2>1, <3>1
  <2>4. PICK me : me = r.me
    OBVIOUS
  <2>5. users' = [users EXCEPT ![me].email = e]
    BY <1>5, <2>2, <2>4
  <2>6. users' \in Seq(AnyUser) /\ DOMAIN users' = DOMAIN users
    <3>1. PICK d : d = [users[me] EXCEPT !.email = e]
      OBVIOUS
    <3>2. users' = [users EXCEPT ![me] = d] /\ (me \in DOMAIN users => d \in AnyUser)
      BY <2>3, <2>5, <3>1
    <3> QED BY <2>1, <3>2, PatchIs
  <2>7. \A u \in DOMAIN users : users'[u].deleted = users[u].deleted
    <3>1. PICK d : d = [users[me] EXCEPT !.email = e]
      OBVIOUS
    <3>2. users' = [users EXCEPT ![me] = d]
      BY <2>5, <3>1
    <3>3. me \in DOMAIN users => d \in AnyUser /\ d.deleted = users[me].deleted
      BY <2>3, <3>1
    <3>4. \A u \in DOMAIN users : users'[u] = IF u = me THEN d ELSE users[u]
      BY <2>1, <3>2, <3>3, PatchIs
    <3> QED BY <3>3, <3>4
  <2>8. LiveUser' = LiveUser
    BY <2>6, <2>7 DEF LiveUser
  <2>9. DocsInv'
    BY <1>1, <2>1, <2>6 DEF DocsInv, Founded
  <2>10. PICK new \in AnyRequest :
          /\ req' = [req EXCEPT ![q] = new] /\ (Apart => Apart')
          /\ \/ Left(r) = 1 /\ new = Idle /\ Known(new) /\ CalmKnown(new) /\ ~Creating(new)
             \/ Continues(r, r, new)
    BY <1>2, <1>5, <1>1, EndsStep
  <2>11. ASSUME Continues(r, r, new)
         PROVE  Known(new) /\ ~Creating(new) /\ (calm => CalmKnown(new))
    <3>1. /\ new.me = r.me /\ new.user = r.user /\ new.org = r.org /\ new.admin = r.admin
          /\ new.invite = r.invite /\ new.role = r.role /\ new.left = r.left
      BY <2>11 DEF Continues, AnyRequest
    <3>2. new.op = "deleteMe" /\ Left(new) = 1 /\ ~Dropping(new) /\ Placed(new) /\ r.op = "deleteMe"
      BY <1>3, <2>11 DEF Continues
    <3>3. Known(new) /\ ~Creating(new)
      BY <1>2, <1>3, <3>1, <3>2 DEF Known, Joins, Entitled, Creating, HasRoleInHand
    <3>4. calm => CalmKnown(new)
      BY <1>2, <1>3, <3>1, <3>2 DEF CalmKnown, Joins, Leaving, Spares
    <3> QED BY <3>3, <3>4
  <2>12. Known(new) /\ ~Creating(new) /\ (calm => CalmKnown(new))
    BY <2>10, <2>11
  <2> QED BY <1>1, <1>2, <1>3, <2>6, <2>8, <2>9, <2>10, <2>12, AlikeWrite
<1> QED BY <1>2, <1>4, <1>5 DEF SaveMe

\* A role that is changed stays that of the user in the organisation.
LEMMA RoleWritten ==
  ASSUME BaseInv, NEW i \in DOMAIN roles, NEW doc \in AnyRole,
         doc.user = roles[i].user, doc.org = roles[i].org, roles' = [roles EXCEPT ![i] = doc],
         users' = users, orgs' = orgs, invites' = invites
  PROVE  /\ DocsInv' /\ DOMAIN roles' = DOMAIN roles
         /\ \A x \in DOMAIN roles : roles'[x] = IF x = i THEN doc ELSE roles[x]
         /\ \A x \in DOMAIN roles : roles'[x].user = roles[x].user /\ roles'[x].org = roles[x].org
         /\ \A o : Founded(o)' <=> Founded(o)
<1>1. /\ users \in Seq(AnyUser) /\ orgs \in Seq(AnyOrg)
      /\ roles \in Seq(AnyRole) /\ invites \in Seq(AnyInvite)
      /\ \A x \in DOMAIN roles : roles[x].user \in DOMAIN users /\ roles[x].org \in DOMAIN orgs
      /\ \A j \in DOMAIN invites : invites[j].org \in DOMAIN orgs /\ Founded(invites[j].org)
  BY DEF BaseInv, DocsInv
<1>2. /\ [roles EXCEPT ![i] = doc] \in Seq(AnyRole) /\ DOMAIN [roles EXCEPT ![i] = doc] = DOMAIN roles
      /\ \A x \in DOMAIN roles : [roles EXCEPT ![i] = doc][x] = IF x = i THEN doc ELSE roles[x]
  BY <1>1, PatchIs
<1>3. roles' \in Seq(AnyRole) /\ DOMAIN roles' = DOMAIN roles
  BY <1>2
<1>4. \A x \in DOMAIN roles : roles'[x] = IF x = i THEN doc ELSE roles[x]
  BY <1>2
<1>5. \A x \in DOMAIN roles : roles'[x].user = roles[x].user /\ roles'[x].org = roles[x].org
  BY <1>4
<1>6. \A o : Founded(o)' <=> Founded(o)
  BY <1>3, <1>5 DEF Founded
<1>7. \A j \in DOMAIN invites' : invites'[j].org \in DOMAIN orgs'
                                 /\ \E x \in DOMAIN roles' : roles'[x].org = invites'[j].org
  BY <1>1, <1>3, <1>5 DEF Founded
<1>8. DocsInv'
  BY <1>1, <1>3, <1>5, <1>7 DEF DocsInv, Founded
<1> QED BY <1>3, <1>4, <1>5, <1>6, <1>8

\* Nobody gets a role by that.
LEMMA FewerRoles ==
  ASSUME BaseInv, users' = users, orgs' = orgs, DOMAIN roles' = DOMAIN roles,
         \A x \in DOMAIN roles : /\ roles'[x].user = roles[x].user /\ roles'[x].org = roles[x].org
                                 /\ ~roles'[x].deleted => ~roles[x].deleted,
         NEW r \in AnyRequest, CalmKnown(r),
         r.op = "transfer" /\ Left(r) = 1 => roles'[r.role] = roles[r.role],
         HasRoleInHand(r) => r.role \in DOMAIN roles
  PROVE  CalmKnown(r)'
<1>1. LiveUser' = LiveUser /\ LiveOrg' = LiveOrg
  BY DEF LiveUser, LiveOrg
<1>2. \A u, o : HasRole(u, o)' => HasRole(u, o)
  BY DEF HasRole
<1>3. r.op = "deleteMe" /\ Left(r) = 4 /\ ~Dropping(r) =>
        \A x \in DOMAIN roles' : roles'[x].user = r.me /\ ~roles'[x].deleted => roles'[x].org \in r.left
  BY DEF CalmKnown
<1>4. Leaving(r) =>
       /\ \A o \in LiveOrg : orgs[o].owner # r.me
       /\ \A x \in DOMAIN roles' :
            roles'[x].user = r.me /\ ~roles'[x].deleted /\ roles'[x].org \in LiveOrg =>
              \/ Left(r) >= 3 /\ roles'[x].org \in r.left
              \/ Dropping(r) /\ x = r.role
  BY DEF CalmKnown
<1>5. r.op = "transfer" /\ Left(r) = 1 => roles'[r.role].admin /\ ~roles'[r.role].deleted
  BY DEF CalmKnown
<1> QED BY <1>1, <1>2, <1>3, <1>4, <1>5 DEF CalmKnown

LEMMA LastAwait == ASSUME NEW r \in AnyRequest, Left(r) >= 1 PROVE r.todo # <<>>
<1>1. ASSUME r.todo = <<>> PROVE FALSE
  <2>1. Len(r.todo) = 0
    BY <1>1
  <2> QED BY <2>1 DEF Left
<1> QED BY <1>1

LEMMA IdleCalm == CalmKnown(Idle)'
<1>1. ~Dropping(Idle) /\ Placed(Idle) /\ Left(Idle) = 0
  BY IdleType DEF Dropping, Placed, Left
<1>2. Idle.op = "none"
  BY DEF Idle
<1>3. ~Joins(Idle) /\ ~Spares(Idle) /\ ~Leaving(Idle)
  BY <1>2 DEF Joins, Spares, Leaving
<1> QED BY <1>2, <1>3 DEF CalmKnown

LEMMA SaveRoleStep ==
  ASSUME BaseInv, CalmInv, NEW q \in Request, SaveRole(q) PROVE BaseInv' /\ CalmInv'
<1>1. /\ At(q, "saveRole") \/ At(q, "dropRole")
      /\ Running(q) /\ Goes(q, <<>>)
      /\ users' = users /\ orgs' = orgs /\ invites' = invites /\ calm' = calm
  BY DEF SaveRole, At
<1>2. PICK r \in AnyRequest :
        /\ r = req[q] /\ Known(r) /\ Placed(r) /\ r.op # "none" /\ r.todo # <<>>
        /\ calm => CalmKnown(r)
  BY <1>1, AtStep
<1>3. PICK role : role = r.role
  OBVIOUS
<1>4. \/ r.op = "permit" /\ Left(r) = 1 /\ ~Dropping(r)
      \/ r.op \in {"remove", "leave"} /\ Left(r) = 1 /\ ~Dropping(r)
      \/ Dropping(r)
  BY <1>1, <1>2, At_saveRole, At_dropRole DEF At
<1>5. /\ role \in DOMAIN roles
      /\ \/ HasRoleInHand(r) /\ roles[role].user = r.user /\ roles[role].org = r.org
         \/ Dropping(r) /\ roles[role].user = r.me
  BY <1>2, <1>3, <1>4 DEF Known, HasRoleInHand
<1>6. roles[role] \in AnyRole
  BY <1>5 DEF BaseInv, DocsInv
<1>7. PICK doc \in AnyRole :
        /\ doc.user = roles[role].user /\ doc.org = roles[role].org
        /\ roles' = [roles EXCEPT ![role] = doc]
        /\ ~doc.deleted => ~roles[role].deleted
        /\ Dropping(r) => doc.deleted
  <2>1. PICK old \in AnyRole : old = roles[role]
    BY <1>6
  <2>2. PICK a \in BOOLEAN : a = r.admin
    BY DEF AnyRequest
  <2>3. \/ roles' = [roles EXCEPT ![role] = [old EXCEPT !.admin = a]] /\ ~Dropping(r)
        \/ roles' = [roles EXCEPT ![role] = [old EXCEPT !.deleted = TRUE]]
    <3>1. CASE At(q, "saveRole") /\ roles' = [roles EXCEPT ![req[q].role].admin = req[q].admin]
      <4>1. ~Dropping(r)
        BY <1>2, <3>1, At_saveRole DEF At
      <4> QED BY <1>2, <1>3, <2>1, <2>2, <3>1, <4>1
    <3>2. CASE roles' = [roles EXCEPT ![req[q].role].deleted = TRUE]
      BY <1>2, <1>3, <2>1, <3>2
    <3> QED BY <3>1, <3>2 DEF SaveRole
  <2>4. /\ [old EXCEPT !.admin = a] \in AnyRole /\ [old EXCEPT !.admin = a].user = old.user
        /\ [old EXCEPT !.admin = a].org = old.org /\ [old EXCEPT !.admin = a].deleted = old.deleted
    BY DEF AnyRole
  <2>5. /\ [old EXCEPT !.deleted = TRUE] \in AnyRole /\ [old EXCEPT !.deleted = TRUE].user = old.user
        /\ [old EXCEPT !.deleted = TRUE].org = old.org /\ [old EXCEPT !.deleted = TRUE].deleted
    BY DEF AnyRole
  <2> QED BY <2>1, <2>3, <2>4, <2>5
<1>8. /\ DocsInv' /\ DOMAIN roles' = DOMAIN roles
      /\ \A x \in DOMAIN roles : roles'[x] = IF x = role THEN doc ELSE roles[x]
      /\ \A x \in DOMAIN roles : roles'[x].user = roles[x].user /\ roles'[x].org = roles[x].org
      /\ \A o : Founded(o)' <=> Founded(o)
  BY <1>1, <1>5, <1>7, RoleWritten
<1>9. ~Creating(r) /\ Left(r) # 2
  BY <1>4 DEF Creating, Dropping, Left
<1>10. PICK new \in AnyRequest :
         /\ req' = [req EXCEPT ![q] = new] /\ (Apart => Apart')
         /\ \/ Left(r) = 1 /\ new = Idle /\ Known(new) /\ CalmKnown(new) /\ ~Creating(new)
            \/ Continues(r, r, new)
  BY <1>1, <1>2, EndsStep
<1>11. Continues(r, r, new) =>
         /\ new.me = r.me /\ new.user = r.user /\ new.org = r.org /\ new.admin = r.admin
         /\ new.left = r.left
         /\ new.op = "deleteMe" /\ Left(new) = 3 /\ ~Dropping(new) /\ Placed(new)
         /\ Dropping(r) /\ r.op = "deleteMe"
  <2>1. ASSUME Continues(r, r, new)
        PROVE  /\ new.op = "deleteMe" /\ Left(new) = 3 /\ ~Dropping(new) /\ Placed(new)
               /\ Dropping(r) /\ r.op = "deleteMe"
    <3>1. Dropping(r)
      BY <1>4, <2>1 DEF Continues
    <3>2. Left(r) = 4 /\ r.op = "deleteMe"
      BY <3>1 DEF Dropping, Left
    <3> QED BY <2>1, <3>1, <3>2 DEF Continues, Dropping
  <2> QED BY <2>1 DEF Continues, AnyRequest
<1>12. Known(new) /\ ~Creating(new)
  <2>1. CASE Continues(r, r, new)
    BY <1>2, <1>11, <2>1 DEF Known, Joins, Entitled, Creating, HasRoleInHand
  <2> QED BY <1>10, <2>1
<1>13. \A p \in AnyRequest : Known(p) => Known(p)'
  <2>1. ASSUME NEW p \in AnyRequest, Known(p) PROVE Known(p)'
    <3>1. Creating(p) => ~Founded(p.org)
      BY <2>1 DEF Known
    <3> QED BY <1>1, <1>8, <2>1, <3>1, KnownGrows
  <2> QED BY <2>1
<1>14. BaseInv'
  <2>1. Known(new)' /\ \A p \in Request \ {q}, r2 \in AnyRequest : r2 = req[p] => Known(r2)'
    BY <1>12, <1>13 DEF BaseInv
  <2> QED BY <1>8, <1>10, <1>12, <2>1, Assemble
<1> SUFFICES ASSUME calm PROVE CalmInv'
  BY <1>1, <1>14, NotCalm
<1>15. Apart /\ Ruled /\ Resolved /\ OneRole /\ Knowledge /\ CalmKnown(r)
  BY <1>2 DEF CalmInv
<1>16. LiveUser' = LiveUser /\ LiveOrg' = LiveOrg
  BY <1>1 DEF LiveUser, LiveOrg
<1>17. Apart'
  BY <1>10, <1>15
<1>18. \A x \in DOMAIN roles : ~roles'[x].deleted => ~roles[x].deleted
  BY <1>7, <1>8
<1>19. Resolved' /\ OneRole'
  BY <1>8, <1>15, <1>16, <1>18 DEF Resolved, OneRole
<1>20. ASSUME NEW o \in LiveOrg, orgs[o].owner \in LiveUser, Rules(orgs[o].owner, o)
       PROVE  Rules(orgs[o].owner, o)'
  <2>1. PICK y \in DOMAIN roles :
          roles[y].user = orgs[o].owner /\ roles[y].org = o /\ ~roles[y].deleted /\ roles[y].admin
    BY <1>20 DEF Rules
  <2>2. y # role
    <3>1. CASE HasRoleInHand(r) /\ roles[role].user = r.user /\ roles[role].org = r.org
      <4>1. Spares(r)
        BY <1>4, <3>1 DEF Spares, HasRoleInHand, Dropping
      <4>2. orgs[r.org].owner # r.user
        BY <1>15, <4>1 DEF CalmKnown
      <4> QED BY <2>1, <3>1, <4>2
    <3>2. CASE Dropping(r) /\ roles[role].user = r.me
      <4>1. Leaving(r)
        BY <3>2 DEF Leaving, Dropping
      <4>2. orgs[o].owner # r.me
        BY <1>15, <1>20, <4>1 DEF CalmKnown
      <4> QED BY <2>1, <3>2, <4>2
    <3> QED BY <1>5, <3>1, <3>2
  <2>3. roles'[y] = roles[y] /\ y \in DOMAIN roles'
    BY <1>8, <2>1, <2>2
  <2> QED BY <1>1, <2>1, <2>3 DEF Rules
<1>21. \A p \in Request : Creating(req[p]) => req'[p] = req[p]
  BY <1>2, <1>9, <1>10 DEF BaseInv
<1>22. Ruled'
  <2>1. ASSUME NEW o \in LiveOrg, ~\E p \in Request : Creating(req'[p]) /\ req'[p].org = o
        PROVE  orgs'[o].owner \in LiveUser' /\ Rules(orgs[o].owner, o)'
    <3>1. orgs[o].owner \in LiveUser /\ Rules(orgs[o].owner, o)
      BY <1>15, <1>21, <2>1 DEF Ruled
    <3> QED BY <1>1, <1>16, <1>20, <3>1
  <2> QED BY <1>16, <2>1 DEF Ruled
<1>23. ASSUME NEW p \in Request \ {q}, NEW r2 \in AnyRequest, r2 = req[p] PROVE CalmKnown(r2)'
  <2>1. CalmKnown(r2) /\ Known(r2)
    BY <1>15, <1>23 DEF Knowledge, BaseInv
  <2>2. HasRoleInHand(r2) => r2.role \in DOMAIN roles
    BY <2>1 DEF Known
  <2>3. ASSUME r2.op = "transfer", Left(r2) = 1 PROVE FALSE
    <3>1. r2.todo # <<>>
      BY <2>3, LastAwait
    <3>2. Running(p)
      BY <1>23, <3>1 DEF Running
    <3>3. Conflict(r2.op, r.op)
      BY <1>4, <2>3 DEF Conflict, Dropping
    <3> QED BY <1>1, <1>2, <1>15, <1>23, <3>2, <3>3, Excludes
  <2> QED BY <1>1, <1>8, <1>18, <2>1, <2>2, <2>3, FewerRoles
<1>24. CalmKnown(new)'
  <2>1. CASE new = Idle
    BY <2>1, IdleCalm
  <2>2. CASE Continues(r, r, new)
    <3>1. /\ \A o \in LiveOrg : orgs[o].owner # r.me
          /\ \A x \in DOMAIN roles :
               roles[x].user = r.me /\ ~roles[x].deleted /\ roles[x].org \in LiveOrg =>
                 roles[x].org \in r.left \/ x = role
      BY <1>3, <1>11, <1>15, <2>2 DEF CalmKnown, Leaving
    <3>2. \A x \in DOMAIN roles' :
            roles'[x].user = r.me /\ ~roles'[x].deleted /\ roles'[x].org \in LiveOrg => roles'[x].org \in r.left
      BY <1>7, <1>8, <1>11, <1>18, <2>2, <3>1
    <3> QED BY <1>1, <1>11, <1>16, <2>2, <3>1, <3>2 DEF CalmKnown, Joins, Leaving, Spares
  <2> QED BY <1>10, <2>1, <2>2
<1> QED BY <1>10, <1>17, <1>19, <1>22, <1>23, <1>24, AssembleCalm

\* Who serves a request has something to do.
LEMMA NoneLeft ==
  ASSUME NEW r \in AnyRequest, Placed(r), r.op \in DOMAIN Handler PROVE Left(r) >= 1
<1>1. CASE Dropping(r)
  BY <1>1 DEF Dropping, Left
<1>2. r.op # "none"
  BY OpsAre
<1> QED BY <1>1, <1>2 DEF Placed

LEMMA DropMeStep ==
  ASSUME BaseInv, CalmInv, NEW q \in Request, DropMe(q) PROVE BaseInv' /\ CalmInv'
<1>1. /\ At(q, "dropMe") /\ Running(q) /\ Goes(q, <<>>)
      /\ orgs' = orgs /\ roles' = roles /\ invites' = invites /\ calm' = calm
  BY DEF DropMe, At
<1>2. PICK r \in AnyRequest :
        /\ r = req[q] /\ Known(r) /\ Placed(r) /\ r.op # "none" /\ r.todo # <<>>
        /\ calm => CalmKnown(r)
  BY <1>1, AtStep
<1>3. r.op = "deleteMe" /\ Left(r) = 1 /\ ~Dropping(r) /\ ~Creating(r)
  BY <1>1, <1>2, At_dropMe DEF At, Creating
<1>4. PICK me : me = r.me
  OBVIOUS
<1>5. me \in DOMAIN users
  BY <1>2, <1>3, <1>4 DEF Known
<1>6. /\ users \in Seq(AnyUser) /\ orgs \in Seq(AnyOrg)
      /\ roles \in Seq(AnyRole) /\ invites \in Seq(AnyInvite)
      /\ \A x \in DOMAIN roles : roles[x].user \in DOMAIN users /\ roles[x].org \in DOMAIN orgs
      /\ \A j \in DOMAIN invites : invites[j].org \in DOMAIN orgs /\ Founded(invites[j].org)
  BY DEF BaseInv, DocsInv
<1>7. PICK doc : doc = [users[me] EXCEPT !.deleted = TRUE]
  OBVIOUS
<1>8. doc \in AnyUser /\ doc.deleted
  <2>1. \A d \in AnyUser : [d EXCEPT !.deleted = TRUE] \in AnyUser /\ [d EXCEPT !.deleted = TRUE].deleted
    BY DEF AnyUser
  <2> QED BY <1>5, <1>6, <1>7, <2>1
<1>9. users' = [users EXCEPT ![me] = doc]
  BY <1>2, <1>4, <1>7 DEF DropMe
<1>10. /\ [users EXCEPT ![me] = doc] \in Seq(AnyUser) /\ DOMAIN [users EXCEPT ![me] = doc] = DOMAIN users
       /\ \A u \in DOMAIN users : [users EXCEPT ![me] = doc][u] = IF u = me THEN doc ELSE users[u]
  BY <1>6, <1>8, PatchIs
<1>11. users' \in Seq(AnyUser) /\ DOMAIN users' = DOMAIN users
  BY <1>9, <1>10
<1>12. \A u \in DOMAIN users : users'[u] = IF u = me THEN doc ELSE users[u]
  BY <1>9, <1>10
<1>13. LiveUser' = LiveUser \ {me} /\ LiveOrg' = LiveOrg
  <2>1. LiveUser' = LiveUser \ {me}
    BY <1>5, <1>8, <1>11, <1>12 DEF LiveUser
  <2> QED BY <1>1, <2>1 DEF LiveOrg
<1>14. DocsInv'
  BY <1>1, <1>6, <1>11 DEF DocsInv, Founded
<1>15. \A o : Founded(o)' <=> Founded(o)
  BY <1>1 DEF Founded
<1>16. PICK new \in AnyRequest :
         /\ req' = [req EXCEPT ![q] = new] /\ (Apart => Apart')
         /\ Known(new) /\ new = Idle /\ ~Creating(new)
  BY <1>1, <1>2, <1>3, EndsStep DEF Continues
<1>17. \A p \in AnyRequest : Known(p) => Known(p)'
  <2>1. ASSUME NEW p \in AnyRequest, Known(p) PROVE Known(p)'
    <3>1. Creating(p) => ~Founded(p.org)
      BY <2>1 DEF Known
    <3> QED BY <1>1, <1>11, <1>15, <2>1, <3>1, KnownGrows
  <2> QED BY <2>1
<1>18. BaseInv'
  <2>1. Known(new)' /\ \A p \in Request \ {q}, r2 \in AnyRequest : r2 = req[p] => Known(r2)'
    BY <1>16, <1>17 DEF BaseInv
  <2> QED BY <1>14, <1>16, <2>1, Assemble
<1> SUFFICES ASSUME calm PROVE CalmInv'
  BY <1>1, <1>18, NotCalm
<1>19. Apart /\ Ruled /\ Resolved /\ OneRole /\ Knowledge /\ CalmKnown(r)
  BY <1>2 DEF CalmInv
<1>20. Leaving(r)
  BY <1>3 DEF Leaving
<1>21. /\ \A o \in LiveOrg : orgs[o].owner # me
       /\ \A x \in DOMAIN roles : ~(roles[x].user = me /\ ~roles[x].deleted /\ roles[x].org \in LiveOrg)
  BY <1>3, <1>4, <1>19, <1>20 DEF CalmKnown
<1>22. Resolved' /\ OneRole'
  BY <1>1, <1>13, <1>19, <1>21 DEF Resolved, OneRole
<1>23. \A p \in Request : Creating(req[p]) => req'[p] = req[p]
  BY <1>2, <1>3, <1>16 DEF BaseInv
<1>24. Ruled'
  <2>1. ASSUME NEW o \in LiveOrg, ~\E p \in Request : Creating(req'[p]) /\ req'[p].org = o
        PROVE  orgs'[o].owner \in LiveUser' /\ Rules(orgs[o].owner, o)'
    <3>1. orgs[o].owner \in LiveUser /\ Rules(orgs[o].owner, o)
      BY <1>19, <1>23, <2>1 DEF Ruled
    <3>2. Rules(orgs[o].owner, o)'
      BY <1>1, <3>1 DEF Rules
    <3> QED BY <1>1, <1>13, <1>21, <3>1, <3>2
  <2> QED BY <1>1, <1>13, <2>1 DEF Ruled, Rules
<1>25. ASSUME NEW p \in Request \ {q}, NEW r2 \in AnyRequest, r2 = req[p] PROVE CalmKnown(r2)'
  <2>1. CalmKnown(r2) /\ Known(r2)
    BY <1>19, <1>25 DEF Knowledge, BaseInv
  <2>2. ASSUME r2.op \in {"add", "accept", "createOrg", "signUp"}, Left(r2) >= 1 PROVE FALSE
    <3>1. r2.todo # <<>>
      BY <2>2, LastAwait
    <3>2. Running(p)
      BY <1>25, <3>1 DEF Running
    <3>3. Conflict(r2.op, r.op)
      BY <1>3, <2>2 DEF Conflict
    <3> QED BY <1>1, <1>2, <1>19, <1>25, <3>2, <3>3, Excludes
  <2>3. r2.op \in DOMAIN Handler => Left(r2) >= 1
    BY <2>1, NoneLeft DEF Known
  <2>4. r2.op \notin {"add", "accept", "createOrg", "signUp"}
    BY <2>2, <2>3, OpsAre
  <2>5. \A u, o : HasRole(u, o)' <=> HasRole(u, o)
    BY <1>1 DEF HasRole
  <2> QED BY <1>1, <1>13, <2>1, <2>4, <2>5 DEF CalmKnown, Joins
<1>26. CalmKnown(new)'
  BY <1>16, IdleCalm
<1> QED BY <1>16, <1>19, <1>22, <1>24, <1>25, <1>26, AssembleCalm

LEMMA SaveOrgStep ==
  ASSUME BaseInv, CalmInv, NEW q \in Request, SaveOrg(q) PROVE BaseInv' /\ CalmInv'
<1>1. /\ At(q, "saveOrg") /\ Running(q) /\ Goes(q, <<>>)
      /\ users' = users /\ roles' = roles /\ invites' = invites /\ calm' = calm
  BY DEF SaveOrg, At
<1>2. PICK r \in AnyRequest :
        /\ r = req[q] /\ Known(r) /\ Placed(r) /\ r.op # "none" /\ r.todo # <<>>
        /\ calm => CalmKnown(r)
  BY <1>1, AtStep
<1>3. r.op \in {"transfer", "rename", "deleteOrg"} /\ Left(r) = 1 /\ ~Dropping(r) /\ ~Creating(r)
  BY <1>1, <1>2, At_saveOrg DEF At, Creating
<1>4. PICK org : org = r.org
  OBVIOUS
<1>5. /\ users \in Seq(AnyUser) /\ orgs \in Seq(AnyOrg)
      /\ roles \in Seq(AnyRole) /\ invites \in Seq(AnyInvite)
      /\ \A x \in DOMAIN roles : roles[x].user \in DOMAIN users /\ roles[x].org \in DOMAIN orgs
      /\ \A j \in DOMAIN invites : invites[j].org \in DOMAIN orgs /\ Founded(invites[j].org)
  BY DEF BaseInv, DocsInv
<1>6. org \in DOMAIN orgs
  BY <1>2, <1>3, <1>4 DEF Known
<1>7. r.op = "transfer" =>
        /\ r.role \in DOMAIN roles /\ roles[r.role].user = r.user /\ roles[r.role].org = org
        /\ r.user \in DOMAIN users /\ r.user \in Nat
  BY <1>2, <1>3, <1>4, <1>5 DEF Known, HasRoleInHand
<1>8. PICK old \in AnyOrg : old = orgs[org]
  BY <1>5, <1>6
<1>9. PICK doc \in AnyOrg :
        /\ orgs' = [orgs EXCEPT ![org] = doc]
        /\ doc.owner = IF r.op = "transfer" THEN r.user ELSE old.owner
        /\ ~doc.deleted => ~old.deleted
  <2>1. orgs' = [orgs EXCEPT ![org] = SavedOrg(q)]
    BY <1>2, <1>4 DEF SaveOrg
  <2>2. SavedOrg(q) = CASE r.op = "transfer" -> [old EXCEPT !.owner = r.user]
                        [] r.op = "deleteOrg" -> [old EXCEPT !.deleted = TRUE]
                        [] OTHER -> old
    BY <1>2, <1>4, <1>8 DEF SavedOrg
  <2>3. CASE r.op = "transfer"
    <3>1. SavedOrg(q) = [old EXCEPT !.owner = r.user]
      BY <2>2, <2>3
    <3>2. PICK u \in Nat : u = r.user
      BY <1>7, <2>3
    <3>3. /\ [old EXCEPT !.owner = u] \in AnyOrg /\ [old EXCEPT !.owner = u].owner = u
          /\ [old EXCEPT !.owner = u].deleted = old.deleted
      BY DEF AnyOrg
    <3> QED BY <2>1, <2>3, <3>1, <3>2, <3>3
  <2>4. CASE r.op = "deleteOrg"
    <3>1. SavedOrg(q) = [old EXCEPT !.deleted = TRUE]
      BY <2>2, <2>4
    <3>2. /\ [old EXCEPT !.deleted = TRUE] \in AnyOrg /\ [old EXCEPT !.deleted = TRUE].owner = old.owner
          /\ [old EXCEPT !.deleted = TRUE].deleted
      BY DEF AnyOrg
    <3> QED BY <2>1, <2>4, <3>1, <3>2
  <2>5. CASE r.op = "rename"
    <3>1. SavedOrg(q) = old
      BY <2>2, <2>5
    <3> QED BY <2>1, <2>5, <3>1
  <2> QED BY <1>3, <2>3, <2>4, <2>5
<1>10. /\ [orgs EXCEPT ![org] = doc] \in Seq(AnyOrg) /\ DOMAIN [orgs EXCEPT ![org] = doc] = DOMAIN orgs
       /\ \A o \in DOMAIN orgs : [orgs EXCEPT ![org] = doc][o] = IF o = org THEN doc ELSE orgs[o]
  BY <1>5, <1>9, PatchIs
<1>11. orgs' \in Seq(AnyOrg) /\ DOMAIN orgs' = DOMAIN orgs
  BY <1>9, <1>10
<1>12. \A o \in DOMAIN orgs : orgs'[o] = IF o = org THEN doc ELSE orgs[o]
  BY <1>9, <1>10
<1>13. DocsInv'
  BY <1>1, <1>5, <1>11 DEF DocsInv, Founded
<1>14. \A o : Founded(o)' <=> Founded(o)
  BY <1>1 DEF Founded
<1>15. \A o \in DOMAIN orgs : o # org \/ r.op # "transfer" => orgs'[o].owner = orgs[o].owner
  BY <1>8, <1>9, <1>12
<1>16. PICK new \in AnyRequest :
         /\ req' = [req EXCEPT ![q] = new] /\ (Apart => Apart')
         /\ Known(new) /\ new = Idle /\ ~Creating(new)
  BY <1>1, <1>2, <1>3, EndsStep DEF Continues
<1>17. r.op = "transfer" => Founded(org)
  BY <1>7 DEF Founded
<1>18. \A p \in AnyRequest : Known(p) => Known(p)'
  <2>1. ASSUME NEW p \in AnyRequest, Known(p) PROVE Known(p)'
    <3>1. Creating(p) => ~Founded(p.org) /\ p.org \in DOMAIN orgs
      BY <2>1 DEF Known
    <3>2. Creating(p) => orgs'[p.org].owner = orgs[p.org].owner
      BY <1>15, <1>17, <3>1
    <3> QED BY <1>1, <1>11, <1>14, <2>1, <3>1, <3>2, KnownGrows
  <2> QED BY <2>1
<1>19. BaseInv'
  <2>1. Known(new)' /\ \A p \in Request \ {q}, r2 \in AnyRequest : r2 = req[p] => Known(r2)'
    BY <1>16, <1>18 DEF BaseInv
  <2> QED BY <1>13, <1>16, <2>1, Assemble
<1> SUFFICES ASSUME calm PROVE CalmInv'
  BY <1>1, <1>19, NotCalm
<1>20. Apart /\ Ruled /\ Resolved /\ OneRole /\ Knowledge /\ CalmKnown(r)
  BY <1>2 DEF CalmInv
<1>21. LiveUser' = LiveUser /\ LiveOrg' \subseteq LiveOrg
  BY <1>1, <1>8, <1>9, <1>11, <1>12 DEF LiveUser, LiveOrg
<1>22. Resolved' /\ OneRole'
  BY <1>1, <1>20, <1>21 DEF Resolved, OneRole
<1>23. \A p \in Request : Creating(req[p]) => req'[p] = req[p]
  BY <1>2, <1>3, <1>16 DEF BaseInv
<1>24. ASSUME NEW o \in LiveOrg', ~\E p \in Request : Creating(req'[p]) /\ req'[p].org = o
       PROVE  orgs'[o].owner \in LiveUser /\ Rules(orgs'[o].owner, o)
  <2>1. o \in LiveOrg /\ o \in DOMAIN orgs
    BY <1>21, <1>24 DEF LiveOrg
  <2>2. orgs[o].owner \in LiveUser /\ Rules(orgs[o].owner, o)
    BY <1>20, <1>23, <1>24, <2>1 DEF Ruled
  <2>3. CASE o # org \/ r.op # "transfer"
    BY <1>15, <2>1, <2>2, <2>3
  <2>4. CASE o = org /\ r.op = "transfer"
    <3>1. orgs'[o].owner = r.user
      BY <1>9, <1>12, <2>1, <2>4
    <3>2. roles[r.role].admin /\ ~roles[r.role].deleted
      BY <1>3, <1>20, <2>4 DEF CalmKnown
    <3>3. Rules(r.user, o)
      BY <1>7, <2>4, <3>2 DEF Rules
    <3>4. r.user \in LiveUser
      BY <1>7, <1>20, <2>1, <2>4, <3>2 DEF Resolved
    <3> QED BY <3>1, <3>3, <3>4
  <2> QED BY <2>3, <2>4
<1>25. Ruled'
  <2>1. \A u, o : Rules(u, o)' <=> Rules(u, o)
    BY <1>1 DEF Rules
  <2>2. ASSUME NEW o \in LiveOrg', ~\E p \in Request : Creating(req'[p]) /\ req'[p].org = o
        PROVE  orgs'[o].owner \in LiveUser' /\ \E x \in DOMAIN roles' :
                 roles'[x].user = orgs'[o].owner /\ roles'[x].org = o /\ ~roles'[x].deleted /\ roles'[x].admin
    BY <1>1, <1>21, <1>24, <2>2 DEF Rules
  <2> QED BY <2>2 DEF Ruled, Rules
<1>26. ASSUME NEW p \in Request \ {q}, NEW r2 \in AnyRequest, r2 = req[p] PROVE CalmKnown(r2)'
  <2>1. CalmKnown(r2) /\ Known(r2)
    BY <1>20, <1>26 DEF Knowledge, BaseInv
  <2>2. ASSUME r.op = "transfer", r2.op \in {"permit", "remove", "leave", "deleteMe"}, Left(r2) >= 1
        PROVE  FALSE
    <3>1. r2.todo # <<>>
      BY <2>2, LastAwait
    <3>2. Running(p)
      BY <1>26, <3>1 DEF Running
    <3>3. Conflict(r.op, r2.op)
      BY <2>2 DEF Conflict
    <3> QED BY <1>1, <1>2, <1>20, <1>26, <3>2, <3>3, Excludes
  <2>3. r2.op \in DOMAIN Handler => Left(r2) >= 1
    BY <2>1, NoneLeft DEF Known
  <2>4. Spares(r2) => orgs'[r2.org].owner # r2.user
    <3>1. ASSUME Spares(r2) PROVE r.op # "transfer" /\ r2.org \in DOMAIN orgs
      BY <2>1, <2>2, <2>3, <3>1, OpsAre DEF Spares, Known
    <3>2. Spares(r2) => orgs[r2.org].owner # r2.user
      BY <2>1 DEF CalmKnown
    <3> QED BY <1>15, <3>1, <3>2
  <2>5. Leaving(r2) => \A o \in LiveOrg' : orgs'[o].owner # r2.me
    <3>1. Leaving(r2) => r.op # "transfer"
      BY <2>2, <2>3, OpsAre DEF Leaving
    <3>2. Leaving(r2) => \A o \in LiveOrg : orgs[o].owner # r2.me
      BY <2>1 DEF CalmKnown
    <3>3. \A o \in LiveOrg' : o \in LiveOrg /\ o \in DOMAIN orgs
      BY <1>21 DEF LiveOrg
    <3> QED BY <1>15, <3>1, <3>2, <3>3
  <2>6. \A u, o : HasRole(u, o)' <=> HasRole(u, o)
    BY <1>1 DEF HasRole
  <2> QED BY <1>1, <1>21, <2>1, <2>4, <2>5, <2>6 DEF CalmKnown
<1>27. CalmKnown(new)'
  BY <1>16, IdleCalm
<1> QED BY <1>16, <1>20, <1>22, <1>25, <1>26, <1>27, AssembleCalm

LEMMA KnowingUser ==
  ASSUME NEW r \in AnyRequest, NEW x, NEW y, NEW m, m = [user |-> x, me |-> y],
         NEW now, now = [r EXCEPT !.user = x, !.me = y]
  PROVE  now = Knowing(r, m)
<1>1. DOMAIN m = {"user", "me"} /\ m.user = x /\ m.me = y
  OBVIOUS
<1>2. Knowing(r, m) = [f \in DOMAIN r |-> IF f = "user" THEN x ELSE IF f = "me" THEN y ELSE r[f]]
  BY <1>1 DEF Knowing
<1>3. now = [f \in DOMAIN r |-> IF f = "user" THEN x ELSE IF f = "me" THEN y ELSE r[f]]
  BY DEF AnyRequest
<1> QED BY <1>2, <1>3

\* A new user is in no organisation.
LEMMA SaveUserStep ==
  ASSUME BaseInv, CalmInv, NEW q \in Request, SaveUser(q) PROVE BaseInv' /\ CalmInv'
<1>1. /\ At(q, "saveUser") /\ Running(q)
      /\ orgs' = orgs /\ roles' = roles /\ invites' = invites /\ calm' = calm
  BY DEF SaveUser, At
<1>2. PICK r \in AnyRequest :
        /\ r = req[q] /\ Known(r) /\ Placed(r) /\ r.op # "none" /\ r.todo # <<>>
        /\ calm => CalmKnown(r)
  BY <1>1, AtStep
<1>3. /\ ~Dropping(r) /\ ~Creating(r)
      /\ \/ r.op = "add" /\ Left(r) = 2
         \/ r.op = "signUp" /\ Left(r) = 3
  <2>1. Head(r.todo) = "saveUser"
    BY <1>1, <1>2 DEF At
  <2>2. /\ ~Dropping(r)
        /\ \/ r.op = "add" /\ Left(r) = 2
           \/ r.op = "signUp" /\ Left(r) = 3
    BY <1>2, <2>1, At_saveUser
  <2> QED BY <2>2 DEF Creating
<1>4. CASE Refuses(q) /\ users' = users
  <2>1. docs' = docs
    BY <1>1, <1>4 DEF docs
  <2> QED BY <1>1, <1>2, <1>3, <1>4, <2>1, RefuseStep
<1>5. CASE r.user # None /\ Goes(q, <<>>) /\ users' = users
  <2>1. docs' = docs
    BY <1>1, <1>5 DEF docs
  <2>2. r.op = "add" /\ Left(r) = 2
    BY <1>2, <1>3, <1>5 DEF Known
  <2>3. ASSUME NEW new \in AnyRequest, Continues(r, r, new),
               \A f \in DOMAIN r \ {"todo"} : new[f] = r[f]
        PROVE  Known(new) /\ ~Creating(new) /\ (calm' => CalmKnown(new))
    <3>1. /\ new.me = r.me /\ new.user = r.user /\ new.org = r.org /\ new.admin = r.admin
          /\ new.invite = r.invite /\ new.role = r.role /\ new.left = r.left
      BY <2>3 DEF AnyRequest
    <3>2. Known(new) /\ ~Creating(new)
      BY <1>2, <1>5, <2>2, <2>3, <3>1
         DEF Continues, Known, Joins, Entitled, Creating, HasRoleInHand
    <3>3. calm => CalmKnown(new)
      BY <1>2, <1>5, <2>2, <2>3, <3>1 DEF Continues, CalmKnown, Joins, Leaving, Spares
    <3> QED BY <1>1, <3>2, <3>3
  <2> QED BY <1>1, <1>2, <1>3, <1>5, <2>1, <2>3, PlainStep
<1>6. ASSUME r.user = None,
             users' = Insert(users, [email |-> r.email, manages |-> r.op = "signUp", deleted |-> FALSE]),
             Goes(q, [user |-> Len(users) + 1, me |-> IF r.op = "signUp" THEN Len(users) + 1 ELSE r.me])
      PROVE  BaseInv' /\ CalmInv'
  <2>1. /\ users \in Seq(AnyUser) /\ orgs \in Seq(AnyOrg)
        /\ roles \in Seq(AnyRole) /\ invites \in Seq(AnyInvite)
        /\ \A x \in DOMAIN roles : roles[x].user \in DOMAIN users /\ roles[x].org \in DOMAIN orgs
        /\ \A j \in DOMAIN invites : invites[j].org \in DOMAIN orgs /\ Founded(invites[j].org)
    BY DEF BaseInv, DocsInv
  <2>2. PICK doc : doc = [email |-> r.email, manages |-> r.op = "signUp", deleted |-> FALSE]
    OBVIOUS
  <2>3. doc \in AnyUser /\ ~doc.deleted
    BY <2>2 DEF AnyUser, AnyRequest
  <2>4. PICK n : n = Len(users) + 1
    OBVIOUS
  <2>5. users' = Insert(users, doc)
    BY <1>6, <2>2
  <2>6. /\ users' \in Seq(AnyUser) /\ n \in Nat /\ n \notin DOMAIN users
        /\ DOMAIN users' = DOMAIN users \cup {n}
        /\ \A u \in DOMAIN users : users'[u] = users[u]
        /\ users'[n] = doc
    <3>1. PICK to : to = Append(users, doc)
      OBVIOUS
    <3>2. users \in Seq(AnyUser) /\ doc \in AnyUser
      BY <2>1, <2>3
    <3>3. to \in Seq(AnyUser) /\ Len(to) = Len(users) + 1 /\ Len(users) \in Nat
      BY <3>1, <3>2
    <3>4. (\A j \in 1 .. Len(users) : to[j] = users[j]) /\ to[Len(users) + 1] = doc
      BY <3>1, <3>2
    <3>5. DOMAIN to = 1 .. Len(users) + 1 /\ DOMAIN users = 1 .. Len(users)
      BY <3>2, <3>3
    <3>6. n \in Nat /\ n \notin DOMAIN users /\ DOMAIN to = DOMAIN users \cup {n}
      BY <2>4, <3>3, <3>5
    <3>7. users' = to
      BY <2>5, <3>1 DEF Insert
    <3> QED BY <2>4, <3>3, <3>4, <3>5, <3>6, <3>7
  <2>7. LiveUser' = LiveUser \cup {n} /\ LiveOrg' = LiveOrg
    <3>1. LiveUser' = LiveUser \cup {n}
      BY <2>3, <2>6 DEF LiveUser
    <3> QED BY <1>1, <3>1 DEF LiveOrg
  <2>8. DocsInv'
    BY <1>1, <2>1, <2>6 DEF DocsInv, Founded
  <2>9. \A u, o : (HasRole(u, o)' <=> HasRole(u, o)) /\ (Founded(o)' <=> Founded(o))
    BY <1>1 DEF HasRole, Founded
  <2>10. \A o : ~HasRole(n, o)
    BY <2>1, <2>6 DEF HasRole
  <2>11. PICK me \in Ref : me = IF r.op = "signUp" THEN n ELSE r.me
    BY <2>6 DEF Ref, AnyRequest
  <2>12. PICK more : more = [user |-> n, me |-> me]
    OBVIOUS
  <2>13. PICK now : now = [r EXCEPT !.user = n, !.me = me]
    OBVIOUS
  <2>14. now = Knowing(r, more)
    BY <2>12, <2>13, KnowingUser
  <2>15. now \in AnyRequest /\ now.op = r.op /\ now.todo = r.todo
    BY <2>6, <2>13 DEF AnyRequest, Ref
  <2>16. Goes(q, more)
    BY <1>6, <2>4, <2>11, <2>12
  <2>17. PICK new \in AnyRequest :
           /\ req' = [req EXCEPT ![q] = new]
           /\ \/ Left(r) = 1 /\ new = Idle
              \/ Continues(r, now, new)
           /\ Apart => Apart'
    BY <1>1, <1>2, <2>14, <2>15, <2>16, GoesTo
  <2>18. Continues(r, now, new)
    BY <1>3, <2>17
  <2>19. /\ new.me = me /\ new.user = n /\ new.org = r.org /\ new.admin = r.admin
         /\ new.invite = r.invite /\ new.role = r.role /\ new.left = r.left
    BY <2>13, <2>18 DEF Continues, AnyRequest
  <2>20. /\ Placed(new) /\ ~Dropping(new)
         /\ \/ new.op = "add" /\ Left(new) = 1 /\ r.op = "add"
            \/ new.op = "signUp" /\ Left(new) = 2 /\ r.op = "signUp" /\ me = n
    BY <1>3, <2>11, <2>18 DEF Continues
  <2>21. ~Creating(new)
    BY <2>20 DEF Creating
  <2>22. n # None
    BY <2>6, MembershipAssumption
  <2>23. Known(new)'
    <3>1. me \in DOMAIN users' \cup {None}
      BY <1>2, <2>6, <2>11 DEF Known
    <3> QED BY <1>1, <1>2, <1>3, <2>6, <2>9, <2>19, <2>20, <2>22, <3>1
           DEF Known, Joins, Entitled, Creating, HasRoleInHand
  <2>24. \A p \in AnyRequest : Known(p) => Known(p)'
    <3>1. ASSUME NEW p \in AnyRequest, Known(p) PROVE Known(p)'
      <4>1. Creating(p) => ~Founded(p.org)
        BY <3>1 DEF Known
      <4> QED BY <1>1, <2>6, <2>9, <3>1, <4>1, KnownGrows
    <3> QED BY <3>1
  <2>25. BaseInv'
    <3>1. \A p \in Request \ {q}, r2 \in AnyRequest : r2 = req[p] => Known(r2)'
      BY <2>24 DEF BaseInv
    <3> QED BY <2>8, <2>17, <2>21, <2>23, <3>1, Assemble
  <2> SUFFICES ASSUME calm PROVE CalmInv'
    BY <1>1, <2>25, NotCalm
  <2>26. Apart /\ Ruled /\ Resolved /\ OneRole /\ Knowledge
    BY DEF CalmInv
  <2>27. Resolved' /\ OneRole'
    BY <1>1, <2>7, <2>26 DEF Resolved, OneRole
  <2>28. \A p \in Request : Creating(req[p]) => req'[p] = req[p]
    BY <1>2, <1>3, <2>17 DEF BaseInv
  <2>29. Ruled'
    <3>1. ASSUME NEW o \in LiveOrg, ~\E p \in Request : Creating(req'[p]) /\ req'[p].org = o
          PROVE  orgs'[o].owner \in LiveUser' /\ Rules(orgs[o].owner, o)'
      <4>1. orgs[o].owner \in LiveUser /\ Rules(orgs[o].owner, o)
        BY <2>26, <2>28, <3>1 DEF Ruled
      <4>2. Rules(orgs[o].owner, o)'
        BY <1>1, <4>1 DEF Rules
      <4> QED BY <1>1, <2>7, <4>1, <4>2
    <3> QED BY <1>1, <2>7, <3>1 DEF Ruled, Rules
  <2>30. ASSUME NEW p \in Request \ {q}, NEW r2 \in AnyRequest, r2 = req[p] PROVE CalmKnown(r2)'
    <3>1. CalmKnown(r2)
      BY <2>26, <2>30 DEF Knowledge
    <3> QED BY <1>1, <2>7, <2>9, <3>1 DEF CalmKnown
  <2>31. CalmKnown(new)'
    BY <1>1, <2>7, <2>9, <2>10, <2>19, <2>20 DEF CalmKnown, Joins, Leaving, Spares
  <2> QED BY <2>17, <2>26, <2>27, <2>29, <2>30, <2>31, AssembleCalm
<1> QED BY <1>2, <1>4, <1>5, <1>6 DEF SaveUser

\* A new organisation has its owner and no role yet.
LEMMA InsertOrgStep ==
  ASSUME BaseInv, CalmInv, NEW q \in Request, InsertOrg(q) PROVE BaseInv' /\ CalmInv'
<1>1. /\ At(q, "insertOrg") /\ Running(q)
      /\ users' = users /\ roles' = roles /\ invites' = invites /\ calm' = calm
  BY DEF InsertOrg, At
<1>2. PICK r \in AnyRequest :
        /\ r = req[q] /\ Known(r) /\ Placed(r) /\ r.op # "none" /\ r.todo # <<>>
        /\ calm => CalmKnown(r)
  BY <1>1, AtStep
<1>3. ~Dropping(r) /\ ~Creating(r) /\ r.op \in {"createOrg", "signUp"} /\ Left(r) = 2
  <2>1. Head(r.todo) = "insertOrg"
    BY <1>1, <1>2 DEF At
  <2>2. ~Dropping(r) /\ r.op \in {"createOrg", "signUp"} /\ Left(r) = 2
    BY <1>2, <2>1, At_insertOrg
  <2> QED BY <2>2 DEF Creating
<1>4. r.user # None /\ r.user = r.me /\ r.user \in DOMAIN users /\ r.me \in Nat
  <2>1. r.user # None /\ r.user = r.me /\ r.user \in DOMAIN users
    BY <1>2, <1>3 DEF Known, Joins
  <2> QED BY <2>1 DEF BaseInv, DocsInv
<1>5. /\ users \in Seq(AnyUser) /\ orgs \in Seq(AnyOrg)
      /\ roles \in Seq(AnyRole) /\ invites \in Seq(AnyInvite)
      /\ \A x \in DOMAIN roles : roles[x].user \in DOMAIN users /\ roles[x].org \in DOMAIN orgs
      /\ \A j \in DOMAIN invites : invites[j].org \in DOMAIN orgs /\ Founded(invites[j].org)
  BY DEF BaseInv, DocsInv
<1>6. PICK doc : doc = [owner |-> r.me, deleted |-> FALSE]
  OBVIOUS
<1>7. doc \in AnyOrg /\ ~doc.deleted /\ doc.owner = r.me
  BY <1>4, <1>6 DEF AnyOrg
<1>8. PICK n : n = Len(orgs) + 1
  OBVIOUS
<1>9. orgs' = Insert(orgs, doc) /\ Goes(q, [org |-> n])
  BY <1>2, <1>6, <1>8 DEF InsertOrg
<1>10. /\ orgs' \in Seq(AnyOrg) /\ n \in Nat /\ n \notin DOMAIN orgs
       /\ DOMAIN orgs' = DOMAIN orgs \cup {n}
       /\ \A o \in DOMAIN orgs : orgs'[o] = orgs[o]
       /\ orgs'[n] = doc
  <2>1. PICK to : to = Append(orgs, doc)
    OBVIOUS
  <2>2. orgs \in Seq(AnyOrg) /\ doc \in AnyOrg
    BY <1>5, <1>7
  <2>3. to \in Seq(AnyOrg) /\ Len(to) = Len(orgs) + 1 /\ Len(orgs) \in Nat
    BY <2>1, <2>2
  <2>4. (\A j \in 1 .. Len(orgs) : to[j] = orgs[j]) /\ to[Len(orgs) + 1] = doc
    BY <2>1, <2>2
  <2>5. DOMAIN to = 1 .. Len(orgs) + 1 /\ DOMAIN orgs = 1 .. Len(orgs)
    BY <2>2, <2>3
  <2>6. n \in Nat /\ n \notin DOMAIN orgs /\ DOMAIN to = DOMAIN orgs \cup {n}
    BY <1>8, <2>3, <2>5
  <2>7. orgs' = to
    BY <1>9, <2>1 DEF Insert
  <2> QED BY <1>8, <2>3, <2>4, <2>5, <2>6, <2>7
<1>11. LiveUser' = LiveUser /\ LiveOrg' = LiveOrg \cup {n}
  <2>1. LiveOrg' = LiveOrg \cup {n}
    BY <1>7, <1>10 DEF LiveOrg
  <2> QED BY <1>1, <2>1 DEF LiveUser
<1>12. DocsInv'
  <2>1. \A x \in DOMAIN roles' : roles'[x].user \in DOMAIN users' /\ roles'[x].org \in DOMAIN orgs'
    BY <1>1, <1>5, <1>10
  <2>2. \A j \in DOMAIN invites' : invites'[j].org \in DOMAIN orgs'
                                   /\ \E x \in DOMAIN roles' : roles'[x].org = invites'[j].org
    BY <1>1, <1>5, <1>10 DEF Founded
  <2> QED BY <1>1, <1>5, <1>10, <2>1, <2>2 DEF DocsInv, Founded
<1>13. \A u, o : (HasRole(u, o)' <=> HasRole(u, o)) /\ (Founded(o)' <=> Founded(o))
  BY <1>1 DEF HasRole, Founded
<1>14. ~Founded(n) /\ n # None
  <2>1. ~Founded(n)
    BY <1>5, <1>10 DEF Founded
  <2> QED BY <1>10, <2>1, MembershipAssumption
<1>15. PICK more : more = [org |-> n]
  OBVIOUS
<1>16. PICK now : now = [r EXCEPT !.org = n]
  OBVIOUS
<1>17. now = Knowing(r, more) /\ Goes(q, more)
  BY <1>9, <1>15, <1>16, KnowingIs
<1>18. now \in AnyRequest /\ now.op = r.op /\ now.todo = r.todo
  BY <1>10, <1>16 DEF AnyRequest, Ref
<1>19. PICK new \in AnyRequest :
         /\ req' = [req EXCEPT ![q] = new]
         /\ \/ Left(r) = 1 /\ new = Idle
            \/ Continues(r, now, new)
         /\ Apart => Apart'
  BY <1>1, <1>2, <1>17, <1>18, GoesTo
<1>20. Continues(r, now, new)
  BY <1>3, <1>19
<1>21. /\ new.me = r.me /\ new.user = r.user /\ new.org = n /\ new.admin = r.admin
       /\ new.invite = r.invite /\ new.role = r.role /\ new.left = r.left
  BY <1>16, <1>20 DEF Continues, AnyRequest
<1>22. Placed(new) /\ ~Dropping(new) /\ new.op = r.op /\ Left(new) = 1 /\ Creating(new)
  BY <1>3, <1>20 DEF Continues, Creating
<1>23. Known(new)'
  <2>1. orgs'[new.org].owner = new.user
    BY <1>4, <1>7, <1>10, <1>21
  <2> QED BY <1>1, <1>2, <1>3, <1>4, <1>10, <1>13, <1>14, <1>21, <1>22, <2>1
         DEF Known, Joins, Entitled, HasRoleInHand
<1>24. \A p \in AnyRequest : Known(p) => Known(p)' /\ p.org # n
  <2>1. ASSUME NEW p \in AnyRequest, Known(p) PROVE Known(p)' /\ p.org # n
    <3>1. p.org # n
      BY <1>10, <1>14, <2>1 DEF Known
    <3>2. Creating(p) => ~Founded(p.org) /\ p.org \in DOMAIN orgs
      BY <2>1 DEF Known
    <3> QED BY <1>1, <1>10, <1>13, <2>1, <3>1, <3>2, KnownGrows
  <2> QED BY <2>1
<1>25. BaseInv'
  <2>1. \A p \in Request \ {q}, r2 \in AnyRequest : r2 = req[p] => Known(r2)' /\ r2.org # n
    BY <1>24 DEF BaseInv
  <2>2. \A p \in Request \ {q} : Creating(req[p]) => req[p].org # new.org
    BY <1>21, <2>1 DEF BaseInv
  <2> QED BY <1>12, <1>19, <1>23, <2>1, <2>2, Assemble
<1> SUFFICES ASSUME calm PROVE CalmInv'
  BY <1>1, <1>25, NotCalm
<1>26. Apart /\ Ruled /\ Resolved /\ OneRole /\ Knowledge /\ CalmKnown(r)
  BY <1>2 DEF CalmInv
<1>27. Resolved' /\ OneRole'
  <2>1. \A x \in DOMAIN roles : roles[x].org # n
    BY <1>5, <1>10
  <2> QED BY <1>1, <1>11, <1>26, <2>1 DEF Resolved, OneRole
<1>28. \A p \in Request : Creating(req[p]) => req'[p] = req[p]
  BY <1>2, <1>3, <1>19 DEF BaseInv
<1>29. Ruled'
  <2>1. ASSUME NEW o \in LiveOrg', ~\E p \in Request : Creating(req'[p]) /\ req'[p].org = o
        PROVE  orgs'[o].owner \in LiveUser' /\ \E x \in DOMAIN roles' :
                 roles'[x].user = orgs'[o].owner /\ roles'[x].org = o /\ ~roles'[x].deleted /\ roles'[x].admin
    <3>1. o # n
      BY <1>19, <1>21, <1>22, <2>1 DEF BaseInv
    <3>2. o \in LiveOrg /\ o \in DOMAIN orgs
      BY <1>11, <2>1, <3>1 DEF LiveOrg
    <3>3. orgs[o].owner \in LiveUser /\ Rules(orgs[o].owner, o)
      BY <1>26, <1>28, <2>1, <3>2 DEF Ruled
    <3> QED BY <1>1, <1>10, <1>11, <3>2, <3>3 DEF Rules
  <2> QED BY <2>1 DEF Ruled, Rules
<1>30. ASSUME NEW p \in Request \ {q}, NEW r2 \in AnyRequest, r2 = req[p] PROVE CalmKnown(r2)'
  <2>1. CalmKnown(r2) /\ Known(r2)
    BY <1>26, <1>30 DEF Knowledge, BaseInv
  <2>2. ASSUME r2.op = "deleteMe" PROVE FALSE
    <3>1. r2.todo # <<>>
      BY <2>1, <2>2, NoneLeft, LastAwait, OpsAre DEF Known
    <3>2. Running(p)
      BY <1>30, <3>1 DEF Running
    <3>3. Conflict(r.op, r2.op)
      BY <1>3, <2>2 DEF Conflict
    <3> QED BY <1>1, <1>2, <1>26, <1>30, <3>2, <3>3, Excludes
  <2>3. ~Leaving(r2) /\ r2.op # "deleteMe"
    BY <2>2 DEF Leaving
  <2>4. Spares(r2) => orgs'[r2.org].owner # r2.user
    <3>1. Spares(r2) => r2.org \in DOMAIN orgs
      BY <2>1 DEF Spares, Known
    <3>2. Spares(r2) => orgs[r2.org].owner # r2.user
      BY <2>1 DEF CalmKnown
    <3> QED BY <1>10, <3>1, <3>2
  <2> QED BY <1>1, <1>11, <1>13, <2>1, <2>3, <2>4 DEF CalmKnown
<1>31. CalmKnown(new)'
  <2>1. r.user \in LiveUser
    BY <1>3, <1>26 DEF CalmKnown, Joins
  <2> QED BY <1>3, <1>11, <1>21, <1>22, <2>1 DEF CalmKnown, Leaving, Spares
<1> QED BY <1>19, <1>26, <1>27, <1>29, <1>30, <1>31, AssembleCalm

\* Whoever gets a role in an organisation has none there.
LEMMA LinkStep ==
  ASSUME BaseInv, CalmInv, NEW q \in Request, Link(q) PROVE BaseInv' /\ CalmInv'
<1>1. /\ At(q, "link") /\ Running(q) /\ Goes(q, <<>>)
      /\ users' = users /\ orgs' = orgs /\ invites' = invites /\ calm' = calm
  BY DEF Link, At
<1>2. PICK r \in AnyRequest :
        /\ r = req[q] /\ Known(r) /\ Placed(r) /\ r.op # "none" /\ r.todo # <<>>
        /\ calm => CalmKnown(r)
  BY <1>1, AtStep
<1>3. /\ ~Dropping(r)
      /\ \/ r.op = "add" /\ Left(r) = 1
         \/ r.op = "accept" /\ Left(r) = 2
         \/ r.op \in {"createOrg", "signUp"} /\ Left(r) = 1
  <2>1. Head(r.todo) = "link"
    BY <1>1, <1>2 DEF At
  <2> QED BY <1>2, <2>1, At_link
<1>4. Creating(r) <=> r.op \in {"createOrg", "signUp"}
  BY <1>3 DEF Creating
<1>5. /\ users \in Seq(AnyUser) /\ orgs \in Seq(AnyOrg)
      /\ roles \in Seq(AnyRole) /\ invites \in Seq(AnyInvite)
      /\ \A x \in DOMAIN roles : roles[x].user \in DOMAIN users /\ roles[x].org \in DOMAIN orgs
      /\ \A j \in DOMAIN invites : invites[j].org \in DOMAIN orgs /\ Founded(invites[j].org)
  BY DEF BaseInv, DocsInv
<1>6. /\ r.user \in DOMAIN users /\ r.org \in DOMAIN orgs
      /\ ~Creating(r) => Founded(r.org)
      /\ Creating(r) => ~Founded(r.org) /\ orgs[r.org].owner = r.user /\ r.admin
  <2>1. r.user \in DOMAIN users
    BY <1>2, <1>3 DEF Known, Joins
  <2>2. ~Creating(r) => Entitled(r)
    BY <1>3, <1>4 DEF Entitled
  <2>3. r.org \in DOMAIN orgs
    BY <1>2, <2>2 DEF Known
  <2> QED BY <1>2, <1>4, <2>1, <2>2, <2>3 DEF Known
<1>7. PICK user \in Nat, org \in Nat, admin \in BOOLEAN :
        user = r.user /\ org = r.org /\ admin = r.admin
  BY <1>5, <1>6 DEF AnyRequest
<1>8. PICK doc : doc = [user |-> user, org |-> org, admin |-> admin, deleted |-> FALSE]
  OBVIOUS
<1>9. doc \in AnyRole /\ doc.user = user /\ doc.org = org /\ doc.admin = admin /\ ~doc.deleted
  BY <1>8 DEF AnyRole
<1>10. PICK n : n = Len(roles) + 1
  OBVIOUS
<1>11. /\ roles' \in Seq(AnyRole) /\ n \notin DOMAIN roles
       /\ DOMAIN roles' = DOMAIN roles \cup {n}
       /\ \A x \in DOMAIN roles : roles'[x] = roles[x]
       /\ roles'[n] = doc
  <2>1. PICK to : to = Append(roles, doc)
    OBVIOUS
  <2>2. roles \in Seq(AnyRole) /\ doc \in AnyRole
    BY <1>5, <1>9
  <2>3. to \in Seq(AnyRole) /\ Len(to) = Len(roles) + 1 /\ Len(roles) \in Nat
    BY <2>1, <2>2
  <2>4. (\A j \in 1 .. Len(roles) : to[j] = roles[j]) /\ to[Len(roles) + 1] = doc
    BY <2>1, <2>2
  <2>5. DOMAIN to = 1 .. Len(roles) + 1 /\ DOMAIN roles = 1 .. Len(roles)
    BY <2>2, <2>3
  <2>6. n \in Nat /\ n \notin DOMAIN roles /\ DOMAIN to = DOMAIN roles \cup {n}
    BY <1>10, <2>3, <2>5
  <2>7. roles' = to
    BY <1>2, <1>7, <1>8, <2>1 DEF Link, Insert
  <2> QED BY <1>10, <2>3, <2>4, <2>5, <2>6, <2>7
<1>12. LiveUser' = LiveUser /\ LiveOrg' = LiveOrg
  BY <1>1 DEF LiveUser, LiveOrg
<1>13. \A o : Founded(o)' <=> Founded(o) \/ o = org
  BY <1>9, <1>11 DEF Founded
<1>14. \A u, o : HasRole(u, o)' <=> HasRole(u, o) \/ (u = user /\ o = org)
  BY <1>9, <1>11 DEF HasRole
<1>15. DocsInv'
  <2>1. \A x \in DOMAIN roles' : roles'[x].user \in DOMAIN users' /\ roles'[x].org \in DOMAIN orgs'
    BY <1>1, <1>5, <1>6, <1>7, <1>9, <1>11
  <2>2. \A j \in DOMAIN invites' : invites'[j].org \in DOMAIN orgs'
                                   /\ \E x \in DOMAIN roles' : roles'[x].org = invites'[j].org
    <3>1. \A o : Founded(o) => \E x \in DOMAIN roles' : roles'[x].org = o
      BY <1>11 DEF Founded
    <3> QED BY <1>1, <1>5, <3>1
  <2> QED BY <1>1, <1>5, <1>11, <2>1, <2>2 DEF DocsInv, Founded
<1>16. PICK new \in AnyRequest :
         /\ req' = [req EXCEPT ![q] = new] /\ (Apart => Apart')
         /\ \/ Left(r) = 1 /\ new = Idle /\ Known(new) /\ CalmKnown(new) /\ ~Creating(new)
            \/ Continues(r, r, new)
  BY <1>1, <1>2, EndsStep
<1>17. Continues(r, r, new) =>
         /\ new.me = r.me /\ new.user = r.user /\ new.org = r.org /\ new.admin = r.admin
         /\ new.invite = r.invite /\ new.left = r.left
         /\ r.op = "accept" /\ new.op = "accept" /\ Left(new) = 1 /\ ~Dropping(new) /\ Placed(new)
  <2>1. ASSUME Continues(r, r, new)
        PROVE  r.op = "accept" /\ new.op = "accept" /\ Left(new) = 1 /\ ~Dropping(new) /\ Placed(new)
    BY <1>3, <2>1 DEF Continues
  <2> QED BY <2>1 DEF Continues, AnyRequest
<1>18. Known(new) /\ ~Creating(new)
  <2>1. CASE Continues(r, r, new)
    BY <1>2, <1>3, <1>17, <2>1 DEF Known, Joins, Entitled, Creating, HasRoleInHand
  <2> QED BY <1>16, <2>1
<1>19. ASSUME NEW p \in AnyRequest, Known(p), Creating(p) => p.org # org PROVE Known(p)'
  <2>1. Creating(p) => ~Founded(p.org)'
    BY <1>13, <1>19 DEF Known
  <2> QED BY <1>1, <1>11, <1>19, <2>1, KnownGrows
<1>20. ASSUME NEW p \in Request \ {q}, NEW r2 \in AnyRequest, r2 = req[p]
       PROVE  Known(r2) /\ (Creating(r2) => r2.org # org)
  <2>1. Known(r2)
    BY <1>20 DEF BaseInv
  <2>2. CASE Creating(r)
    BY <1>2, <1>7, <1>20, <2>1, <2>2 DEF BaseInv
  <2>3. CASE ~Creating(r)
    BY <1>6, <1>7, <2>1, <2>3 DEF Known
  <2> QED BY <2>1, <2>2, <2>3
<1>21. BaseInv'
  <2>1. Known(new)'
    BY <1>18, <1>19
  <2>2. \A p \in Request \ {q}, r2 \in AnyRequest : r2 = req[p] => Known(r2)'
    BY <1>19, <1>20
  <2> QED BY <1>15, <1>16, <1>18, <2>1, <2>2, Assemble
<1> SUFFICES ASSUME calm PROVE CalmInv'
  BY <1>1, <1>21, NotCalm
<1>22. Apart /\ Ruled /\ Resolved /\ OneRole /\ Knowledge /\ CalmKnown(r)
  BY <1>2 DEF CalmInv
<1>23. user \in LiveUser
  BY <1>3, <1>7, <1>22 DEF CalmKnown, Joins
<1>24. ~HasRole(user, org)
  <2>1. CASE Creating(r)
    BY <1>6, <1>7, <2>1 DEF HasRole, Founded
  <2>2. CASE r.op = "add" /\ Left(r) = 1
    <3>1. r.user = None \/ ~HasRole(r.user, r.org)
      BY <1>22, <2>2 DEF CalmKnown
    <3> QED BY <1>7, <3>1, MembershipAssumption
  <2>3. CASE r.op = "accept" /\ Left(r) = 2
    BY <1>7, <1>22, <2>3 DEF CalmKnown
  <2> QED BY <1>3, <1>4, <2>1, <2>2, <2>3
<1>25. Resolved'
  <2>1. ASSUME NEW x \in DOMAIN roles', ~roles'[x].deleted, roles'[x].org \in LiveOrg
        PROVE  roles'[x].user \in LiveUser
    <3>1. CASE x = n
      BY <1>9, <1>11, <1>23, <3>1
    <3>2. CASE x \in DOMAIN roles
      BY <1>11, <1>22, <2>1, <3>2 DEF Resolved
    <3> QED BY <1>11, <3>1, <3>2
  <2> QED BY <1>12, <2>1 DEF Resolved
<1>26. OneRole'
  <2>1. \A x \in DOMAIN roles : ~(roles[x].user = user /\ roles[x].org = org /\ ~roles[x].deleted)
    BY <1>24 DEF HasRole
  <2>2. ASSUME NEW x \in DOMAIN roles', NEW y \in DOMAIN roles', ~roles'[x].deleted, ~roles'[y].deleted,
               roles'[x].user = roles'[y].user, roles'[x].org = roles'[y].org
        PROVE  x = y
    <3>1. CASE x = n /\ y \in DOMAIN roles
      BY <1>9, <1>11, <2>1, <2>2, <3>1
    <3>2. CASE x \in DOMAIN roles /\ y = n
      BY <1>9, <1>11, <2>1, <2>2, <3>2
    <3>3. CASE x \in DOMAIN roles /\ y \in DOMAIN roles
      BY <1>11, <1>22, <2>2, <3>3 DEF OneRole
    <3> QED BY <1>11, <3>1, <3>2, <3>3
  <2> QED BY <2>2 DEF OneRole
<1>27. Ruled'
  <2>1. ASSUME NEW u, NEW o, Rules(u, o)
        PROVE  \E x \in DOMAIN roles' :
                 roles'[x].user = u /\ roles'[x].org = o /\ ~roles'[x].deleted /\ roles'[x].admin
    <3>1. PICK y \in DOMAIN roles :
            roles[y].user = u /\ roles[y].org = o /\ ~roles[y].deleted /\ roles[y].admin
      BY <2>1 DEF Rules
    <3>2. y \in DOMAIN roles' /\ roles'[y] = roles[y]
      BY <1>11, <3>1
    <3> QED BY <3>1, <3>2
  <2>2. Creating(r) => doc.admin
    BY <1>6, <1>7, <1>9
  <2>3. ASSUME NEW o \in LiveOrg, ~\E p \in Request : Creating(req'[p]) /\ req'[p].org = o
        PROVE  orgs[o].owner \in LiveUser /\ \E x \in DOMAIN roles' :
                 roles'[x].user = orgs[o].owner /\ roles'[x].org = o /\ ~roles'[x].deleted /\ roles'[x].admin
    <3>1. CASE Creating(r) /\ o = org
      <4>1. orgs[o].owner = user
        BY <1>6, <1>7, <3>1
      <4>2. n \in DOMAIN roles' /\ roles'[n] = doc
        BY <1>11
      <4> QED BY <1>9, <1>23, <2>2, <3>1, <4>1, <4>2
    <3>2. CASE ~(Creating(r) /\ o = org)
      <4>1. ~\E p \in Request : Creating(req[p]) /\ req[p].org = o
        BY <1>2, <1>7, <1>16, <2>3, <3>2 DEF BaseInv
      <4>2. orgs[o].owner \in LiveUser /\ Rules(orgs[o].owner, o)
        BY <1>22, <2>3, <4>1 DEF Ruled
      <4> QED BY <2>1, <4>2
    <3> QED BY <3>1, <3>2
  <2> QED BY <1>1, <1>12, <2>3 DEF Ruled, Rules
<1>28. ASSUME NEW p \in Request \ {q}, NEW r2 \in AnyRequest, r2 = req[p] PROVE CalmKnown(r2)'
  <2>1. CalmKnown(r2) /\ Known(r2)
    BY <1>20, <1>22, <1>28 DEF Knowledge
  <2>2. ASSUME r2.op \in DOMAIN Handler PROVE ~Conflict(r.op, r2.op)
    <3>1. r2.todo # <<>>
      BY <2>1, <2>2, NoneLeft, LastAwait DEF Known
    <3>2. Running(p)
      BY <1>28, <3>1 DEF Running
    <3> QED BY <1>1, <1>2, <1>22, <1>28, <3>2, Excludes
  <2>3. r2.op # "deleteMe"
    BY <1>3, <2>2, OpsAre DEF Conflict
  <2>4. r2.op \in {"add", "accept"} => Creating(r)
    BY <1>3, <1>4, <2>2, OpsAre DEF Conflict
  <2>5. (r2.op = "add" /\ Left(r2) <= 2) \/ (r2.op = "accept" /\ Left(r2) \in {2, 3}) => r2.org # org
    <3>1. Left(r2) \in Nat
      BY DEF Left, AnyRequest
    <3>2. (r2.op = "add" /\ Left(r2) <= 2) \/ (r2.op = "accept" /\ Left(r2) \in {2, 3}) => Entitled(r2)
      BY <3>1 DEF Entitled
    <3>3. Entitled(r2) => Founded(r2.org)
      BY <2>1 DEF Known
    <3> QED BY <1>6, <1>7, <2>4, <3>2, <3>3
  <2>6. r2.op = "transfer" /\ Left(r2) = 1 => roles'[r2.role] = roles[r2.role]
    BY <1>11, <2>1 DEF Known, HasRoleInHand
  <2>7. ~Leaving(r2)
    BY <2>3 DEF Leaving
  <2>8. Spares(r2) => orgs[r2.org].owner # r2.user
    BY <2>1 DEF CalmKnown
  <2>9. r2.op = "transfer" /\ Left(r2) = 1 => roles'[r2.role].admin /\ ~roles'[r2.role].deleted
    BY <2>1, <2>6 DEF CalmKnown
  <2>10. /\ r2.op = "add" /\ Left(r2) <= 2 => r2.user = None \/ ~HasRole(r2.user, r2.org)'
         /\ r2.op = "accept" /\ Left(r2) \in {2, 3} => ~HasRole(r2.user, r2.org)'
    BY <1>14, <2>1, <2>5 DEF CalmKnown
  <2>11. /\ r2.op = "add" /\ Left(r2) <= 3 => r2.user \in LiveUser \cup {None}
         /\ Joins(r2) => r2.user \in LiveUser
    BY <2>1 DEF CalmKnown
  <2> QED BY <1>1, <1>12, <2>3, <2>7, <2>8, <2>9, <2>10, <2>11 DEF CalmKnown
<1>29. CalmKnown(new)'
  <2>1. CASE new = Idle
    BY <2>1, IdleCalm
  <2>2. CASE Continues(r, r, new)
    BY <1>7, <1>12, <1>17, <1>23, <2>2 DEF CalmKnown, Leaving, Spares
  <2> QED BY <1>16, <2>1, <2>2
<1> QED BY <1>16, <1>22, <1>25, <1>26, <1>27, <1>28, <1>29, AssembleCalm

LEMMA OneOf ==
  ASSUME NEW S, NEW a \in S
  PROVE  <<a>> \o <<>> = <<a>> /\ <<a>> \in Seq(S) /\ DOMAIN <<a>> = {1} /\ <<a>>[1] = a
<1>1. <<a>> \in Seq(S) /\ <<a>>[1] = a
  OBVIOUS
<1>2. DOMAIN <<a>> = {1}
  OBVIOUS
<1>3. <<a>> \o <<>> = <<a>>
  BY <1>1
<1> QED BY <1>1, <1>2, <1>3

LEMMA PairIs ==
  ASSUME NEW S, NEW a \in S, NEW b \in S PROVE <<a>> \o <<b>> = <<a, b>>
<1>1. PICK s, t, w : s = <<a>> /\ t = <<b>> /\ w = <<a, b>>
  OBVIOUS
<1>2. s \in Seq(S) /\ t \in Seq(S) /\ w \in Seq(S)
  BY <1>1
<1>3. s \o t \in Seq(S) /\ Len(s \o t) = 2 /\ Len(w) = 2
  BY <1>1, <1>2
<1>4. \A k \in 1 .. 2 : (s \o t)[k] = w[k]
  BY <1>1, <1>2
<1>5. s \o t = w
  BY <1>2, <1>3, <1>4, SeqEqual
<1> QED BY <1>1, <1>5

LEMMA TwoOf ==
  ASSUME NEW S, NEW a \in S, NEW b \in S
  PROVE  <<a, b>> \in Seq(S) /\ DOMAIN <<a, b>> = {1, 2} /\ <<a, b>>[1] = a /\ <<a, b>>[2] = b
OBVIOUS

LEMMA Start == ASSUME Init PROVE BaseInv /\ CalmInv
<1>1. PICK mine \in Email, yours \in Email, second \in {"admin", "member", "invited", "stranger", "nobody"} :
      /\ users = <<[email |-> mine, manages |-> TRUE, deleted |-> FALSE]>> \o
                 (IF second # "nobody"
                    THEN <<[email |-> yours, manages |-> FALSE, deleted |-> FALSE]>> ELSE <<>>)
      /\ orgs = <<[owner |-> 1, deleted |-> FALSE]>>
      /\ roles = <<[user |-> 1, org |-> 1, admin |-> TRUE, deleted |-> FALSE]>> \o
                 (IF second \in {"admin", "member"}
                    THEN <<[user |-> 2, org |-> 1, admin |-> second = "admin", deleted |-> FALSE]>>
                    ELSE <<>>)
      /\ invites = IF second = "invited"
                     THEN <<[email |-> yours, org |-> 1, admin |-> TRUE, gone |-> FALSE]>> ELSE <<>>
      /\ req = [q \in Request |-> Idle] /\ calm = TRUE
  BY DEF Init
<1>2. PICK a \in AnyUser, b \in AnyUser :
        /\ a = [email |-> mine, manages |-> TRUE, deleted |-> FALSE] /\ ~a.deleted
        /\ b = [email |-> yours, manages |-> FALSE, deleted |-> FALSE] /\ ~b.deleted
  <2>1. PICK a, b : /\ a = [email |-> mine, manages |-> TRUE, deleted |-> FALSE]
                    /\ b = [email |-> yours, manages |-> FALSE, deleted |-> FALSE]
    OBVIOUS
  <2>2. a \in AnyUser /\ b \in AnyUser /\ ~a.deleted /\ ~b.deleted
    BY <2>1 DEF AnyUser
  <2> QED BY <2>1, <2>2
<1>3. /\ users \in Seq(AnyUser) /\ 1 \in DOMAIN users
      /\ second \in {"admin", "member"} => 2 \in DOMAIN users
      /\ \A u \in DOMAIN users : ~users[u].deleted
  <2>1. CASE second = "nobody"
    <3>1. users = <<a>>
      BY <1>1, <1>2, <2>1, OneOf
    <3> QED BY <1>2, <2>1, <3>1, OneOf
  <2>2. CASE second # "nobody"
    <3>1. users = <<a, b>>
      <4>1. users = <<a>> \o <<b>>
        BY <1>1, <1>2, <2>2
      <4>2. a \in AnyUser /\ b \in AnyUser
        BY <1>2
      <4> QED BY <4>1, <4>2, PairIs
    <3> QED BY <1>2, <2>2, <3>1, TwoOf
  <2> QED BY <2>1, <2>2
<1>4. orgs \in Seq(AnyOrg) /\ DOMAIN orgs = {1} /\ orgs[1].owner = 1
  <2>1. PICK d : d = [owner |-> 1, deleted |-> FALSE]
    OBVIOUS
  <2>2. d \in AnyOrg /\ d.owner = 1
    BY <2>1 DEF AnyOrg
  <2>3. orgs = <<d>>
    BY <1>1, <2>1
  <2> QED BY <2>2, <2>3, OneOf
<1>5. PICK x \in AnyRole, y \in AnyRole :
        /\ x = [user |-> 1, org |-> 1, admin |-> TRUE, deleted |-> FALSE]
        /\ y = [user |-> 2, org |-> 1, admin |-> second = "admin", deleted |-> FALSE]
        /\ x.user = 1 /\ x.org = 1 /\ x.admin /\ ~x.deleted /\ y.user = 2 /\ y.org = 1 /\ ~y.deleted
  <2>1. PICK x, y : /\ x = [user |-> 1, org |-> 1, admin |-> TRUE, deleted |-> FALSE]
                    /\ y = [user |-> 2, org |-> 1, admin |-> second = "admin", deleted |-> FALSE]
    OBVIOUS
  <2>2. x \in AnyRole /\ y \in AnyRole
    BY <2>1 DEF AnyRole
  <2>3. x.user = 1 /\ x.org = 1 /\ x.admin /\ ~x.deleted /\ y.user = 2 /\ y.org = 1 /\ ~y.deleted
    BY <2>1
  <2> QED BY <2>1, <2>2, <2>3
<1>6. /\ roles \in Seq(AnyRole) /\ 1 \in DOMAIN roles /\ DOMAIN roles \subseteq {1, 2}
      /\ roles[1] = x
      /\ 2 \in DOMAIN roles => roles[2] = y /\ 2 \in DOMAIN users
  <2>1. CASE second \in {"admin", "member"}
    <3>1. roles = <<x, y>>
      <4>1. roles = <<x>> \o <<y>>
        BY <1>1, <1>5, <2>1
      <4>2. x \in AnyRole /\ y \in AnyRole
        BY <1>5
      <4> QED BY <4>1, <4>2, PairIs
    <3> QED BY <1>3, <2>1, <3>1, TwoOf
  <2>2. CASE second \notin {"admin", "member"}
    <3>1. roles = <<x>>
      BY <1>1, <1>5, <2>2, OneOf
    <3> QED BY <3>1, OneOf
  <2> QED BY <2>1, <2>2
<1>7. invites \in Seq(AnyInvite) /\ \A i \in DOMAIN invites : invites[i].org = 1
  <2>1. PICK d : d = [email |-> yours, org |-> 1, admin |-> TRUE, gone |-> FALSE]
    OBVIOUS
  <2>2. d \in AnyInvite /\ d.org = 1
    BY <2>1 DEF AnyInvite
  <2>3. CASE second = "invited"
    <3>1. invites = <<d>>
      BY <1>1, <2>1, <2>3
    <3> QED BY <2>2, <3>1, OneOf
  <2>4. CASE second # "invited"
    <3>1. invites = <<>>
      BY <1>1, <2>4
    <3> QED BY <3>1
  <2> QED BY <2>3, <2>4
<1>8. Founded(1)
  BY <1>5, <1>6 DEF Founded
<1>9. \A i \in DOMAIN roles : /\ roles[i].user = i /\ i \in DOMAIN users /\ roles[i].org = 1
                              /\ ~roles[i].deleted
  BY <1>3, <1>5, <1>6
<1>10. DocsInv
  BY <1>3, <1>4, <1>6, <1>7, <1>8, <1>9 DEF DocsInv
<1>11. \A q \in Request : req[q] = Idle
  BY <1>1
<1>12. BaseInv
  <2>1. req \in [Request -> AnyRequest]
    BY <1>1, IdleType
  <2>2. \A q \in Request, r \in AnyRequest : r = req[q] => Known(r)
    BY <1>11, IdleKnown
  <2>3. \A q \in Request : ~Creating(req[q])
    BY <1>11, IdleKnown
  <2> QED BY <1>10, <2>1, <2>2, <2>3 DEF BaseInv
<1>13. Apart
  BY <1>11, IdleType DEF Apart, Running
<1>14. LiveUser = DOMAIN users /\ LiveOrg \subseteq {1}
  BY <1>3, <1>4 DEF LiveUser, LiveOrg
<1>15. Ruled
  <2>1. Rules(1, 1)
    BY <1>5, <1>6 DEF Rules
  <2> QED BY <1>3, <1>4, <1>14, <2>1 DEF Ruled
<1>16. Resolved /\ OneRole
  BY <1>9, <1>14 DEF Resolved, OneRole
<1>17. Knowledge
  BY <1>11, IdleKnown DEF Knowledge
<1> QED BY <1>12, <1>13, <1>15, <1>16, <1>17 DEF CalmInv

LEMMA Stays ==
  ASSUME BaseInv, CalmInv, [Next]_vars PROVE BaseInv' /\ CalmInv'
<1>1. CASE UNCHANGED vars
  <2>1. docs' = docs /\ req' = req /\ calm' = calm
    BY <1>1 DEF vars, docs
  <2>2. DocsInv'
    BY <2>1 DEF docs, BaseInv, DocsInv, Founded
  <2>3. BaseInv'
    BY <2>1, <2>2, SameDocs DEF BaseInv
  <2>4. calm => Apart' /\ Knowledge'
    BY <2>1, SameDocs DEF CalmInv, Apart, Knowledge, Running
  <2>5. calm => Ruled' /\ Resolved' /\ OneRole'
    BY <2>1 DEF docs, CalmInv, Ruled, Rules, Resolved, OneRole, LiveOrg, LiveUser
  <2> QED BY <2>1, <2>3, <2>4, <2>5 DEF CalmInv
<1>2. CASE Expire
  BY <1>2, ExpireStep
<1>3. ASSUME NEW q \in Request, Step(q) PROVE BaseInv' /\ CalmInv'
  <2>1. CASE BeginOnOrg(q) \/ BeginOnEmail(q) \/ BeginOnInvite(q)
    BY <2>1, BeginOnOrgStep, BeginOnEmailStep, BeginOnInviteStep
  <2>2. CASE BeginOnUser(q) \/ BeginOnMe(q) \/ BeginSignUp(q)
    BY <2>2, BeginOnUserStep, BeginOnMeStep, BeginSignUpStep
  <2>3. CASE FetchOrg(q) \/ Authorise(q) \/ FindUser(q) \/ NoRole(q)
    BY <2>3, FetchOrgStep, AuthoriseStep, FindUserStep, NoRoleStep
  <2>4. CASE FindRole(q) \/ NoInvite(q) \/ FindInvite(q) \/ CountOrgs(q)
    BY <2>4, FindRoleStep, NoInviteStep, FindInviteStep, CountOrgsStep
  <2>5. CASE MyRoles(q) \/ MyOrgs(q) \/ LeaveOrgs(q) \/ Fail(q)
    BY <2>5, MyRolesStep, MyOrgsStep, LeaveOrgsStep, FailStep
  <2>6. CASE SaveUser(q) \/ InsertOrg(q) \/ Link(q)
    BY <2>6, SaveUserStep, InsertOrgStep, LinkStep
  <2>7. CASE SaveInvite(q) \/ DropInvite(q) \/ SaveRole(q)
    BY <2>7, SaveInviteStep, DropInviteStep, SaveRoleStep
  <2>8. CASE SaveOrg(q) \/ SaveMe(q) \/ DropMe(q)
    BY <2>8, SaveOrgStep, SaveMeStep, DropMeStep
  <2> QED BY <1>3, <2>1, <2>2, <2>3, <2>4, <2>5, <2>6, <2>7, <2>8 DEF Step
<1> QED BY <1>1, <1>2, <1>3 DEF Next

\* Whatever overlaps, what a request has read still names documents there are; and
\* where no two requests have overlapped that the handlers do not provide for, every
\* organisation is ruled by its owner and what the requests have found still holds
\* (OrgManager, UserManager).
THEOREM MembersCorrect == Spec => [](BaseInv /\ CalmInv)
<1>1. Init => BaseInv /\ CalmInv
  BY Start
<1>2. BaseInv /\ CalmInv /\ [Next]_vars => (BaseInv /\ CalmInv)'
  BY Stays
<1> QED BY <1>1, <1>2, PTL DEF Spec

\* The owner of an organisation is a user there is, with a role in it that
\* administers: createOrg gives one, transferOwnership takes nobody else, and no
\* permission, removal or deletion of a user goes past the check of the owner.
THEOREM OwnerIsAdminCorrect == Spec => []OwnerIsAdmin
<1>1. BaseInv /\ CalmInv => OwnerIsAdmin
  <2> SUFFICES ASSUME BaseInv, CalmInv, calm, NEW o \in LiveOrg, ~BeingCreated(o)
               PROVE  orgs[o].owner \in LiveUser /\ IsAdmin(orgs[o].owner, o)
    BY DEF OwnerIsAdmin
  <2>1. Ruled /\ OneRole
    BY DEF CalmInv
  <2>2. ASSUME NEW q \in Request, Creating(req[q]), req[q].org = o PROVE FALSE
    <3>1. PICK r \in AnyRequest : r = req[q] /\ Placed(r) /\ Creating(r)
      BY <2>2 DEF BaseInv, Known
    <3>2. r.todo # <<>> /\ r.op \in {"createOrg", "signUp"}
      BY <3>1, LastAwait DEF Creating
    <3>3. Head(r.todo) = "link"
      BY <3>1, <3>2, Spots DEF Creating, Dropping
    <3> QED BY <2>2, <3>1, <3>2, <3>3 DEF BeingCreated, At, Running
  <2>3. orgs[o].owner \in LiveUser /\ Rules(orgs[o].owner, o)
    BY <2>1, <2>2 DEF Ruled
  <2>4. PICK u : u = orgs[o].owner
    OBVIOUS
  <2>5. PICK y \in DOMAIN roles : roles[y].user = u /\ roles[y].org = o /\ ~roles[y].deleted /\ roles[y].admin
    BY <2>3, <2>4 DEF Rules
  <2>6. HasRole(u, o)
    BY <2>5 DEF HasRole
  <2>7. /\ RoleOf(u, o) # None /\ RoleOf(u, o) \in DOMAIN roles
        /\ roles[RoleOf(u, o)].user = u /\ roles[RoleOf(u, o)].org = o
        /\ ~roles[RoleOf(u, o)].deleted
    BY <2>6, RoleOfIs DEF BaseInv, DocsInv
  <2>8. RoleOf(u, o) = y
    BY <2>1, <2>5, <2>7 DEF OneRole
  <2> QED BY <2>3, <2>4, <2>5, <2>7, <2>8 DEF IsAdmin
<1> QED BY <1>1, MembersCorrect, PTL

\* Every role in an organisation is that of a user there is, so that the list of its
\* users can be resolved: deleteMe leaves each of them before the user goes.
THEOREM RolesResolveCorrect == Spec => []RolesResolve
<1>1. CalmInv => RolesResolve
  BY DEF CalmInv, Resolved, RolesResolve
<1> QED BY <1>1, MembersCorrect, PTL

\* A user has one role in an organisation: addUser, acceptInvite and createOrg link a
\* user to it once no other role is there (findUserAvailableByEmail, linkToOrg).
THEOREM OneRoleEachCorrect == Spec => []OneRoleEach
<1>1. CalmInv => OneRoleEach
  BY DEF CalmInv, OneRole, OneRoleEach
<1> QED BY <1>1, MembersCorrect, PTL
=============================================================================
