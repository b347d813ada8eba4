----------------------------- MODULE Membership -----------------------------
(***************************************************************************)
(* Organisations, their users, roles and invites (OrgManager, UserManager, *)
(* OrgUtils of the API).                                                   *)
(*                                                                         *)
(* A collection of MongoDB is the sequence of its documents in the order   *)
(* of their insertion, the order in which findOne goes through them; the   *)
(* index of a document is its _id.  A deletion of Repo sets a flag that    *)
(* every find filters; only an invite is really deleted.                   *)
(*                                                                         *)
(* A request is a process; what it has still to do is the sequence of the  *)
(* awaits of its handler, `todo`, and each of them is one step.            *)
(*                                                                         *)
(* Abstracted: a role is an administrator's or not; names, mails, audit    *)
(* records and the billing side of an organisation.                        *)
(***************************************************************************)
EXTENDS Naturals, FiniteSets, Sequences, FiniteSetsExt, SequencesExt

CONSTANTS
  Email,       \* addresses
  Request,     \* requests served at the same time
  MaxOrgs,     \* getMaxOrgs
  Grants,      \* bound: what a user is added or invited as, an administrator or not
  MaxRequests, \* bound: requests in all
  None         \* null

ASSUME MembershipAssumption ==
  /\ IsFiniteSet(Email) /\ Cardinality(Email) >= 2 /\ None \notin Email /\ None \notin Nat
  /\ MaxOrgs \in Nat /\ MaxRequests \in Nat /\ Grants \subseteq BOOLEAN

VARIABLES
  users,    \* User:    email, _can_manage_orgs, deleted
  orgs,     \* Org:     owner, deleted
  roles,    \* OrgRole: user, org, admin, deleted
  invites,  \* Invite:  email, org, admin, gone
  req,      \* the requests being served
  requests, \* how many there were
  calm      \* history: nothing has happened so far that the handlers do not provide for

docs == <<users, orgs, roles, invites>>
vars == <<users, orgs, roles, invites, req, requests, calm>>

\* The awaits of each handler, in order.
Handler == [
  add       |-> <<"asAdmin", "fetchOrg", "findUser", "noRole", "saveUser", "link">>,
  invite    |-> <<"asAdmin", "fetchOrg", "findUser", "noRole", "noInvite", "saveInvite">>,
  cancel    |-> <<"findInvite", "asAdmin", "dropInvite">>,
  accept    |-> <<"findInvite", "fetchOrg", "link", "dropInvite">>,
  decline   |-> <<"findInvite", "dropInvite">>,
  permit    |-> <<"fetchOrg", "asAdmin", "findRole", "saveRole">>,
  remove    |-> <<"fetchOrg", "asAdmin", "findRole", "dropRole">>,
  leave     |-> <<"fetchOrg", "findRole", "dropRole">>,
  transfer  |-> <<"fetchOrg", "asAdmin", "findRole", "saveOrg">>,
  rename    |-> <<"asEditor", "fetchOrg", "saveOrg">>,
  deleteOrg |-> <<"fetchOrg", "saveOrg">>,
  createOrg |-> <<"countOrgs", "insertOrg", "link">>,
  signUp    |-> <<"findUser", "saveUser", "insertOrg", "link">>,
  updateMe  |-> <<"findUser", "saveMe">>,
  deleteMe  |-> <<"myRoles", "myOrgs", "leaveOrgs", "saveMe", "dropMe">>]

Idle == [op |-> "none", todo |-> <<>>, me |-> None, org |-> None, user |-> None, email |-> None,
         admin |-> FALSE, invite |-> None, role |-> None, owner |-> None, left |-> {}]

\* A request that has read or been given something more.
Knowing(r, more) == [f \in DOMAIN r |-> IF f \in DOMAIN more THEN more[f] ELSE r[f]]

Running(q) == req[q].todo # <<>>
At(q, step) == Running(q) /\ Head(req[q].todo) = step

\* Repo.find and findOne.
Find(c, P(_)) == {i \in DOMAIN c : P(c[i])}
FindOne(c, P(_)) == IF Find(c, P) = {} THEN None ELSE Min(Find(c, P))
RoleOf(u, o) == LET Match(r) == r.user = u /\ r.org = o /\ ~r.deleted IN FindOne(roles, Match)
UserWith(e) == LET Match(u) == u.email = e /\ ~u.deleted IN FindOne(users, Match)
LiveUser == {u \in DOMAIN users : ~users[u].deleted}
LiveOrg == {o \in DOMAIN orgs : ~orgs[o].deleted}
IsAdmin(u, o) == RoleOf(u, o) # None /\ roles[RoleOf(u, o)].admin

\* An organisation and its owner; a second user, who is an administrator, a
\* plain member, invited, a stranger, or has not signed up.
Init ==
  \E mine, yours \in Email : mine # yours /\
    \E second \in {"admin", "member", "invited", "stranger", "nobody"} :
      /\ users = <<[email |-> mine, manages |-> TRUE, deleted |-> FALSE]>> \o
                 (IF second # "nobody"
                    THEN <<[email |-> yours, manages |-> FALSE, deleted |-> FALSE]>> ELSE <<>>)
      /\ orgs = <<[owner |-> 1, deleted |-> FALSE]>>
      /\ roles = <<[user |-> 1, org |-> 1, admin |-> TRUE, deleted |-> FALSE]>> \o
                 (IF second \in {"admin", "member"}
                    THEN <<[user |-> 2, org |-> 1, admin |-> second = "admin", deleted |-> FALSE]>>
                    ELSE <<>>)
      /\ invites = IF second = "invited"
                     THEN <<[email |-> yours, org |-> 1, admin |-> TRUE, gone |-> FALSE]>> ELSE <<>>
      /\ req = [q \in Request |-> Idle]
      /\ requests = 0 /\ calm = TRUE

-----------------------------------------------------------------------------
(* The beginning of a request: its input, and the user of its session,     *)
(* whom the context reads before the handler runs.                         *)

\* Overlaps in which one handler checks what the other one changes before it
\* writes: joining twice, joining while being deleted, and becoming the owner while
\* losing the role that is required for it.
Conflict(a, b) ==
  \/ a \in {"add", "accept"} /\ b \in {"add", "accept", "deleteMe"}
  \/ a \in {"createOrg", "signUp"} /\ b = "deleteMe"
  \/ a = "transfer" /\ b \in {"remove", "leave", "permit", "deleteMe"}

Begin(q, op, more) ==
  /\ ~Running(q) /\ requests < MaxRequests
  /\ req' = [req EXCEPT ![q] = Knowing([Idle EXCEPT !.op = op, !.todo = Handler[op]], more)]
  /\ requests' = requests + 1
  /\ calm' = (calm /\ \A p \in Request : Running(p) =>
                        ~Conflict(op, req[p].op) /\ ~Conflict(req[p].op, op))
  /\ UNCHANGED docs

BeginOnOrg(q) ==
  \E me \in LiveUser, o \in LiveOrg, op \in {"rename", "deleteOrg", "leave"} :
    Begin(q, op, [me |-> me, org |-> o, user |-> me])

BeginOnEmail(q) ==
  \E me \in LiveUser, o \in LiveOrg, e \in Email, a \in Grants, op \in {"add", "invite"} :
    Begin(q, op, [me |-> me, org |-> o, email |-> e, admin |-> a])

BeginOnInvite(q) ==
  \E me \in LiveUser, i \in DOMAIN invites, op \in {"cancel", "accept", "decline"} :
    /\ ~invites[i].gone
    /\ Begin(q, op, [me |-> me, invite |-> i, user |-> me, email |-> users[me].email])

BeginOnUser(q) ==
  \E me \in LiveUser, o \in LiveOrg, u \in DOMAIN users, a \in BOOLEAN,
     op \in {"permit", "remove", "transfer"} :
    /\ RoleOf(u, o) # None /\ (op # "permit" => ~a)
    /\ Begin(q, op, [me |-> me, org |-> o, user |-> u, admin |-> a])

BeginOnMe(q) ==
  \E me \in LiveUser :
    \/ users[me].manages /\ Begin(q, "createOrg", [me |-> me, user |-> me, admin |-> TRUE])
    \/ \E e \in Email : Begin(q, "updateMe", [me |-> me, email |-> e])
    \/ Begin(q, "deleteMe", [me |-> me])

\* completeSignUp, with the address of a sign-up request.
BeginSignUp(q) == \E e \in Email : Begin(q, "signUp", [email |-> e, admin |-> TRUE])

-----------------------------------------------------------------------------
(* The steps.  A step goes on with the handler, or ends it with an error.  *)

Goes(q, more) == req' = [req EXCEPT ![q] =
  LET now == Knowing(req[q], more) IN IF Len(now.todo) = 1 THEN Idle ELSE [now EXCEPT !.todo = Tail(@)]]
Refuses(q) == req' = [req EXCEPT ![q] = Idle]
Check(q, passes, more) == IF passes THEN Goes(q, more) ELSE Refuses(q)
ReadsOnly == UNCHANGED <<docs, requests, calm>>

\* fetchOrg: the document read here is the one saved later.  What the handler
\* then compares the owner with is a matter of what was read.
OwnerPasses(q, owner) ==
  CASE req[q].op \in {"permit", "remove", "leave"} -> owner # req[q].user
    [] req[q].op \in {"transfer", "deleteOrg"} -> owner = req[q].me
    [] OTHER -> TRUE

FetchOrg(q) ==
  /\ At(q, "fetchOrg")
  /\ LET o == orgs[req[q].org]
     IN  Check(q, ~o.deleted /\ OwnerPasses(q, o.owner), [owner |-> o.owner])
  /\ ReadsOnly

\* asUserWithOrgAdmin, asUserWithEditAccess.
Authorise(q) ==
  /\ \/ At(q, "asAdmin") /\ Check(q, IsAdmin(req[q].me, req[q].org), <<>>)
     \/ At(q, "asEditor") /\ Check(q, RoleOf(req[q].me, req[q].org) # None, <<>>)
  /\ ReadsOnly

\* findUserAvailableByEmail; the look at the address in updateMe and completeSignUp.
FindUser(q) ==
  /\ At(q, "findUser")
  /\ LET u == UserWith(req[q].email)
     IN  Check(q, CASE req[q].op = "signUp" -> u = None
                    [] req[q].op = "updateMe" -> u \in {None, req[q].me}
                    [] OTHER -> TRUE, [user |-> u])
  /\ ReadsOnly

\* Mutant: the roles of the organisation are not looked at.
NoRole_Skipped(q) == At(q, "noRole") /\ Goes(q, <<>>) /\ ReadsOnly
NoRole(q) ==
  /\ At(q, "noRole")
  /\ Check(q, req[q].user = None \/ RoleOf(req[q].user, req[q].org) = None, <<>>)
  /\ ReadsOnly

\* findOne of the role to change; the recipient of a transfer must be an administrator.
\* (Mutant: any member may receive it.)
Eligible_Member(q, r) == r # None
Eligible(q, r) == r # None /\ (req[q].op = "transfer" => roles[r].admin)
FindRole(q) ==
  /\ At(q, "findRole")
  /\ LET r == RoleOf(req[q].user, req[q].org) IN Check(q, Eligible(q, r), [role |-> r])
  /\ ReadsOnly

NoInvite(q) ==
  /\ At(q, "noInvite")
  /\ LET Match(i) == i.email = req[q].email /\ i.org = req[q].org /\ ~i.gone
     IN  Check(q, Find(invites, Match) = {}, <<>>)
  /\ ReadsOnly

\* An invite is accepted and declined by its address, cancelled by its _id.  One
\* can accept an invite to an organisation one belongs to.
FindInvite(q) ==
  /\ At(q, "findInvite")
  /\ LET i == invites[req[q].invite]
     IN  /\ Check(q, ~i.gone /\ (req[q].op # "cancel" => i.email = req[q].email),
                  [org |-> i.org, admin |-> i.admin])
         /\ calm' = (calm /\ ~(req[q].op = "accept" /\ ~i.gone /\ RoleOf(req[q].me, i.org) # None))
  /\ UNCHANGED <<docs, requests>>

CountOrgs(q) ==
  /\ At(q, "countOrgs")
  /\ Check(q, Cardinality({o \in LiveOrg : orgs[o].owner = req[q].me}) < MaxOrgs, <<>>)
  /\ ReadsOnly

\* deleteMe: the roles of the user, then their organisations that still exist.
MyRoles(q) ==
  /\ At(q, "myRoles")
  /\ Goes(q, [left |-> {roles[r].org : r \in {x \in DOMAIN roles :
                          roles[x].user = req[q].me /\ ~roles[x].deleted}}])
  /\ ReadsOnly
MyOrgs(q) ==
  /\ At(q, "myOrgs")
  /\ LET mine == req[q].left \cap LiveOrg
     IN  Check(q, \A o \in mine : orgs[o].owner # req[q].me, [left |-> mine])
  /\ ReadsOnly

-----------------------------------------------------------------------------
(* The writes.                                                             *)

Insert(c, doc) == Append(c, doc)

\* Unique index on the address, which counts deleted users (they have given theirs up).
\* Who signs up acts for himself from then on.
SaveUser(q) ==
  /\ At(q, "saveUser")
  /\ IF req[q].user # None
     THEN Goes(q, <<>>) /\ UNCHANGED users
     ELSE IF \E u \in DOMAIN users : users[u].email = req[q].email
     THEN Refuses(q) /\ UNCHANGED users
     ELSE /\ users' = Insert(users, [email |-> req[q].email, manages |-> req[q].op = "signUp",
                                     deleted |-> FALSE])
          /\ Goes(q, [user |-> Len(users) + 1,
                     me |-> IF req[q].op = "signUp" THEN Len(users) + 1 ELSE req[q].me])
  /\ UNCHANGED <<orgs, roles, invites, requests, calm>>

\* createOrg of OrgUtils: the organisation first, the role of its owner last.
InsertOrg(q) ==
  /\ At(q, "insertOrg")
  /\ orgs' = Insert(orgs, [owner |-> req[q].me, deleted |-> FALSE])
  /\ Goes(q, [org |-> Len(orgs) + 1])
  /\ UNCHANGED <<users, roles, invites, requests, calm>>

Link(q) ==
  /\ At(q, "link")
  /\ roles' = Insert(roles, [user |-> req[q].user, org |-> req[q].org, admin |-> req[q].admin,
                             deleted |-> FALSE])
  /\ Goes(q, <<>>)
  /\ UNCHANGED <<users, orgs, invites, requests, calm>>

\* Unique index on address and organisation.
SaveInvite(q) ==
  /\ At(q, "saveInvite")
  /\ invites' = IF \E i \in DOMAIN invites : /\ ~invites[i].gone
                                             /\ invites[i].email = req[q].email
                                             /\ invites[i].org = req[q].org
                  THEN invites
                  ELSE Insert(invites, [email |-> req[q].email, org |-> req[q].org,
                                        admin |-> req[q].admin, gone |-> FALSE])
  /\ Goes(q, <<>>)
  /\ UNCHANGED <<users, orgs, roles, requests, calm>>

\* hardDelete, which does not mind when there is nothing left to delete.
DropInvite(q) ==
  /\ At(q, "dropInvite")
  /\ invites' = [invites EXCEPT ![req[q].invite].gone = TRUE]
  /\ Goes(q, <<>>)
  /\ UNCHANGED <<users, orgs, roles, requests, calm>>

\* Repo.save sets what differs from the document as it was read.
SaveRole(q) ==
  /\ \/ At(q, "saveRole") /\ roles' = [roles EXCEPT ![req[q].role].admin = req[q].admin]
     \/ At(q, "dropRole") /\ roles' = [roles EXCEPT ![req[q].role].deleted = TRUE]
  /\ Goes(q, <<>>)
  /\ UNCHANGED <<users, orgs, invites, requests, calm>>

\* (Mutant: the whole document.)
SavedOrg_Whole(q) ==
  [owner |-> IF req[q].op = "transfer" THEN req[q].user ELSE req[q].owner,
   deleted |-> req[q].op = "deleteOrg"]
SavedOrg(q) ==
  CASE req[q].op = "transfer" -> [orgs[req[q].org] EXCEPT !.owner = req[q].user]
    [] req[q].op = "deleteOrg" -> [orgs[req[q].org] EXCEPT !.deleted = TRUE]
    [] OTHER -> orgs[req[q].org]
SaveOrg(q) ==
  /\ At(q, "saveOrg")
  /\ orgs' = [orgs EXCEPT ![req[q].org] = SavedOrg(q)]
  /\ Goes(q, <<>>)
  /\ UNCHANGED <<users, roles, invites, requests, calm>>

\* deleteMe again: one role in each organisation, in any order.  (Mutant: in one of them.)
Remaining_None(q, o) == {}
Remaining(q, o) == req[q].left \ {o}
LeaveOrgs(q) ==
  /\ At(q, "leaveOrgs")
  /\ IF req[q].left = {}
     THEN Goes(q, <<>>)
     ELSE \E o \in req[q].left :
            req' = [req EXCEPT ![q].left = Remaining(q, o),
                               ![q].role = RoleOf(req[q].me, o),
                               ![q].todo = IF RoleOf(req[q].me, o) = None THEN @
                                             ELSE <<"dropRole">> \o @]
  /\ ReadsOnly

\* A new address; or, for a user about to be deleted, one nobody can have.
SaveMe(q) ==
  /\ At(q, "saveMe")
  /\ IF req[q].email # None /\ \E u \in DOMAIN users \ {req[q].me} : users[u].email = req[q].email
     THEN Refuses(q) /\ UNCHANGED users
     ELSE users' = [users EXCEPT ![req[q].me].email = req[q].email] /\ Goes(q, <<>>)
  /\ UNCHANGED <<orgs, roles, invites, requests, calm>>

DropMe(q) ==
  /\ At(q, "dropMe")
  /\ users' = [users EXCEPT ![req[q].me].deleted = TRUE]
  /\ Goes(q, <<>>)
  /\ UNCHANGED <<orgs, roles, invites, requests, calm>>

-----------------------------------------------------------------------------
\* An await fails, and nothing is undone.  A new organisation may be left
\* without the role of its owner.
Fail(q) ==
  /\ Running(q)
  /\ calm' = (calm /\ ~(req[q].op \in {"createOrg", "signUp"} /\ At(q, "link")))
  /\ Refuses(q)
  /\ UNCHANGED <<docs, requests>>

\* MongoDB removes an invite after three days.
Expire ==
  /\ \E i \in DOMAIN invites :
       ~invites[i].gone /\ invites' = [invites EXCEPT ![i].gone = TRUE]
  /\ UNCHANGED <<users, orgs, roles, req, requests, calm>>

Step(q) ==
  \/ BeginOnOrg(q) \/ BeginOnEmail(q) \/ BeginOnInvite(q)
  \/ BeginOnUser(q) \/ BeginOnMe(q) \/ BeginSignUp(q)
  \/ FetchOrg(q) \/ Authorise(q) \/ FindUser(q) \/ NoRole(q) \/ FindRole(q) \/ NoInvite(q)
  \/ FindInvite(q) \/ CountOrgs(q) \/ MyRoles(q) \/ MyOrgs(q)
  \/ SaveUser(q) \/ InsertOrg(q) \/ Link(q) \/ SaveInvite(q) \/ DropInvite(q)
  \/ SaveRole(q) \/ SaveOrg(q) \/ LeaveOrgs(q) \/ SaveMe(q) \/ DropMe(q)
  \/ Fail(q)

Next == Expire \/ \E q \in Request : Step(q)
Spec == Init /\ [][Next]_vars
=============================================================================
