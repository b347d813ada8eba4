-------------------------- MODULE MembershipProps --------------------------
(***************************************************************************)
(* What the handlers of organisations and their users have to guarantee.   *)
(***************************************************************************)
EXTENDS Membership

UserDoc == [email : Email \cup {None}, manages : BOOLEAN, deleted : BOOLEAN]
OrgDoc == [owner : DOMAIN users, deleted : BOOLEAN]
RoleDoc == [user : DOMAIN users, org : DOMAIN orgs, admin : BOOLEAN, deleted : BOOLEAN]
InviteDoc == [email : Email, org : DOMAIN orgs, admin : BOOLEAN, gone : BOOLEAN]
Steps == UNION {Range(Handler[op]) : op \in DOMAIN Handler}

\* The shape of the documents and of what the requests remember: whatever a
\* document refers to has been inserted, and a unique index lets one user have an
\* address and one invite of it to an organisation.
TypeOK ==
  /\ users \in Seq(UserDoc) /\ orgs \in Seq(OrgDoc)
  /\ roles \in Seq(RoleDoc) /\ invites \in Seq(InviteDoc)
  /\ \A u, v \in DOMAIN users : users[u].email = users[v].email => u = v \/ users[u].email = None
  /\ \A i, j \in DOMAIN invites :
       (invites[i].email = invites[j].email /\ invites[i].org = invites[j].org)
         => i = j \/ invites[i].gone \/ invites[j].gone
  /\ req \in [Request ->
       [op : DOMAIN Handler \cup {"none"}, todo : Seq(Steps), me : DOMAIN users \cup {None},
        org : DOMAIN orgs \cup {None}, user : DOMAIN users \cup {None},
        email : Email \cup {None}, admin : BOOLEAN, invite : DOMAIN invites \cup {None},
        role : DOMAIN roles \cup {None}, owner : DOMAIN users \cup {None},
        left : SUBSET (DOMAIN orgs)]]
  /\ requests \in 0 .. MaxRequests /\ calm \in BOOLEAN

\* An organisation whose owner is still to get the role.
BeingCreated(o) == \E q \in Request : At(q, "link") /\ req[q].org = o
                                      /\ req[q].op \in {"createOrg", "signUp"}

\* Somebody can always administer an organisation: its owner is a user who exists
\* and an administrator of it.  Removal, demotion, leaving and deletion of the user
\* are all refused to the owner, and only an administrator becomes the owner.
OwnerIsAdmin ==
  calm => \A o \in LiveOrg \ {x \in LiveOrg : BeingCreated(x)} :
            /\ orgs[o].owner \in LiveUser
            /\ IsAdmin(orgs[o].owner, o)

\* The users of an organisation can be listed: Org.users fetches the user of every
\* role with findByIds, which throws when one of them is deleted.
RolesResolve ==
  calm => \A r \in DOMAIN roles :
            ~roles[r].deleted /\ roles[r].org \in LiveOrg => roles[r].user \in LiveUser

\* A user has one role in an organisation: roles have no unique index, so that it
\* takes the look at the roles in addUser and inviteUser, and the drop of an invite.
\* A second role is out of reach of removeUser and updateUserPermissions.
OneRoleEach ==
  calm => \A r, s \in {x \in DOMAIN roles : ~roles[x].deleted} :
            roles[r].user = roles[s].user /\ roles[r].org = roles[s].org => r = s

\* Whatever runs at the same time, an organisation changes hands by a transfer that
\* its owner asked for when he was the owner, and a deleted one stays deleted: the
\* handlers that save an organisation they read earlier do not undo either.
OnlyByTransfer ==
  \A o \in DOMAIN orgs :
    /\ orgs'[o].owner # orgs[o].owner =>
         \E q \in Request : /\ req[q].op = "transfer" /\ At(q, "saveOrg") /\ req[q].org = o
                            /\ orgs'[o].owner = req[q].user /\ req[q].owner = req[q].me
    /\ orgs[o].deleted => orgs'[o].deleted
HandsChangeByTransfer == [][OnlyByTransfer]_vars
=============================================================================
