-------------------------- MODULE PublicationProps --------------------------
(***************************************************************************)
(* The properties of the deployment of environments.                       *)
(***************************************************************************)
EXTENDS Publication

\* Tag clients are never served a draft (revisionNotFinalAttaching), in no interleaving of
\* creations, updates, edits and finalisations.  What they are served is the revision as
\* it was when it became final, and of what came after that at most the edits that had
\* passed their check by then and the unlinking of deleted entities, which is not checked
\* at all: the revision is not quite "finalised and locked to prevent further changes" (RevisionManager.ts, locked).
PublishedIsFinal ==
    kind = "tag" => \A f \in File : bucket[f] # None =>
        LET r == bucket[f].rev
        IN  /\ final[r]
            /\ bucket[f].content \in sealed[r] .. sealed[r] + late[r] + cuts[r]

\* Environments that are live never share a custom domain ("Unable to create as it
\* would override another configuration potentially", createEnvironment), unless
\* two creations for it were in progress at once: the check and the insert are
\* apart.
OneOwner ==
    \A e, f \in Env :
        Live(e) /\ Live(f) /\ e # f /\ env[e].domain = env[f].domain =>
            env[e].domain \in raced \cup {None}

\* When a request that nobody disturbed has returned, the bucket serves the
\* environment as the database has it, under its id and under its domain,
\* whatever failed, raced or was abandoned before.
Deployed(e) ==
    [env |-> e, rev |-> env[e].rev, content |-> content[env[e].rev],
     vars |-> env[e].vars, provider |-> e \in provider]
CompletedAgrees ==
    \A p \in Request :
        LET e == req[p].env
        IN  req[p].pc = "done" /\ req[p].alone /\ Live(e) =>
                /\ bucket[e] = Deployed(e)
                /\ env[e].domain # None => bucket[env[e].domain] = Deployed(e)

\* No request undoes what another has done since it read the environment: a deleted
\* environment stays deleted, and its revision changes only by the update that asked
\* for it (Repo.save sets the changed fields only).
DeletedStaysDeleted(e) == env[e].deleted => env'[e].deleted
RevisionOnlyByUpdate(e) ==
    env'[e].rev # env[e].rev =>
        \E p \in Request : /\ req[p].pc = "save" /\ req'[p].pc = "build"
                           /\ req[p].op = "update" /\ req[p].env = e
                           /\ env'[e].rev = req[p].rev
NothingUndone ==
    [][\A e \in Env : env[e] # None => DeletedStaysDeleted(e) /\ RevisionOnlyByUpdate(e)]_vars
=============================================================================
