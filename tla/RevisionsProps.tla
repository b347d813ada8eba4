--------------------------- MODULE RevisionsProps ---------------------------
(***************************************************************************)
(* What the revision control of the API has to guarantee.                  *)
(***************************************************************************)
EXTENDS Revisions

ModelDoc ==
  [state : {"free"}, kind : {"none"}, rev : {None}, name : {None}]
    \cup [state : {"pending", "live", "deleted"}, kind : Kinds, rev : Revision, name : Names]
Links == [Kinds -> Seq(Model)]
Pcs == {"idle", "check", "recheck", "count", "insert", "link", "reread", "write", "unlinking",
        "unlink", "issues", "mark", "copying"} \cup Ended
RevisionDoc == [state : {"free", "reserved", "saved"}, final : BOOLEAN, links : Links]
ReqDoc ==
  [pc : Pcs, op : AllOps \cup {"none"}, rev : Revision \cup {None}, kind : Kinds \cup {"none"},
   old : Model \cup {None}, new : Model \cup Revision \cup {None},
   name : Names \cup {None}, was : Names \cup {None}, links : Links,
   copies : SUBSET (Model \X Model), late : BOOLEAN]

\* The shape of the database and of what the requests remember.
TypeOK ==
  /\ revision \in [Revision -> RevisionDoc]
  /\ model \in [Model -> ModelDoc]
  /\ req \in [Request -> ReqDoc]
  /\ serial \in BOOLEAN

Quiet == \A q \in Request : ~Running(q)
Saved(r) == revision[r].state = "saved"
Linked(r) == LinkedIn(revision[r].links)
\* What a revision consists of: its entities and their values.
Content(r) == [m \in {x \in Model : Live(x) /\ model[x].rev = r} |-> model[m].name]

\* No two revisions share an entity, whatever runs at the same time: what a
\* revision links was inserted for that revision, in the list of its kind, once
\* (duplicateModel copies the children before it links them).
OwnLinks ==
  \A r \in Revision, k \in Kinds :
    LET l == revision[r].links[k]
    IN  /\ \A i \in DOMAIN l : model[l[i]].rev = r /\ model[l[i]].kind = k
        /\ \A i, j \in DOMAIN l : l[i] = l[j] => i = j

\* RevisionManager.ts, locked: "Revision has been finalised and locked to prevent further
\* changes".  A request that begins when its revision is final, whatever runs beside it,
\* changes nothing of that revision's entities: isRevisionFinal refuses.  Of the links it
\* changes at most one list, by a delete, which saves the revision unchecked before its
\* entity is refused (unLinkFromRevision): that list becomes what the delete read,
\* without its entity, whatever was linked meanwhile.
UnlinksOne(q) ==
  LET c == req[q]
  IN  \A k \in Kinds :
        \/ revision'[c.rev].links[k] = revision[c.rev].links[k]
        \/ /\ k = "Trigger" /\ c.op = "delete" /\ c.pc = "unlink"
           /\ Range(revision'[c.rev].links[k]) = Range(c.links[k]) \ {c.old}
LateOnlyUnlinks ==
  [][\A q \in Request :
       (req[q].late /\ req'[q] # req[q]) =>
         /\ Content(req[q].rev)' = Content(req[q].rev)
         /\ revision'[req[q].rev].final
         /\ UnlinksOne(q)]_vars

\* Whoever opens, finalises, duplicates or publishes a saved revision fetches
\* every trigger it links (findByIds throws when one is missing; distributions are
\* left in the list when they are deleted).
LinksResolve ==
  serial => \A r \in Revision : Saved(r) =>
    \A k \in Kinds \cap {"Trigger"} : \A m \in Range(revision[r].links[k]) : Live(m)

\* Between requests that come one at a time, an entity of a revision that is not final is linked by
\* it: it is not in the database without being in the revision.
NothingLost ==
  serial /\ Quiet => \A m \in Model :
    (Live(m) /\ Saved(model[m].rev) /\ ~revision[model[m].rev].final) => m \in Linked(model[m].rev)

\* "Duplicate revision will clone any linked items and return a new revision":
\* the new revision has, in the same order, entities with the same values, unless
\* somebody changes them meanwhile.
DuplicateIsExact ==
  [][serial' => \A q \in Request :
       (req[q].op = "duplicate" /\ req'[q].pc = "done" /\ req[q].pc # "done") =>
         \A k \in Kinds :
           LET from == revision[req[q].rev].links[k]
               to == revision'[req[q].new].links[k]
           IN  /\ Len(from) = Len(to)
               /\ \A i \in DOMAIN from : /\ from[i] # to[i]
                                         /\ model'[to[i]].name = model[from[i]].name
                                         /\ model'[to[i]].state = "live"]_vars

=============================================================================
