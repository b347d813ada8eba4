------------------------------ MODULE Revisions ------------------------------
(***************************************************************************)
(* Revision control of the tag side of the API: the requests that create,  *)
(* rename, delete and copy the entities a revision links directly (its     *)
(* global triggers and its global action group distributions), and those   *)
(* that finalise and duplicate the revision.                               *)
(*                                                                         *)
(* Every `await` of a handler is a point where another request may run, so *)
(* a request is a process that takes one step per read or write of the     *)
(* database.  What a request has read lives in its record `req[q]`; what   *)
(* MongoDB holds lives in `revision` and `model`.                          *)
(*                                                                         *)
(* Abstracted: authorisation, audit records, the children of a trigger or  *)
(* a distribution (there are none here) and the rules that may refer to    *)
(* one (none does, so the check for such a rule always lets a delete pass).*)
(* Names stand for every property of an entity.                            *)
(***************************************************************************)
EXTENDS Naturals, FiniteSets, Sequences, SequencesExt

CONSTANTS
  Revision,     \* ids of revisions
  First,        \* the revision that exists at the start
  Model,        \* ids of entities, in every revision
  Seeded,       \* the entities the first revision starts with
  Kinds,        \* kinds of entities: subset of {"Trigger", "AGD"}
  Names,        \* values of an entity
  Request,      \* requests to the API
  Ops,          \* the operations requested
  MaxElements,  \* getMaxRevisionElements
  Transactions, \* isTransactionSupport
  None          \* no id yet

AllOps == {"create", "update", "delete", "branch", "duplicate", "finalise"}

ASSUME RevisionsAssumption ==
  /\ First \in Revision
  /\ Seeded \subseteq Model /\ IsFiniteSet(Model)
  /\ Kinds \subseteq {"Trigger", "AGD"}
  /\ Ops \subseteq AllOps
  /\ MaxElements \in Nat
  /\ Transactions \in BOOLEAN
  /\ None \notin Model \cup Revision

VARIABLES
  revision, \* the documents of Revision: state, _is_final, links by kind
  model,    \* the documents of the entities: state, kind, _revision_id, name
  req,      \* where each request is and what it has read
  serial    \* history: requests have come one at a time so far

vars == <<revision, model, req, serial>>

NoLinks == [k \in Kinds |-> <<>>]
Idle == [pc |-> "idle", op |-> "none", rev |-> None, kind |-> "none", old |-> None, new |-> None,
         name |-> None, was |-> None, links |-> NoLinks, copies |-> {}, late |-> FALSE]

Ended == {"done", "refused", "failed"}
Running(q) == req[q].pc \notin {"idle"} \cup Ended

\* The entities MongoDB returns: not deleted (the common filter of Repo.find),
\* and not inserted by a transaction that is still open.
Live(m) == model[m].state = "live"
Free == {m \in Model : model[m].state = "free"}
Count(r, k) == Cardinality({m \in Model : Live(m) /\ model[m].rev = r /\ model[m].kind = k})
LinkedIn(links) == UNION {Range(links[k]) : k \in Kinds}

Init ==
  /\ \E kind \in [Seeded -> Kinds], name \in [Seeded -> Names] :
       /\ model = [m \in Model |->
            IF m \in Seeded
              THEN [state |-> "live", kind |-> kind[m], rev |-> First, name |-> name[m]]
              ELSE [state |-> "free", kind |-> "none", rev |-> None, name |-> None]]
       /\ revision = [r \in Revision |->
            [state |-> IF r = First THEN "saved" ELSE "free", final |-> FALSE,
             links |-> [k \in Kinds |->
               IF r = First THEN SetToSeq({m \in Seeded : kind[m] = k}) ELSE <<>>]]]
  /\ req = [q \in Request |-> Idle]
  /\ serial = TRUE

-----------------------------------------------------------------------------
(* The first reads of a handler, and the values it is given.               *)

MayBegin(q, op) == req[q].pc = "idle" /\ op \in Ops

Call(op, pc, r) == [Idle EXCEPT !.op = op, !.pc = pc, !.rev = r, !.late = revision[r].final]
Begin(q, call) ==
  /\ req' = [req EXCEPT ![q] = call]
  /\ serial' = (serial /\ \A p \in Request : ~Running(p))

\* createTrigger, createActionGroupDistribution: the revision is read here and
\* its list of links is the one that is extended and saved at the end.
BeginCreate(q) ==
  /\ MayBegin(q, "create")
  /\ \E r \in Revision, k \in Kinds, n \in Names :
       /\ revision[r].state = "saved"
       /\ Begin(q, [Call("create", "check", r) EXCEPT
                   !.kind = k, !.name = n, !.links = revision[r].links])
  /\ UNCHANGED <<revision, model>>

\* updateTrigger, updateActionGroupDistribution.
BeginUpdate(q) ==
  /\ MayBegin(q, "update")
  /\ \E m \in Model, n \in Names :
       /\ Live(m) /\ revision[model[m].rev].state = "saved"
       /\ Begin(q, [Call("update", "check", model[m].rev) EXCEPT
                   !.kind = model[m].kind, !.old = m, !.name = n, !.was = model[m].name])
  /\ UNCHANGED <<revision, model>>

\* deleteTrigger, deleteActionGroupDistribution, not in preview; no rule uses it.
BeginDelete(q) ==
  /\ MayBegin(q, "delete")
  /\ \E m \in Model :
       /\ Live(m) /\ revision[model[m].rev].state = "saved"
       /\ Begin(q, [Call("delete", "unlinking", model[m].rev) EXCEPT
                   !.kind = model[m].kind, !.old = m])
  /\ UNCHANGED <<revision, model>>

\* duplicateTrigger, duplicateActionGroupDistribution: the entity and its
\* revision are read; the entity is read again before it is copied.
BeginBranch(q) ==
  /\ MayBegin(q, "branch")
  /\ \E m \in Model, n \in Names :
       /\ Live(m) /\ revision[model[m].rev].state = "saved"
       /\ Begin(q, [Call("branch", "reread", model[m].rev) EXCEPT
                   !.kind = model[m].kind, !.old = m, !.name = n,
                   !.links = revision[model[m].rev].links])
  /\ UNCHANGED <<revision, model>>

\* finaliseRevision: the issues are looked for in the revision read here.
BeginFinalise(q) ==
  /\ MayBegin(q, "finalise")
  /\ \E r \in Revision :
       /\ revision[r].state = "saved"
       /\ Begin(q, [Call("finalise", "issues", r) EXCEPT !.links = revision[r].links])
  /\ UNCHANGED <<revision, model>>

\* duplicateRevision: the copy gets its id before anything is copied.
BeginDuplicate(q) ==
  /\ MayBegin(q, "duplicate")
  /\ \E r, to \in Revision :
       /\ revision[r].state = "saved" /\ revision[to].state = "free"
       /\ Begin(q, [Call("duplicate", "copying", r) EXCEPT
                   !.new = to, !.links = revision[r].links])
       /\ revision' = [revision EXCEPT ![to].state = "reserved"]
  /\ UNCHANGED model

-----------------------------------------------------------------------------
(* The steps of UnderRevisionControl and Repo.                             *)

Goto(q, pc) == req' = [req EXCEPT ![q].pc = pc]

\* Where isRevisionFinal returns to when the revision is not final: a create
\* has yet to count, a copy with a forced id is taken for a saved model and is
\* not counted, and a delete is checked twice, in delete and again in save.
AfterCheck(q) ==
  CASE req[q].op = "create" -> "count"
    [] req[q].op = "branch" /\ req[q].new = None -> "insert"
    [] req[q].op = "delete" /\ req[q].pc = "check" -> "recheck"
    [] OTHER -> "write"

\* Mutant: only an insert is checked, not a change of a saved entity.
CheckFinal_Inserts(q) ==
  /\ req[q].pc \in {"check", "recheck"}
  /\ Goto(q, IF revision[req[q].rev].final /\ AfterCheck(q) \in {"count", "insert"}
               THEN "refused" ELSE AfterCheck(q))
  /\ UNCHANGED <<revision, model, serial>>

CheckFinal(q) ==
  /\ req[q].pc \in {"check", "recheck"}
  /\ Goto(q, IF revision[req[q].rev].final THEN "refused" ELSE AfterCheck(q))
  /\ UNCHANGED <<revision, model, serial>>

CheckCount(q) ==
  /\ req[q].pc = "count"
  /\ Goto(q, IF Count(req[q].rev, req[q].kind) >= MaxElements THEN "refused" ELSE "insert")
  /\ UNCHANGED <<revision, model, serial>>

\* A new document: the name given to a create, the name copied for a branch.
Insert(q) ==
  /\ req[q].pc = "insert"
  /\ \E m \in Free :
       /\ model' = [model EXCEPT ![m] =
            [state |-> "live", kind |-> req[q].kind, rev |-> req[q].rev,
             name |-> IF req[q].op = "create" THEN req[q].name ELSE req[q].was]]
       /\ req' = [req EXCEPT ![q].new = m, ![q].pc = "link"]
  /\ UNCHANGED <<revision, serial>>

\* Mutant: the entity replaces the list.
Link_Only(q) ==
  /\ req[q].pc = "link"
  /\ revision' = [revision EXCEPT ![req[q].rev].links[req[q].kind] = <<req[q].new>>]
  /\ Goto(q, IF req[q].op = "create" THEN "done" ELSE "check")
  /\ UNCHANGED <<model, serial>>

\* The whole list is saved: the one read at the start, and the new entity.
\* Nothing checks that the revision is not final.  A copy is then renamed.
Link(q) ==
  /\ req[q].pc = "link"
  /\ revision' = [revision EXCEPT ![req[q].rev].links[req[q].kind] =
                    Append(req[q].links[req[q].kind], req[q].new)]
  /\ Goto(q, IF req[q].op = "create" THEN "done" ELSE "check")
  /\ UNCHANGED <<model, serial>>

\* duplicateModelWithSession fetches a clean copy of the entity.
Reread(q) ==
  /\ req[q].pc = "reread"
  /\ IF Live(req[q].old)
       THEN req' = [req EXCEPT ![q].was = model[req[q].old].name, ![q].pc = "check"]
       ELSE Goto(q, "failed")
  /\ UNCHANGED <<revision, model, serial>>

\* findOneAndUpdate by id: only what differs from what was read is set.
Target(q) == IF req[q].op = "branch" THEN req[q].new ELSE req[q].old
Write(q) ==
  /\ req[q].pc = "write"
  /\ model' =
       IF req[q].op = "delete" THEN [model EXCEPT ![Target(q)].state = "deleted"]
       ELSE IF req[q].name # req[q].was THEN [model EXCEPT ![Target(q)].name = req[q].name]
       ELSE model
  /\ Goto(q, "done")
  /\ UNCHANGED <<revision, serial>>

\* A list filtered of m, which it holds at most once (OwnLinks).
Without(l, m) ==
  LET at == {i \in DOMAIN l : l[i] = m}
  IN  IF at = {} THEN l ELSE RemoveAt(l, CHOOSE i \in at : TRUE)

\* unLinkFromRevision reads the revision...
ReadLinks(q) ==
  /\ req[q].pc = "unlinking"
  /\ req' = [req EXCEPT ![q].links = revision[req[q].rev].links, ![q].pc = "unlink"]
  /\ UNCHANGED <<revision, model, serial>>

\* ... and saves it without the entity, in the list of the triggers whatever
\* the kind of the entity, and before it is known whether it may be deleted.
\* (Mutant: in the other list.)
Unlinked_Other(links, m) ==
  [k \in DOMAIN links |-> IF k = "AGD" THEN Without(links[k], m) ELSE links[k]]
Unlinked(links, m) ==
  [k \in DOMAIN links |-> IF k = "Trigger" THEN Without(links[k], m) ELSE links[k]]
Unlink(q) ==
  /\ req[q].pc = "unlink"
  /\ LET was == req[q].links
         now == Unlinked(was, req[q].old)
     IN  revision' = [revision EXCEPT ![req[q].rev].links =
           [k \in Kinds |-> IF now[k] # was[k] THEN now[k] ELSE @[k]]]
  /\ Goto(q, "check")
  /\ UNCHANGED <<model, serial>>

-----------------------------------------------------------------------------
(* finaliseRevision.                                                       *)

\* diff fetches every linked entity and throws when one is missing; issues with
\* the platforms may be found in any revision.
FindIssues(q) ==
  /\ req[q].pc = "issues"
  /\ IF \A m \in LinkedIn(req[q].links) : Live(m)
       THEN \E pc \in {"mark", "refused"} : Goto(q, pc)
       ELSE Goto(q, "failed")
  /\ UNCHANGED <<revision, model, serial>>

Mark(q) ==
  /\ req[q].pc = "mark"
  /\ revision' = [revision EXCEPT ![req[q].rev].final = TRUE]
  /\ Goto(q, "done")
  /\ UNCHANGED <<model, serial>>

-----------------------------------------------------------------------------
(* duplicateRevision.                                                      *)

Copied(q) == {c[1] : c \in req[q].copies}
CopyOf(q, m) == (CHOOSE c \in req[q].copies : c[1] = m)[2]

\* Mutant: the values are not copied.
CopyOne_Blank(q) ==
  /\ req[q].pc = "copying"
  /\ \E o \in LinkedIn(req[q].links) \ Copied(q), n \in Free :
       /\ Live(o)
       /\ model' = [model EXCEPT ![n] =
            [state |-> IF Transactions THEN "pending" ELSE "live",
             kind |-> model[o].kind, rev |-> req[q].new, name |-> CHOOSE x \in Names : TRUE]]
       /\ req' = [req EXCEPT ![q].copies = @ \cup {<<o, n>>}]
  /\ UNCHANGED <<revision, serial>>

\* One linked entity is read and its copy inserted, in any order.  The new
\* revision is not there yet, so it is not final.  (The read and the insert are
\* two awaits; as no other request looks at the copies of a revision that is not
\* there yet, they can be taken together at the moment of the read.)
CopyOne(q) ==
  /\ req[q].pc = "copying"
  /\ \E o \in LinkedIn(req[q].links) \ Copied(q), n \in Free :
       /\ Live(o)
       /\ model' = [model EXCEPT ![n] =
            [state |-> IF Transactions THEN "pending" ELSE "live",
             kind |-> model[o].kind, rev |-> req[q].new, name |-> model[o].name]]
       /\ req' = [req EXCEPT ![q].copies = @ \cup {<<o, n>>}]
  /\ UNCHANGED <<revision, serial>>

\* A linked entity is missing, or the copies already inserted are as many as a
\* revision may hold (a count made earlier may have missed them).
CopyFails(q) ==
  /\ req[q].pc = "copying"
  /\ \E o \in LinkedIn(req[q].links) \ Copied(q) :
       ~Live(o) \/ Count(req[q].new, model[o].kind) >= MaxElements
  /\ model' = [m \in Model |->
       IF m \in {CopyOf(q, o) : o \in Copied(q)} /\ model[m].state = "pending"
         THEN [state |-> "free", kind |-> "none", rev |-> None, name |-> None] ELSE model[m]]
  /\ Goto(q, "failed")
  /\ UNCHANGED <<revision, serial>>

\* Mutant: the ids of the children are copied, not the children.
SaveDuplicate_Shared(q) ==
  /\ req[q].pc = "copying" /\ LinkedIn(req[q].links) = Copied(q)
  /\ revision' = [revision EXCEPT ![req[q].new] =
       [state |-> "saved", final |-> FALSE, links |-> req[q].links]]
  /\ Goto(q, "done")
  /\ UNCHANGED <<model, serial>>

\* The parent is saved last, not final, linked to the copies.
SaveDuplicate(q) ==
  /\ req[q].pc = "copying" /\ LinkedIn(req[q].links) = Copied(q)
  /\ revision' = [revision EXCEPT ![req[q].new] =
       [state |-> "saved", final |-> FALSE,
        links |-> [k \in Kinds |->
          [i \in DOMAIN req[q].links[k] |-> CopyOf(q, req[q].links[k][i])]]]]
  /\ model' = [m \in Model |->
       IF m \in {CopyOf(q, o) : o \in Copied(q)} /\ model[m].state = "pending"
         THEN [model[m] EXCEPT !.state = "live"] ELSE model[m]]
  /\ Goto(q, "done")
  /\ UNCHANGED serial

-----------------------------------------------------------------------------
Step(q) ==
  \/ BeginCreate(q) \/ BeginUpdate(q) \/ BeginDelete(q)
  \/ BeginBranch(q) \/ BeginFinalise(q) \/ BeginDuplicate(q)
  \/ CheckFinal(q) \/ CheckCount(q) \/ Insert(q) \/ Link(q) \/ Reread(q) \/ Write(q)
  \/ ReadLinks(q) \/ Unlink(q)
  \/ FindIssues(q) \/ Mark(q)
  \/ CopyOne(q) \/ CopyFails(q) \/ SaveDuplicate(q)

Next == \E q \in Request : Step(q)
Spec == Init /\ [][Next]_vars
=============================================================================
