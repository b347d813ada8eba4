--------------------------- MODULE RevisionsProofs ---------------------------
(***************************************************************************)
(* Theorems about the revision control of the API, for any revisions,      *)
(* entities, kinds and requests, with and without transactions, in any     *)
(* overlap of the requests.                                                *)
(***************************************************************************)
EXTENDS RevisionsProps, FiniteSetTheorems, SequenceTheorems, TLAPS

\* Where a request for an operation can be.
Path(op) ==
  CASE op = "create"    -> {"check", "count", "insert", "link"}
    [] op = "update"    -> {"check", "write"}
    [] op = "delete"    -> {"unlinking", "unlink", "check", "recheck", "write"}
    [] op = "branch"    -> {"reread", "check", "insert", "link", "write"}
    [] op = "finalise"  -> {"issues", "mark"}
    [] op = "duplicate" -> {"copying"}
    [] OTHER            -> {}

\* A list of entities of one kind, inserted for one revision, each there once.
Owned(l, r, k) ==
  /\ \A i \in DOMAIN l : model[l[i]].rev = r /\ model[l[i]].kind = k
  /\ \A i, j \in DOMAIN l : l[i] = l[j] => i = j
Belongs(m, c) == m \in Model /\ model[m].rev = c.rev

\* What a request c knows: it works on a saved revision, and the links it has read
\* are that revision's own, so that what it puts back is, too.
Placed(c) ==
  IF c.pc = "idle" THEN c = Idle
  ELSE c.rev \in Revision /\ Saved(c.rev) /\ c.pc \in Path(c.op) \cup Ended
Snapshot(c) == \A k \in Kinds : Owned(c.links[k], c.rev, k)

\* The entity it inserts, changes or deletes is of that revision.
NewOne(c) ==
  /\ c.pc = "insert" => c.kind \in Kinds
  /\ c.op = "create" /\ c.pc \notin Ended => c.kind \in Kinds /\ c.name \in Names
  /\ c.op \in {"update", "delete"} => Belongs(c.old, c) /\ c.name \in Names \cup {None}
  /\ c.op = "update" => c.name \in Names
  /\ c.op = "branch" => /\ c.kind \in Kinds /\ c.name \in Names
                        /\ c.old \in Model
                        /\ c.new = None \/ Belongs(c.new, c)
                        /\ c.pc \in {"check", "insert", "link", "write"} => c.was \in Names
                        /\ c.pc = "write" => c.new # None
  /\ c.pc = "link" => /\ Belongs(c.new, c) /\ c.kind \in Kinds
                      /\ model[c.new].kind = c.kind
                      /\ c.new \notin Range(c.links[c.kind])

\* A duplication has a revision of its own to copy into, where nothing else is.
Copying(c) ==
  c.pc = "copying" =>
    /\ c.new \in Revision /\ revision[c.new].state = "reserved"
    /\ \A x \in c.copies : /\ x[1] \in LinkedIn(c.links)
                           /\ model[x[2]].rev = c.new
                           /\ model[x[2]].kind = model[x[1]].kind
    /\ \A x, y \in c.copies : x[1] = y[1] <=> x[2] = y[2]
    /\ \A m \in Model : model[m].rev = c.new => \E x \in c.copies : x[2] = m

\* A request that came after the revision was final gets past no check.
Late(c) ==
  c.late => /\ c.rev \in Revision /\ revision[c.rev].final
            /\ c.pc \notin {"count", "insert", "link", "recheck", "write"}

Fits(c) == Placed(c) /\ Snapshot(c) /\ NewOne(c) /\ Copying(c) /\ Late(c)

CopiesInto(q, r) == req[q].pc = "copying" /\ req[q].new = r

DocsInv ==
  /\ OwnLinks
  /\ \A r \in Revision : ~Saved(r) => \A k \in Kinds : revision[r].links[k] = <<>>
  /\ \A m \in Model : model[m].rev \in Revision => revision[model[m].rev].state # "free"
  /\ \A m \in Model : model[m].state = "pending" =>
       \E q \in Request : CopiesInto(q, model[m].rev)
  /\ \A p, q \in Request, r \in Revision : CopiesInto(p, r) /\ CopiesInto(q, r) => p = q

RevInv == TypeOK /\ DocsInv /\ \A q \in Request : Fits(req[q])

-----------------------------------------------------------------------------
(* As long as the requests come one at a time.                             *)

\* The links a request has read are still those of the revision.
Current(c) ==
  \/ c.op = "create" \/ (c.op = "branch" /\ c.new = None)
  \/ c.pc \in {"insert", "link", "unlink", "issues", "mark", "copying"}

\* An entity that is between the database and its revision.
Halfway(c, m) ==
  \/ c.pc = "link" /\ c.new = m
  \/ c.op = "delete" /\ c.pc \in {"check", "recheck", "write"} /\ c.old = m

\* What a request that runs alone can rely on: what it has read and written is still
\* there, and what it deletes is in no list of triggers any more.
Undisturbed(c) ==
  /\ Current(c) => c.links = revision[c.rev].links
  /\ c.pc = "link" => Live(c.new)
  /\ c.op = "delete" /\ c.pc \in {"check", "recheck", "write"} =>
       \A k \in Kinds \cap {"Trigger"} : c.old \notin Range(revision[c.rev].links[k])
  /\ c.pc = "copying" => \A x \in c.copies :
       /\ model[x[2]].state \in {"pending", "live"}
       /\ model[x[2]].name = model[x[1]].name

Resolves ==
  \A r \in Revision : Saved(r) =>
    \A k \in Kinds \cap {"Trigger"} : \A m \in Range(revision[r].links[k]) : Live(m)
Open(m) == Live(m) /\ Saved(model[m].rev) /\ ~revision[model[m].rev].final

SerialInv ==
  serial =>
    /\ \A q \in Request : Running(q) => /\ \A p \in Request : Running(p) => p = q
                                        /\ Undisturbed(req[q])
    /\ Resolves
    /\ \A m \in Model :
         Open(m) => m \in Linked(model[m].rev) \/ \E q \in Request : Halfway(req[q], m)

-----------------------------------------------------------------------------
(* Lists of entities.                                                      *)

\* Filtering an entity out of a list takes out that entity and no other.
LEMMA WithoutOne ==
  ASSUME NEW l \in Seq(Model), NEW m,
         \A i, j \in DOMAIN l : l[i] = l[j] => i = j
  PROVE  /\ Without(l, m) \in Seq(Model)
         /\ Range(Without(l, m)) = Range(l) \ {m}
         /\ \A i, j \in DOMAIN Without(l, m) : Without(l, m)[i] = Without(l, m)[j] => i = j
<1> DEFINE at == {i \in DOMAIN l : l[i] = m}
<1>1. CASE at = {}
  <2>1. Without(l, m) = l
    BY <1>1 DEF Without
  <2>2. m \notin Range(l)
    BY <1>1 DEF Range
  <2> QED BY <2>1, <2>2
<1>2. CASE at # {}
  <2> DEFINE n == CHOOSE i \in at : TRUE
  <2> DEFINE w == RemoveAt(l, n)
  <2>1. n \in at
    BY <1>2
  <2>2. Without(l, m) = w
    BY <1>2 DEF Without
  <2> HIDE DEF n
  <2>3. n \in 1 .. Len(l) /\ l[n] = m /\ Len(l) \in Nat
    BY <2>1
  <2>4. /\ SubSeq(l, 1, n-1) \in Seq(Model) /\ Len(SubSeq(l, 1, n-1)) = n - 1
        /\ \A i \in 1 .. n-1 : SubSeq(l, 1, n-1)[i] = l[i]
    BY <2>3
  <2>5. /\ SubSeq(l, n+1, Len(l)) \in Seq(Model) /\ Len(SubSeq(l, n+1, Len(l))) = Len(l) - n
        /\ \A i \in 1 .. Len(l)-n : SubSeq(l, n+1, Len(l))[i] = l[n+i]
    BY <2>3
  <2>6. /\ w \in Seq(Model) /\ Len(w) = Len(l) - 1
        /\ \A i \in 1 .. Len(l)-1 : w[i] = IF i < n THEN l[i] ELSE l[i+1]
    <3> DEFINE front == SubSeq(l, 1, n-1)
    <3> DEFINE back == SubSeq(l, n+1, Len(l))
    <3>1. w = front \o back
      BY DEF RemoveAt
    <3> HIDE DEF front, back, w
    <3>2. /\ w \in Seq(Model) /\ Len(w) = Len(front) + Len(back)
          /\ \A i \in 1 .. Len(front) + Len(back) :
                w[i] = IF i <= Len(front) THEN front[i] ELSE back[i - Len(front)]
      BY <2>4, <2>5, <3>1, ConcatProperties DEF front, back
    <3>3. Len(front) = n - 1 /\ Len(back) = Len(l) - n
      BY <2>4, <2>5 DEF front, back
    <3>4. ASSUME NEW i \in 1 .. Len(l)-1 PROVE w[i] = IF i < n THEN l[i] ELSE l[i+1]
      <4>1. CASE i < n
        <5>1. i \in 1 .. n-1 /\ front[i] = l[i]
          BY <2>3, <2>4, <3>4, <4>1 DEF front
        <5> QED BY <2>3, <3>2, <3>3, <4>1, <5>1
      <4>2. CASE ~(i < n)
        <5>1. i - (n-1) \in 1 .. Len(l)-n /\ back[i-(n-1)] = l[n + (i-(n-1))]
          BY <2>3, <2>5, <3>4, <4>2 DEF back
        <5>2. n + (i-(n-1)) = i + 1
          BY <2>3
        <5> QED BY <2>3, <3>2, <3>3, <4>2, <5>1, <5>2
      <4> QED BY <4>1, <4>2
    <3> QED BY <2>3, <3>2, <3>3, <3>4
  <2> HIDE DEF w
  <2>7. ASSUME NEW i \in DOMAIN w, NEW j \in DOMAIN w, w[i] = w[j] PROVE i = j
    <3> DEFINE a == IF i < n THEN i ELSE i + 1
    <3> DEFINE b == IF j < n THEN j ELSE j + 1
    <3>1. a \in DOMAIN l /\ b \in DOMAIN l /\ l[a] = l[b]
      BY <2>3, <2>6, <2>7
    <3>2. a = b
      BY <3>1
    <3> QED BY <2>3, <2>6, <3>2
  <2>8. \A i \in DOMAIN w : w[i] \in Range(l) \ {m}
    BY <2>3, <2>6 DEF Range
  <2>9. \A i \in DOMAIN l : l[i] # m => l[i] \in Range(w)
    <3> SUFFICES ASSUME NEW i \in DOMAIN l, l[i] # m PROVE \E j \in DOMAIN w : w[j] = l[i]
      BY DEF Range
    <3>1. CASE i < n
      BY <2>3, <2>6, <3>1
    <3>2. CASE i > n
      <4>1. i - 1 \in DOMAIN w /\ w[i-1] = l[i]
        BY <2>3, <2>6, <3>2
      <4> QED BY <4>1
    <3> QED BY <2>3, <3>1, <3>2
  <2> QED BY <2>2, <2>6, <2>7, <2>8, <2>9 DEF Range
<1> QED BY <1>1, <1>2

\* A finite set as a list has none of its elements twice.
LEMMA ListOfSet ==
  ASSUME NEW S, IsFiniteSet(S)
  PROVE  /\ SetToSeq(S) \in Seq(S) /\ Range(SetToSeq(S)) = S
         /\ \A i, j \in DOMAIN SetToSeq(S) : SetToSeq(S)[i] = SetToSeq(S)[j] => i = j
<1> DEFINE n == Cardinality(S)
<1>1. n \in Nat /\ ExistsBijection(1 .. n, S)
  BY FS_CardinalityType
<1> HIDE DEF n
<1>2. \E f \in [1 .. n -> S] : IsInjective(f)
  BY <1>1 DEF ExistsBijection, Bijection, Injection
<1> DEFINE l == SetToSeq(S)
<1>3. l \in [1 .. n -> S] /\ IsInjective(l)
  BY <1>2 DEF SetToSeq, n
<1> HIDE DEF l
<1>4. l \in Seq(S) /\ DOMAIN l = 1 .. n
  BY <1>1, <1>3
<1>5. l \in Surjection(1 .. n, S)
  <2>1. IsFiniteSet(1 .. n) /\ Cardinality(1 .. n) = n
    BY <1>1, FS_Interval
  <2>2. l \in Injection(1 .. n, S)
    BY <1>3 DEF Injection
  <2> QED BY <2>1, <2>2, FS_Injection DEF n
<1>6. Range(l) = S
  BY <1>4, <1>5 DEF Surjection, Range
<1> QED BY <1>3, <1>4, <1>6 DEF IsInjective, l

-----------------------------------------------------------------------------
(* What a request leaves alone.                                            *)

\* A step of q touches no saved revision but to make it final or to change its
\* links, and no entity that was inserted for another revision.
Keeps(q) ==
  /\ \A r \in Revision : Saved(r) => Saved(r)' /\ (revision[r].final => revision'[r].final)
  /\ \A r \in Revision : revision[r].state = "reserved" /\ ~CopiesInto(q, r) =>
                           revision'[r].state = "reserved"
  /\ \A m \in Model : model[m].rev # None /\ ~CopiesInto(q, model[m].rev) =>
                        model'[m].rev = model[m].rev /\ model'[m].kind = model[m].kind
  /\ \A r \in Revision : revision[r].state # "free" => revision'[r].state # "free"
  /\ \A m \in Model :
       /\ model'[m].rev \in Revision
       /\ ~Saved(model'[m].rev) /\ ~CopiesInto(q, model'[m].rev)
       => model'[m].rev = model[m].rev

\* A saved revision is no one's to copy into.
LEMMA SavedIsOld ==
  ASSUME RevInv, NEW q \in Request, NEW r, Saved(r)
  PROVE  ~CopiesInto(q, r)
BY DEF RevInv, Fits, Copying, CopiesInto, Saved

LEMMA NoneIsNoRevision == None \notin Revision /\ None \notin Model
BY RevisionsAssumption

\* What holds of a request's record goes on to hold, whatever another does.
LEMMA FitsOn ==
  ASSUME RevInv, NEW q \in Request, Keeps(q), NEW c \in ReqDoc, Fits(c),
         c.pc = "copying" => ~CopiesInto(q, c.new)
  PROVE  Fits(c)'
<1>1. Placed(c)'
  BY DEF Fits, Placed, Keeps
<1>2. c.pc # "idle" => c.rev \in Revision /\ Saved(c.rev) /\ ~CopiesInto(q, c.rev)
  BY SavedIsOld DEF Fits, Placed
<1>3. ASSUME NEW m \in Model, c.pc # "idle", model[m].rev = c.rev
      PROVE  model'[m].rev = c.rev /\ model'[m].kind = model[m].kind
  BY <1>2, <1>3, NoneIsNoRevision DEF Keeps
<1>4. Snapshot(c)'
  <2>1. CASE c.pc = "idle"
    BY <2>1 DEF Fits, Placed, Idle, NoLinks, Snapshot, Owned
  <2>2. CASE c.pc # "idle"
    <3> SUFFICES ASSUME NEW k \in Kinds PROVE Owned(c.links[k], c.rev, k)'
      BY DEF Snapshot
    <3>1. Owned(c.links[k], c.rev, k)
      BY DEF Fits, Snapshot
    <3>2. \A i \in DOMAIN c.links[k] : c.links[k][i] \in Model
      BY DEF ReqDoc, Links
    <3> QED BY <1>3, <2>2, <3>1, <3>2 DEF Owned
  <2> QED BY <2>1, <2>2
<1>5. NewOne(c)'
  <2>1. CASE c.pc = "idle"
    BY <2>1 DEF Fits, Placed, Idle, NewOne, Ended
  <2>2. CASE c.pc # "idle"
    <3>1. \A m : Belongs(m, c) => Belongs(m, c)' /\ model'[m].kind = model[m].kind
      BY <1>3, <2>2 DEF Belongs
    <3> QED BY <3>1 DEF Fits, NewOne
  <2> QED BY <2>1, <2>2
<1>6. Copying(c)'
  <2> SUFFICES ASSUME c.pc = "copying" PROVE Copying(c)'
    BY DEF Copying
  <2>1. /\ c.new \in Revision /\ revision[c.new].state = "reserved"
        /\ \A x \in c.copies : /\ x[1] \in LinkedIn(c.links)
                               /\ model[x[2]].rev = c.new
                               /\ model[x[2]].kind = model[x[1]].kind
        /\ \A x, y \in c.copies : x[1] = y[1] <=> x[2] = y[2]
        /\ \A m \in Model : model[m].rev = c.new => \E x \in c.copies : x[2] = m
    BY DEF Fits, Copying
  <2>2. revision'[c.new].state = "reserved"
    BY <2>1 DEF Keeps
  <2>3. \A m \in Model : model[m].rev = c.new =>
                           model'[m].rev = c.new /\ model'[m].kind = model[m].kind
    BY <2>1, NoneIsNoRevision DEF Keeps
  <2>4. ASSUME NEW m \in LinkedIn(c.links) PROVE m \in Model /\ model'[m].kind = model[m].kind
    <3>1. PICK k \in Kinds : m \in Range(c.links[k])
      BY DEF LinkedIn
    <3>2. PICK i \in DOMAIN c.links[k] : m = c.links[k][i]
      BY <3>1 DEF Range
    <3>3. m \in Model /\ model[m].rev = c.rev
      BY <3>2 DEF Fits, Snapshot, Owned, ReqDoc, Links
    <3> QED BY <1>3, <3>3
  <2>5. \A x \in c.copies : x[2] \in Model
    BY DEF ReqDoc
  <2>6. ASSUME NEW m \in Model, model'[m].rev = c.new PROVE model[m].rev = c.new
    BY <2>1, <2>2, <2>6 DEF Keeps, Saved
  <2> QED BY <2>1, <2>2, <2>3, <2>4, <2>5, <2>6 DEF Copying
<1>7. Late(c)'
  BY DEF Fits, Late, Placed, Idle, Keeps
<1> QED BY <1>1, <1>4, <1>5, <1>6, <1>7 DEF Fits

\* A step of q is right when what q knows after it is.
LEMMA StepFits ==
  ASSUME RevInv, NEW q \in Request, Keeps(q), NEW c, req' = [req EXCEPT ![q] = c],
         Fits(req[q])'
  PROVE  \A p \in Request : Fits(req[p])'
<1> SUFFICES ASSUME NEW p \in Request, p # q PROVE Fits(req[p])'
  OBVIOUS
<1>1. req'[p] = req[p] /\ req[p] \in ReqDoc /\ Fits(req[p])
  BY DEF RevInv, TypeOK
<1>2. req[p].pc = "copying" => ~CopiesInto(q, req[p].new)
  BY <1>1 DEF RevInv, DocsInv, CopiesInto, Fits, Copying
<1>3. \A d \in ReqDoc : Fits(d) /\ (d.pc = "copying" => ~CopiesInto(q, d.new)) => Fits(d)'
  BY FitsOn
<1> QED BY <1>1, <1>2, <1>3

\* A request that goes on to another line of its handler.
MayGoTo(q, pc) ==
  /\ pc \in (Path(req[q].op) \cup Ended) \ {"link", "copying"}
  /\ pc = "insert" => req[q].kind \in Kinds
  /\ req[q].op = "branch" =>
       /\ pc \in {"check", "insert", "write"} => req[q].was \in Names
       /\ pc = "write" => req[q].new # None
  /\ req[q].late => pc \notin {"count", "insert", "link", "recheck", "write"}

LEMMA GotoFits ==
  ASSUME RevInv, NEW q \in Request, Running(q), Keeps(q), NEW pc, Goto(q, pc), MayGoTo(q, pc)
  PROVE  Fits(req[q])'
<1> DEFINE c == req[q]
<1>1. c \in ReqDoc /\ Fits(c) /\ c.pc \notin Ended /\ c.pc # "idle"
  BY DEF RevInv, TypeOK, Running
<1>2. req'[q] = [c EXCEPT !.pc = pc]
  BY DEF Goto, RevInv, TypeOK
<1>3. /\ req'[q].pc = pc /\ req'[q].op = c.op /\ req'[q].rev = c.rev /\ req'[q].kind = c.kind
      /\ req'[q].old = c.old /\ req'[q].new = c.new /\ req'[q].name = c.name
      /\ req'[q].was = c.was /\ req'[q].links = c.links /\ req'[q].late = c.late
  BY <1>1, <1>2 DEF ReqDoc
<1>4. pc \notin {"idle", "link", "copying"}
  BY DEF MayGoTo, Path, Ended
<1> DEFINE d == [c EXCEPT !.pc = "done"]
<1>5. d \in ReqDoc /\ Fits(d) /\ d.pc = "done"
  <2>1. d \in ReqDoc
    BY <1>1 DEF ReqDoc, Pcs, Ended
  <2>2. /\ d.pc = "done" /\ d.op = c.op /\ d.rev = c.rev /\ d.kind = c.kind
        /\ d.old = c.old /\ d.new = c.new /\ d.name = c.name
        /\ d.was = c.was /\ d.links = c.links /\ d.late = c.late
    BY <1>1 DEF ReqDoc
  <2> HIDE DEF d, c
  <2>3. Placed(d) /\ Snapshot(d) /\ Copying(d) /\ Late(d)
    BY <1>1, <2>2 DEF Fits, Placed, Snapshot, Copying, Late, Ended
  <2>4. NewOne(d)
    BY <1>1, <2>2 DEF Fits, NewOne, Ended, Belongs
  <2> QED BY <2>1, <2>2, <2>3, <2>4 DEF Fits
<1>6. /\ d.op = c.op /\ d.rev = c.rev /\ d.kind = c.kind
      /\ d.old = c.old /\ d.new = c.new /\ d.name = c.name
      /\ d.was = c.was /\ d.links = c.links /\ d.late = c.late
  BY <1>1 DEF ReqDoc
<1>7. PICK e \in ReqDoc : /\ Fits(e) /\ e.pc = "done"
                          /\ e.op = c.op /\ e.rev = c.rev /\ e.kind = c.kind
                          /\ e.old = c.old /\ e.new = c.new /\ e.name = c.name
                          /\ e.was = c.was /\ e.links = c.links /\ e.late = c.late
  BY <1>5, <1>6
<1>8. Fits(e)'
  BY <1>7, FitsOn
<1>9. c.op = "create" => c.kind \in Kinds /\ c.name \in Names
  BY <1>1 DEF Fits, NewOne
<1> HIDE DEF c, d
<1>10. Placed(req[q])'
  BY <1>3, <1>4, <1>7, <1>8 DEF Fits, Placed, MayGoTo, Ended, c
<1>11. Snapshot(req[q])' /\ Late(req[q])'
  BY <1>3, <1>7, <1>8 DEF Fits, Snapshot, Late, MayGoTo, c
<1>12. NewOne(req[q])'
  BY <1>3, <1>4, <1>7, <1>8, <1>9 DEF Fits, NewOne, MayGoTo, Belongs, c
<1> QED BY <1>3, <1>4, <1>10, <1>11, <1>12 DEF Fits, Copying

\* The links of a revision that the step of q does not change are still its own.
LEMMA OwnOn ==
  ASSUME RevInv, NEW q \in Request, Keeps(q), NEW r \in Revision, NEW k \in Kinds,
         revision'[r].links[k] = revision[r].links[k]
  PROVE  Owned(revision[r].links[k], r, k)'
<1> DEFINE l == revision[r].links[k]
<1>1. l \in Seq(Model) /\ Owned(l, r, k)
  BY DEF RevInv, TypeOK, RevisionDoc, Links, DocsInv, OwnLinks, Owned
<1>2. CASE ~Saved(r)
  <2>1. l = <<>>
    BY <1>2 DEF RevInv, DocsInv
  <2> QED BY <2>1 DEF Owned
<1>3. CASE Saved(r)
  <2>1. ~CopiesInto(q, r)
    BY <1>3, SavedIsOld
  <2>2. \A m \in Model : model[m].rev = r => model'[m].rev = r /\ model'[m].kind = model[m].kind
    BY <2>1, NoneIsNoRevision DEF Keeps
  <2>3. \A i \in DOMAIN l : l[i] \in Model
    BY <1>1
  <2> QED BY <1>1, <2>2, <2>3 DEF Owned
<1> QED BY <1>2, <1>3

\* A step that neither begins nor ends a duplication.
LEMMA DocsOn ==
  ASSUME RevInv, NEW q \in Request, Keeps(q), NEW c, req' = [req EXCEPT ![q] = c],
         \A r \in Revision : CopiesInto(q, r)' <=> CopiesInto(q, r),
         OwnLinks',
         \A r \in Revision : ~Saved(r)' =>
           ~Saved(r) /\ \A k \in Kinds : revision'[r].links[k] = revision[r].links[k],
         \A m \in Model : model'[m].state = "pending" =>
           \/ model[m].state = "pending" /\ model'[m].rev = model[m].rev
           \/ CopiesInto(q, model'[m].rev)
  PROVE  DocsInv'
<1>1. \A p \in Request \ {q} : req'[p] = req[p]
  BY DEF RevInv, TypeOK
<1>2. \A p \in Request, r \in Revision : CopiesInto(p, r)' <=> CopiesInto(p, r)
  BY <1>1 DEF CopiesInto
<1>3. \A p \in Request : \A r : CopiesInto(p, r) => r \in Revision
  BY DEF RevInv, CopiesInto, Fits, Copying
<1>4. \A r \in Revision : ~Saved(r)' => \A k \in Kinds : revision'[r].links[k] = <<>>
  BY DEF RevInv, DocsInv
<1>5. ASSUME NEW m \in Model, model'[m].state = "pending"
      PROVE  \E p \in Request : CopiesInto(p, model[m].rev)'
  <2>1. PICK p \in Request : CopiesInto(p, model'[m].rev)
    BY <1>5 DEF RevInv, DocsInv
  <2>2. model'[m].rev \in Revision
    BY <1>3, <2>1
  <2>3. req'[p].pc = "copying" /\ req'[p].new = model'[m].rev
    BY <1>2, <2>1, <2>2 DEF CopiesInto
  <2> QED BY <2>3 DEF CopiesInto
<1>6. \A p, o \in Request, r \in Revision : CopiesInto(p, r)' /\ CopiesInto(o, r)' => p = o
  BY <1>2 DEF RevInv, DocsInv
<1>7. ASSUME NEW m \in Model, model'[m].rev \in Revision
      PROVE  revision'[model'[m].rev].state # "free"
  <2> DEFINE r == model'[m].rev
  <2>1. revision[r].state # "free"
    <3>1. CASE Saved(r)
      BY <3>1 DEF Saved
    <3>2. CASE CopiesInto(q, r)
      BY <3>2 DEF CopiesInto, RevInv, Fits, Copying
    <3>3. CASE ~Saved(r) /\ ~CopiesInto(q, r)
      BY <1>7, <3>3 DEF Keeps, RevInv, DocsInv
    <3> QED BY <3>1, <3>2, <3>3
  <2> QED BY <1>7, <2>1 DEF Keeps
<1> QED BY <1>4, <1>5, <1>6, <1>7 DEF DocsInv

-----------------------------------------------------------------------------
(* The steps.                                                              *)

LEMMA GotoType ==
  ASSUME RevInv, NEW q \in Request, NEW pc \in Pcs, Goto(q, pc)
  PROVE  req' \in [Request -> ReqDoc]
<1>1. req \in [Request -> ReqDoc] /\ req[q] \in ReqDoc
  BY DEF RevInv, TypeOK
<1>2. [req[q] EXCEPT !.pc = pc] \in ReqDoc
  BY <1>1 DEF ReqDoc
<1> QED BY <1>1, <1>2 DEF Goto

\* A step that only reads.
LEMMA ReadFits ==
  ASSUME RevInv, NEW q \in Request, UNCHANGED <<revision, model>>,
         NEW c \in ReqDoc, req' = [req EXCEPT ![q] = c], serial' \in BOOLEAN,
         Fits(req[q])', \A r \in Revision : CopiesInto(q, r)' <=> CopiesInto(q, r)
  PROVE  RevInv'
<1>1. Keeps(q)
  BY DEF Keeps, Saved
<1>2. OwnLinks'
  BY DEF RevInv, DocsInv, OwnLinks
<1>3. DocsInv'
  BY <1>1, <1>2, DocsOn DEF Saved
<1>4. TypeOK'
  BY DEF RevInv, TypeOK
<1> QED BY <1>1, <1>3, <1>4, StepFits DEF RevInv

LEMMA GotoReads ==
  ASSUME RevInv, NEW q \in Request, UNCHANGED <<revision, model, serial>>, Running(q),
         req[q].pc # "copying", NEW pc \in Pcs, Goto(q, pc), MayGoTo(q, pc)
  PROVE  RevInv'
<1>1. Keeps(q)
  BY DEF Keeps, Saved
<1>2. Fits(req[q])'
  BY <1>1, GotoFits
<1>3. req \in [Request -> ReqDoc] /\ req[q] \in ReqDoc /\ serial \in BOOLEAN
  BY DEF RevInv, TypeOK
<1> DEFINE c == [req[q] EXCEPT !.pc = pc]
<1>4. c \in ReqDoc /\ req' = [req EXCEPT ![q] = c] /\ c.pc = pc
  BY <1>3 DEF ReqDoc, Goto
<1> HIDE DEF c
<1>5. \A r \in Revision : ~CopiesInto(q, r)' /\ ~CopiesInto(q, r)
  BY <1>3, <1>4 DEF CopiesInto, MayGoTo
<1> QED BY <1>2, <1>3, <1>4, <1>5, ReadFits

\* What is known of a request that runs.
LEMMA Runs ==
  ASSUME RevInv, NEW q \in Request, req[q].pc \notin {"idle"} \cup Ended
  PROVE  /\ Running(q) /\ req[q] \in ReqDoc
         /\ req[q].rev \in Revision /\ Saved(req[q].rev) /\ req[q].pc \in Path(req[q].op)
         /\ NewOne(req[q]) /\ Late(req[q]) /\ Copying(req[q]) /\ Snapshot(req[q])
BY DEF RevInv, TypeOK, Running, Fits, Placed

LEMMA CheckFinalFits == ASSUME RevInv, NEW q \in Request, CheckFinal(q) PROVE RevInv'
<1> DEFINE pc == IF revision[req[q].rev].final THEN "refused" ELSE AfterCheck(q)
<1>1. req[q].pc \in {"check", "recheck"} /\ Goto(q, pc)
  BY DEF CheckFinal
<1>2. /\ Running(q) /\ req[q].rev \in Revision /\ req[q].pc \in Path(req[q].op)
      /\ NewOne(req[q]) /\ Late(req[q])
  BY <1>1, Runs DEF Ended
<1>3. pc \in Pcs /\ MayGoTo(q, pc)
  <2>1. CASE revision[req[q].rev].final
    BY <2>1 DEF Pcs, MayGoTo, Ended
  <2>2. CASE ~revision[req[q].rev].final
    <3>1. pc = AfterCheck(q) /\ ~req[q].late
      BY <1>2, <2>2 DEF Late
    <3> HIDE DEF pc
    <3>2. CASE req[q].op = "create"
      BY <1>2, <3>1, <3>2 DEF AfterCheck, Pcs, MayGoTo, Path
    <3>3. CASE req[q].op = "update"
      BY <1>2, <3>1, <3>3 DEF AfterCheck, Pcs, MayGoTo, Path
    <3>4. CASE req[q].op = "delete"
      BY <1>2, <3>1, <3>4 DEF AfterCheck, Pcs, MayGoTo, Path
    <3>5. CASE req[q].op = "branch"
      BY <1>1, <1>2, <3>1, <3>5 DEF AfterCheck, Pcs, MayGoTo, Path, NewOne
    <3> QED BY <1>1, <1>2, <3>2, <3>3, <3>4, <3>5 DEF Path
  <2> QED BY <2>1, <2>2
<1> HIDE DEF pc
<1> QED BY <1>1, <1>2, <1>3, GotoReads DEF CheckFinal

LEMMA CheckCountFits == ASSUME RevInv, NEW q \in Request, CheckCount(q) PROVE RevInv'
<1> DEFINE pc == IF Count(req[q].rev, req[q].kind) >= MaxElements THEN "refused" ELSE "insert"
<1>1. req[q].pc = "count" /\ Goto(q, pc) /\ pc \in {"refused", "insert"}
  BY DEF CheckCount
<1> HIDE DEF pc
<1>2. Running(q) /\ req[q].pc \in Path(req[q].op) /\ NewOne(req[q]) /\ Late(req[q])
  BY <1>1, Runs DEF Ended
<1>3. req[q].op = "create"
  BY <1>1, <1>2 DEF Path
<1>4. pc \in Pcs /\ MayGoTo(q, pc)
  BY <1>1, <1>2, <1>3 DEF Pcs, Ended, MayGoTo, Path, NewOne, Late
<1> QED BY <1>1, <1>2, <1>4, GotoReads DEF CheckCount

LEMMA FindIssuesFits == ASSUME RevInv, NEW q \in Request, FindIssues(q) PROVE RevInv'
<1>1. req[q].pc = "issues" /\ \E pc \in {"mark", "refused", "failed"} : Goto(q, pc)
  BY DEF FindIssues
<1>2. PICK pc \in {"mark", "refused", "failed"} : Goto(q, pc)
  BY <1>1
<1>3. Running(q) /\ req[q].pc \in Path(req[q].op)
  BY <1>1, Runs DEF Ended
<1>4. req[q].op = "finalise"
  BY <1>1, <1>3 DEF Path
<1>5. pc \in Pcs /\ MayGoTo(q, pc)
  BY <1>4 DEF Pcs, Ended, MayGoTo, Path
<1> QED BY <1>1, <1>2, <1>3, <1>5, GotoReads DEF FindIssues

LEMMA RereadFits == ASSUME RevInv, NEW q \in Request, Reread(q) PROVE RevInv'
<1>1. req[q].pc = "reread"
  BY DEF Reread
<1>2. /\ Running(q) /\ req[q].pc \in Path(req[q].op) /\ req[q] \in ReqDoc
      /\ req[q].rev \in Revision /\ Saved(req[q].rev)
      /\ NewOne(req[q]) /\ Late(req[q]) /\ Snapshot(req[q])
  BY <1>1, Runs DEF Ended
<1>3. req[q].op = "branch"
  BY <1>1, <1>2 DEF Path
<1>4. CASE Live(req[q].old)
  <2> DEFINE n == model[req[q].old].name
  <2> DEFINE c == [req[q] EXCEPT !.was = n, !.pc = "check"]
  <2>1. req' = [req EXCEPT ![q] = c]
    BY <1>4 DEF Reread, RevInv, TypeOK
  <2>2. n \in Names
    BY <1>2, <1>3, <1>4 DEF NewOne, Live, RevInv, TypeOK, ModelDoc
  <2>3. /\ c \in ReqDoc /\ c.pc = "check" /\ c.op = "branch" /\ c.was = n
        /\ c.rev = req[q].rev /\ c.kind = req[q].kind /\ c.old = req[q].old
        /\ c.new = req[q].new /\ c.name = req[q].name /\ c.links = req[q].links
        /\ c.late = req[q].late
    BY <1>2, <1>3, <2>2 DEF ReqDoc, Pcs
  <2> HIDE DEF c, n
  <2>4. req'[q] = c
    BY <2>1 DEF RevInv, TypeOK
  <2>5. UNCHANGED <<revision, model, serial>>
    BY DEF Reread
  <2>6. Fits(req[q])'
    <3>1. Placed(req[q])'
      BY <1>2, <2>3, <2>4, <2>5 DEF Placed, Saved, Path
    <3>2. Copying(req[q])' /\ Late(req[q])'
      BY <1>2, <2>3, <2>4, <2>5 DEF Copying, Late
    <3>3. Snapshot(req[q])'
      BY <1>2, <2>3, <2>4, <2>5 DEF Snapshot, Owned
    <3>4. NewOne(req[q])'
      BY <1>2, <1>3, <2>2, <2>3, <2>4, <2>5 DEF NewOne, Belongs
    <3> QED BY <3>1, <3>2, <3>3, <3>4 DEF Fits
  <2>7. \A r \in Revision : ~CopiesInto(q, r)' /\ ~CopiesInto(q, r)
    BY <1>1, <2>3, <2>4 DEF CopiesInto
  <2>8. serial' \in BOOLEAN
    BY <2>5 DEF RevInv, TypeOK
  <2> QED BY <2>1, <2>3, <2>5, <2>6, <2>7, <2>8, ReadFits
<1>5. CASE ~Live(req[q].old)
  <2>1. Goto(q, "failed") /\ "failed" \in Pcs /\ MayGoTo(q, "failed")
    BY <1>3, <1>5 DEF Reread, Pcs, Ended, MayGoTo
  <2> QED BY <1>1, <1>2, <2>1, GotoReads DEF Reread
<1> QED BY <1>4, <1>5

LEMMA ReadLinksFits == ASSUME RevInv, NEW q \in Request, ReadLinks(q) PROVE RevInv'
<1>1. req[q].pc = "unlinking"
  BY DEF ReadLinks
<1>2. /\ Running(q) /\ req[q].pc \in Path(req[q].op) /\ req[q] \in ReqDoc
      /\ req[q].rev \in Revision /\ Saved(req[q].rev)
      /\ NewOne(req[q]) /\ Late(req[q]) /\ Snapshot(req[q])
  BY <1>1, Runs DEF Ended
<1>3. req[q].op = "delete"
  BY <1>1, <1>2 DEF Path
<1> DEFINE l == revision[req[q].rev].links
<1> DEFINE c == [req[q] EXCEPT !.links = l, !.pc = "unlink"]
<1>4. req' = [req EXCEPT ![q] = c]
  BY DEF ReadLinks, RevInv, TypeOK
<1>5. l \in Links
  BY <1>2 DEF RevInv, TypeOK, RevisionDoc
<1>6. \A k \in Kinds : Owned(l[k], req[q].rev, k)
  BY <1>2 DEF RevInv, DocsInv, OwnLinks, Owned
<1>7. /\ c \in ReqDoc /\ c.pc = "unlink" /\ c.op = "delete" /\ c.links = l
      /\ c.rev = req[q].rev /\ c.kind = req[q].kind /\ c.old = req[q].old
      /\ c.new = req[q].new /\ c.name = req[q].name /\ c.was = req[q].was
      /\ c.late = req[q].late
  <2> HIDE DEF l
  <2>1. "unlink" \in Pcs
    BY DEF Pcs
  <2>2. c \in ReqDoc
    BY <1>2, <1>5, <2>1 DEF ReqDoc
  <2>3. c.pc = "unlink" /\ c.links = l
    BY <1>2 DEF ReqDoc
  <2>4. /\ c.op = "delete" /\ c.rev = req[q].rev /\ c.kind = req[q].kind
        /\ c.old = req[q].old /\ c.new = req[q].new /\ c.name = req[q].name
        /\ c.was = req[q].was /\ c.late = req[q].late
    BY <1>2, <1>3 DEF ReqDoc
  <2> QED BY <2>2, <2>3, <2>4
<1> HIDE DEF c, l
<1>8. req'[q] = c
  BY <1>4 DEF RevInv, TypeOK
<1>9. UNCHANGED <<revision, model, serial>>
  BY DEF ReadLinks
<1>10. Fits(req[q])'
  <2>1. Placed(req[q])' /\ Copying(req[q])' /\ Late(req[q])'
    BY <1>2, <1>7, <1>8, <1>9 DEF Placed, Saved, Path, Copying, Late
  <2>2. Snapshot(req[q])'
    BY <1>6, <1>7, <1>8, <1>9 DEF Snapshot, Owned
  <2>3. NewOne(req[q])'
    BY <1>2, <1>3, <1>7, <1>8, <1>9 DEF NewOne, Belongs
  <2> QED BY <2>1, <2>2, <2>3 DEF Fits
<1>11. \A r \in Revision : ~CopiesInto(q, r)' /\ ~CopiesInto(q, r)
  BY <1>1, <1>7, <1>8 DEF CopiesInto
<1>12. serial' \in BOOLEAN
  BY <1>9 DEF RevInv, TypeOK
<1> QED BY <1>4, <1>7, <1>9, <1>10, <1>11, <1>12, ReadFits

\* A request that begins with a read.
LEMMA BeginFits ==
  ASSUME RevInv, NEW q \in Request, UNCHANGED <<revision, model>>, req[q].pc = "idle",
         NEW c \in ReqDoc, Begin(q, c), Fits(c), c.pc # "copying"
  PROVE  RevInv'
<1>1. req' = [req EXCEPT ![q] = c] /\ req'[q] = c /\ serial' \in BOOLEAN
  BY DEF Begin, RevInv, TypeOK
<1>2. Keeps(q)
  BY DEF Keeps, Saved
<1>3. Fits(c)'
  BY <1>2, FitsOn
<1>4. Fits(req[q])'
  BY <1>1, <1>3
<1>5. \A r \in Revision : ~CopiesInto(q, r)' /\ ~CopiesInto(q, r)
  BY <1>1 DEF CopiesInto
<1> QED BY <1>1, <1>4, <1>5, ReadFits

LEMMA CallType ==
  ASSUME RevInv, NEW op \in AllOps, NEW pc \in Pcs, NEW r \in Revision
  PROVE  LET c == Call(op, pc, r) IN
         /\ c \in ReqDoc /\ c.op = op /\ c.pc = pc /\ c.rev = r /\ c.late = revision[r].final
         /\ c.old = None /\ c.new = None /\ c.name = None /\ c.links = NoLinks /\ c.copies = {}
<1> DEFINE c == Call(op, pc, r)
<1>1. NoLinks \in Links
  BY DEF NoLinks, Links
<1>2. Idle \in ReqDoc
  BY <1>1 DEF Idle, ReqDoc, Pcs, AllOps
<1>3. revision[r].final \in BOOLEAN
  BY DEF RevInv, TypeOK, RevisionDoc
<1>4. c = [Idle EXCEPT !.op = op, !.pc = pc, !.rev = r, !.late = revision[r].final]
  BY DEF Call
<1> HIDE DEF c
<1>5. c \in ReqDoc /\ c.op = op /\ c.pc = pc /\ c.rev = r /\ c.late = revision[r].final
  BY <1>2, <1>3, <1>4 DEF ReqDoc
<1>6. /\ c.old = None /\ c.new = None /\ c.name = None /\ c.links = NoLinks /\ c.copies = {}
  BY <1>4 DEF Idle
<1> QED BY <1>5, <1>6 DEF c

\* A live entity has a revision, a kind and a name.
LEMMA LiveDoc ==
  ASSUME RevInv, NEW m \in Model, Live(m)
  PROVE  model[m].rev \in Revision /\ model[m].kind \in Kinds /\ model[m].name \in Names
BY DEF RevInv, TypeOK, ModelDoc, Live

LEMMA OwnNow ==
  ASSUME RevInv, NEW r \in Revision
  PROVE  revision[r].links \in Links /\ \A k \in Kinds : Owned(revision[r].links[k], r, k)
BY DEF RevInv, TypeOK, RevisionDoc, DocsInv, OwnLinks, Owned

LEMMA NoLinksOwned == NoLinks \in Links /\ \A r : \A k \in Kinds : Owned(NoLinks[k], r, k)
BY DEF NoLinks, Links, Owned

LEMMA BeginCreateFits == ASSUME RevInv, NEW q \in Request, BeginCreate(q) PROVE RevInv'
<1>1. PICK r \in Revision, k \in Kinds, n \in Names :
        /\ revision[r].state = "saved"
        /\ Begin(q, [Call("create", "check", r) EXCEPT
                       !.kind = k, !.name = n, !.links = revision[r].links])
  BY DEF BeginCreate
<1> DEFINE l == revision[r].links
<1> DEFINE c == [Call("create", "check", r) EXCEPT !.kind = k, !.name = n, !.links = l]
<1>2. l \in Links /\ \A j \in Kinds : Owned(l[j], r, j)
  BY OwnNow
<1> HIDE DEF l
<1>3. /\ c \in ReqDoc /\ c.pc = "check" /\ c.op = "create" /\ c.rev = r /\ c.kind = k
      /\ c.name = n /\ c.links = l /\ c.late = revision[r].final
  <2> DEFINE x == Call("create", "check", r)
  <2>1. /\ x \in ReqDoc /\ x.op = "create" /\ x.pc = "check" /\ x.rev = r /\ x.late = revision[r].final
        /\ x.old = None /\ x.new = None /\ x.name = None /\ x.links = NoLinks /\ x.copies = {}
    BY CallType DEF AllOps, Pcs
  <2> QED BY <1>2, <2>1 DEF ReqDoc
<1> HIDE DEF c
<1>4. Fits(c)
  BY <1>1, <1>2, <1>3 DEF Fits, Placed, Saved, Path, Snapshot, NewOne, Copying, Late, Ended
<1>5. Begin(q, c) /\ req[q].pc = "idle"
  BY <1>1 DEF c, l, BeginCreate, MayBegin
<1> QED BY <1>3, <1>4, <1>5, BeginFits DEF BeginCreate

LEMMA BeginFinaliseFits == ASSUME RevInv, NEW q \in Request, BeginFinalise(q) PROVE RevInv'
<1>1. PICK r \in Revision :
        /\ revision[r].state = "saved"
        /\ Begin(q, [Call("finalise", "issues", r) EXCEPT !.links = revision[r].links])
  BY DEF BeginFinalise
<1> DEFINE l == revision[r].links
<1> DEFINE c == [Call("finalise", "issues", r) EXCEPT !.links = l]
<1>2. l \in Links /\ \A j \in Kinds : Owned(l[j], r, j)
  BY OwnNow
<1> HIDE DEF l
<1>3. /\ c \in ReqDoc /\ c.pc = "issues" /\ c.op = "finalise" /\ c.rev = r
      /\ c.links = l /\ c.late = revision[r].final
  <2> DEFINE x == Call("finalise", "issues", r)
  <2>1. /\ x \in ReqDoc /\ x.op = "finalise" /\ x.pc = "issues" /\ x.rev = r /\ x.late = revision[r].final
        /\ x.old = None /\ x.new = None /\ x.name = None /\ x.links = NoLinks /\ x.copies = {}
    BY CallType DEF AllOps, Pcs
  <2> QED BY <1>2, <2>1 DEF ReqDoc
<1> HIDE DEF c
<1>4. Fits(c)
  BY <1>1, <1>2, <1>3 DEF Fits, Placed, Saved, Path, Snapshot, NewOne, Copying, Late, Ended
<1>5. Begin(q, c) /\ req[q].pc = "idle"
  BY <1>1 DEF c, l, BeginFinalise, MayBegin
<1> QED BY <1>3, <1>4, <1>5, BeginFits DEF BeginFinalise

LEMMA BeginUpdateFits == ASSUME RevInv, NEW q \in Request, BeginUpdate(q) PROVE RevInv'
<1>1. PICK m \in Model, n \in Names :
        /\ Live(m) /\ revision[model[m].rev].state = "saved"
        /\ Begin(q, [Call("update", "check", model[m].rev) EXCEPT
                       !.kind = model[m].kind, !.old = m, !.name = n, !.was = model[m].name])
  BY DEF BeginUpdate
<1> DEFINE r == model[m].rev
<1> DEFINE k == model[m].kind
<1> DEFINE w == model[m].name
<1> DEFINE c == [Call("update", "check", r) EXCEPT !.kind = k, !.old = m, !.name = n, !.was = w]
<1>2. r \in Revision /\ k \in Kinds /\ w \in Names
  BY <1>1, LiveDoc
<1>3. Begin(q, c) /\ req[q].pc = "idle" /\ Belongs(m, [rev |-> r])
  BY <1>1 DEF BeginUpdate, MayBegin, Belongs
<1> HIDE DEF r, k, w
<1>4. /\ c \in ReqDoc /\ c.pc = "check" /\ c.op = "update" /\ c.rev = r /\ c.old = m
      /\ c.name = n /\ c.links = NoLinks /\ c.late = revision[r].final
  <2> DEFINE x == Call("update", "check", r)
  <2>1. /\ x \in ReqDoc /\ x.op = "update" /\ x.pc = "check" /\ x.rev = r /\ x.late = revision[r].final
        /\ x.old = None /\ x.new = None /\ x.name = None /\ x.links = NoLinks /\ x.copies = {}
    BY <1>2, CallType DEF AllOps, Pcs
  <2> QED BY <1>2, <2>1 DEF ReqDoc
<1> HIDE DEF c
<1>5. Fits(c)
  <2>1. Placed(c) /\ Copying(c) /\ Late(c)
    BY <1>1, <1>2, <1>4 DEF r, Placed, Saved, Path, Copying, Late, Ended
  <2>2. Snapshot(c)
    BY <1>4, NoLinksOwned DEF Snapshot
  <2>3. NewOne(c)
    BY <1>3, <1>4 DEF NewOne, Belongs
  <2> QED BY <2>1, <2>2, <2>3 DEF Fits
<1> QED BY <1>3, <1>4, <1>5, BeginFits DEF BeginUpdate

LEMMA BeginDeleteFits == ASSUME RevInv, NEW q \in Request, BeginDelete(q) PROVE RevInv'
<1>1. PICK m \in Model :
        /\ Live(m) /\ revision[model[m].rev].state = "saved"
        /\ Begin(q, [Call("delete", "unlinking", model[m].rev) EXCEPT
                       !.kind = model[m].kind, !.old = m])
  BY DEF BeginDelete
<1> DEFINE r == model[m].rev
<1> DEFINE k == model[m].kind
<1> DEFINE c == [Call("delete", "unlinking", r) EXCEPT !.kind = k, !.old = m]
<1>2. r \in Revision /\ k \in Kinds
  BY <1>1, LiveDoc
<1>3. Begin(q, c) /\ req[q].pc = "idle" /\ Belongs(m, [rev |-> r])
  BY <1>1 DEF BeginDelete, MayBegin, Belongs
<1> HIDE DEF r, k
<1>4. /\ c \in ReqDoc /\ c.pc = "unlinking" /\ c.op = "delete" /\ c.rev = r /\ c.old = m
      /\ c.name = None /\ c.links = NoLinks /\ c.late = revision[r].final
  <2> DEFINE x == Call("delete", "unlinking", r)
  <2>1. /\ x \in ReqDoc /\ x.op = "delete" /\ x.pc = "unlinking" /\ x.rev = r /\ x.late = revision[r].final
        /\ x.old = None /\ x.new = None /\ x.name = None /\ x.links = NoLinks /\ x.copies = {}
    BY <1>2, CallType DEF AllOps, Pcs
  <2> QED BY <1>2, <2>1 DEF ReqDoc
<1> HIDE DEF c
<1>5. Fits(c)
  <2>1. Placed(c) /\ Copying(c) /\ Late(c)
    BY <1>1, <1>2, <1>4 DEF r, Placed, Saved, Path, Copying, Late, Ended
  <2>2. Snapshot(c)
    BY <1>4, NoLinksOwned DEF Snapshot
  <2>3. NewOne(c)
    BY <1>3, <1>4 DEF NewOne, Belongs
  <2> QED BY <2>1, <2>2, <2>3 DEF Fits
<1> QED BY <1>3, <1>4, <1>5, BeginFits DEF BeginDelete

LEMMA BeginBranchFits == ASSUME RevInv, NEW q \in Request, BeginBranch(q) PROVE RevInv'
<1>1. PICK m \in Model, n \in Names :
        /\ Live(m) /\ revision[model[m].rev].state = "saved"
        /\ Begin(q, [Call("branch", "reread", model[m].rev) EXCEPT
                       !.kind = model[m].kind, !.old = m, !.name = n,
                       !.links = revision[model[m].rev].links])
  BY DEF BeginBranch
<1> DEFINE r == model[m].rev
<1> DEFINE k == model[m].kind
<1> DEFINE l == revision[r].links
<1> DEFINE c == [Call("branch", "reread", r) EXCEPT !.kind = k, !.old = m, !.name = n, !.links = l]
<1>2. r \in Revision /\ k \in Kinds
  BY <1>1, LiveDoc
<1>3. Begin(q, c) /\ req[q].pc = "idle" /\ Saved(r)
  BY <1>1 DEF BeginBranch, MayBegin, Saved
<1> HIDE DEF r, k
<1>4. l \in Links /\ \A j \in Kinds : Owned(l[j], r, j)
  BY <1>2, OwnNow
<1> HIDE DEF l
<1>5. /\ c \in ReqDoc /\ c.pc = "reread" /\ c.op = "branch" /\ c.rev = r /\ c.old = m
      /\ c.kind = k /\ c.new = None /\ c.name = n /\ c.links = l /\ c.late = revision[r].final
  <2> DEFINE x == Call("branch", "reread", r)
  <2>1. /\ x \in ReqDoc /\ x.op = "branch" /\ x.pc = "reread" /\ x.rev = r /\ x.late = revision[r].final
        /\ x.old = None /\ x.new = None /\ x.name = None /\ x.links = NoLinks /\ x.copies = {}
    BY <1>2, CallType DEF AllOps, Pcs
  <2> QED BY <1>2, <1>4, <2>1 DEF ReqDoc
<1> HIDE DEF c
<1>6. Fits(c)
  BY <1>2, <1>3, <1>4, <1>5
     DEF Fits, Placed, Path, Snapshot, NewOne, Copying, Late, Ended
<1> QED BY <1>3, <1>5, <1>6, BeginFits DEF BeginBranch

\* A step that goes on to another line, and does not touch a duplication.
LEMMA GotoFitsDocs ==
  ASSUME RevInv, NEW q \in Request, Running(q), req[q].pc # "copying", Keeps(q),
         NEW pc \in Pcs, Goto(q, pc), MayGoTo(q, pc), OwnLinks',
         \A r \in Revision : ~Saved(r)' =>
           ~Saved(r) /\ \A k \in Kinds : revision'[r].links[k] = revision[r].links[k],
         \A m \in Model : model'[m].state = "pending" =>
           model[m].state = "pending" /\ model'[m].rev = model[m].rev,
         revision' \in [Revision -> RevisionDoc], model' \in [Model -> ModelDoc],
         serial' = serial
  PROVE  RevInv'
<1> DEFINE c == [req[q] EXCEPT !.pc = pc]
<1>1. req \in [Request -> ReqDoc] /\ req[q] \in ReqDoc /\ serial' \in BOOLEAN
  BY DEF RevInv, TypeOK
<1>2. c \in ReqDoc /\ req' = [req EXCEPT ![q] = c] /\ c.pc = pc /\ pc # "copying"
  BY <1>1 DEF ReqDoc, Goto, MayGoTo
<1> HIDE DEF c
<1>3. \A r \in Revision : ~CopiesInto(q, r)' /\ ~CopiesInto(q, r)
  BY <1>1, <1>2 DEF CopiesInto
<1>4. DocsInv'
  BY <1>2, <1>3, DocsOn
<1>5. req' \in [Request -> ReqDoc]
  BY <1>1, <1>2
<1>6. \A p \in Request : Fits(req[p])'
  BY <1>2, GotoFits, StepFits
<1> QED BY <1>1, <1>4, <1>5, <1>6 DEF RevInv, TypeOK

\* The links of one revision are replaced by links of its own.
LEMMA RelinkFits ==
  ASSUME RevInv, NEW q \in Request, Running(q), req[q].pc # "copying",
         NEW pc \in Pcs, Goto(q, pc), MayGoTo(q, pc),
         NEW r \in Revision, Saved(r), NEW l \in Links,
         \A k \in Kinds : Owned(l[k], r, k),
         revision' = [revision EXCEPT ![r].links = l], UNCHANGED <<model, serial>>
  PROVE  RevInv'
<1>1. /\ revision \in [Revision -> RevisionDoc] /\ revision[r] \in RevisionDoc
      /\ model \in [Model -> ModelDoc]
  BY DEF RevInv, TypeOK
<1>2. \A t \in Revision : /\ revision'[t].state = revision[t].state
                          /\ revision'[t].final = revision[t].final
                          /\ revision'[t].links = IF t = r THEN l ELSE revision[t].links
  BY <1>1 DEF RevisionDoc
<1>3. revision' \in [Revision -> RevisionDoc]
  BY <1>1 DEF RevisionDoc
<1>4. Keeps(q)
  BY <1>2 DEF Keeps, Saved
<1>5. OwnLinks'
  <2>1. ASSUME NEW t \in Revision, NEW k \in Kinds PROVE Owned(revision[t].links[k], t, k)'
    <3>1. CASE t = r
      BY <1>2, <3>1 DEF Owned
    <3>2. CASE t # r
      BY <1>2, <1>4, <3>2, OwnOn
    <3> QED BY <3>1, <3>2
  <2> QED BY <2>1 DEF OwnLinks, Owned
<1>6. \A t \in Revision : ~Saved(t)' =>
           ~Saved(t) /\ \A k \in Kinds : revision'[t].links[k] = revision[t].links[k]
  BY <1>2 DEF Saved
<1> QED BY <1>1, <1>3, <1>4, <1>5, <1>6, GotoFitsDocs

LEMMA LinkFits == ASSUME RevInv, NEW q \in Request, Link(q) PROVE RevInv'
<1> DEFINE pc == IF req[q].op = "create" THEN "done" ELSE "check"
<1>1. req[q].pc = "link" /\ Goto(q, pc)
  BY DEF Link
<1>2. /\ Running(q) /\ req[q] \in ReqDoc
      /\ req[q].rev \in Revision /\ Saved(req[q].rev) /\ req[q].pc \in Path(req[q].op)
      /\ NewOne(req[q]) /\ Late(req[q]) /\ Snapshot(req[q])
  BY <1>1, Runs DEF Ended
<1>3. pc \in Pcs /\ MayGoTo(q, pc)
  <2>1. CASE req[q].op = "create"
    BY <2>1 DEF Pcs, MayGoTo, Ended
  <2>2. CASE req[q].op = "branch"
    BY <1>1, <1>2, <2>2 DEF Pcs, MayGoTo, Path, NewOne
  <2> QED BY <1>1, <1>2, <2>1, <2>2 DEF Path
<1> HIDE DEF pc
<1> DEFINE r == req[q].rev
<1> DEFINE k == req[q].kind
<1> DEFINE n == req[q].new
<1> DEFINE was == req[q].links[k]
<1> DEFINE l == [revision[r].links EXCEPT ![k] = Append(was, n)]
<1>4. /\ n \in Model /\ k \in Kinds /\ model[n].rev = r /\ model[n].kind = k
      /\ n \notin Range(was)
  BY <1>1, <1>2 DEF NewOne, Belongs
<1>5. revision \in [Revision -> RevisionDoc] /\ revision[r] \in RevisionDoc
  BY <1>2 DEF RevInv, TypeOK
<1>6. was \in Seq(Model) /\ Owned(was, r, k)
  BY <1>2, <1>4 DEF ReqDoc, Links, Snapshot
<1>7. Append(was, n) \in Seq(Model) /\ Owned(Append(was, n), r, k)
  <2> HIDE DEF was, n
  <2>1. /\ Append(was, n) \in Seq(Model) /\ DOMAIN Append(was, n) = 1 .. Len(was) + 1
        /\ \A i \in 1 .. Len(was) : Append(was, n)[i] = was[i]
        /\ Append(was, n)[Len(was) + 1] = n
        /\ DOMAIN was = 1 .. Len(was) /\ Len(was) \in Nat
    BY <1>4, <1>6
  <2>2. \A i \in 1 .. Len(was) : was[i] # n
    BY <1>4, <2>1 DEF Range
  <2> QED BY <1>4, <1>6, <2>1, <2>2 DEF Owned
<1>8. l \in Links /\ \A j \in Kinds : Owned(l[j], r, j)
  <2>1. revision[r].links \in Links /\ \A j \in Kinds : Owned(revision[r].links[j], r, j)
    BY <1>2, OwnNow
  <2> QED BY <1>4, <1>7, <2>1 DEF Links
<1>9. revision' = [revision EXCEPT ![r].links = l]
  BY <1>5 DEF Link, RevisionDoc
<1> HIDE DEF l, r
<1> QED BY <1>1, <1>2, <1>3, <1>8, <1>9, RelinkFits DEF Link, r

LEMMA UnlinkFits == ASSUME RevInv, NEW q \in Request, Unlink(q) PROVE RevInv'
<1>1. req[q].pc = "unlink" /\ Goto(q, "check")
  BY DEF Unlink
<1>2. /\ Running(q) /\ req[q] \in ReqDoc
      /\ req[q].rev \in Revision /\ Saved(req[q].rev) /\ req[q].pc \in Path(req[q].op)
      /\ Snapshot(req[q])
  BY <1>1, Runs DEF Ended
<1>3. "check" \in Pcs /\ MayGoTo(q, "check")
  <2>1. req[q].op = "delete"
    BY <1>1, <1>2 DEF Path
  <2> QED BY <2>1 DEF Pcs, MayGoTo, Path
<1> DEFINE r == req[q].rev
<1> DEFINE was == req[q].links
<1> DEFINE now == Unlinked(was, req[q].old)
<1> DEFINE l == [k \in Kinds |-> IF now[k] # was[k] THEN now[k] ELSE revision[r].links[k]]
<1>4. was \in Links /\ \A k \in Kinds : Owned(was[k], r, k)
  BY <1>2 DEF ReqDoc, Snapshot
<1>5. \A k \in Kinds : now[k] \in Seq(Model) /\ Owned(now[k], r, k)
  <2> SUFFICES ASSUME NEW k \in Kinds PROVE now[k] \in Seq(Model) /\ Owned(now[k], r, k)
    OBVIOUS
  <2>1. now[k] = IF k = "Trigger" THEN Without(was[k], req[q].old) ELSE was[k]
    BY <1>4 DEF Unlinked, Links
  <2>2. was[k] \in Seq(Model) /\ Owned(was[k], r, k)
    BY <1>4 DEF Links
  <2> DEFINE w == Without(was[k], req[q].old)
  <2>3. /\ w \in Seq(Model) /\ Range(w) \subseteq Range(was[k])
        /\ \A i, j \in DOMAIN w : w[i] = w[j] => i = j
    BY <2>2, WithoutOne DEF Owned
  <2> HIDE DEF w
  <2>4. Owned(w, r, k)
    BY <2>2, <2>3 DEF Owned, Range
  <2> QED BY <2>1, <2>2, <2>3, <2>4 DEF w
<1>6. l \in Links /\ \A k \in Kinds : Owned(l[k], r, k)
  <2>1. revision[r].links \in Links /\ \A j \in Kinds : Owned(revision[r].links[j], r, j)
    BY <1>2, OwnNow
  <2> HIDE DEF now
  <2> QED BY <1>5, <2>1 DEF Links
<1>7. revision' = [revision EXCEPT ![r].links = l]
  BY DEF Unlink
<1> HIDE DEF l, r
<1> QED BY <1>1, <1>2, <1>3, <1>6, <1>7, RelinkFits DEF Unlink, r

LEMMA MarkFits == ASSUME RevInv, NEW q \in Request, Mark(q) PROVE RevInv'
<1>1. req[q].pc = "mark" /\ Goto(q, "done")
  BY DEF Mark
<1>2. Running(q) /\ req[q].rev \in Revision
  BY <1>1, Runs DEF Ended
<1>3. "done" \in Pcs /\ MayGoTo(q, "done")
  BY DEF Pcs, MayGoTo, Ended
<1>4. revision \in [Revision -> RevisionDoc] /\ model \in [Model -> ModelDoc]
  BY DEF RevInv, TypeOK
<1>5. \A t \in Revision : /\ revision'[t].state = revision[t].state
                          /\ revision[t].final => revision'[t].final
                          /\ revision'[t].links = revision[t].links
  BY <1>2, <1>4 DEF Mark, RevisionDoc
<1>6. revision' \in [Revision -> RevisionDoc] /\ UNCHANGED <<model, serial>>
  BY <1>2, <1>4 DEF Mark, RevisionDoc
<1>7. Keeps(q)
  BY <1>5, <1>6 DEF Keeps, Saved
<1>8. OwnLinks'
  <2>1. \A t \in Revision, k \in Kinds : Owned(revision[t].links[k], t, k)'
    BY <1>5, <1>7, OwnOn
  <2> QED BY <2>1 DEF OwnLinks, Owned
<1>9. \A t \in Revision : ~Saved(t)' =>
           ~Saved(t) /\ \A k \in Kinds : revision'[t].links[k] = revision[t].links[k]
  BY <1>5 DEF Saved
<1> QED BY <1>1, <1>2, <1>3, <1>4, <1>6, <1>7, <1>8, <1>9, GotoFitsDocs

\* What a write changes: the state or the name of one entity that is there.
LEMMA Writes ==
  ASSUME RevInv, NEW q \in Request, Write(q)
  PROVE  /\ Running(q) /\ req[q].pc = "write" /\ Goto(q, "done") /\ ~req[q].late
         /\ Target(q) \in Model /\ model[Target(q)].rev = req[q].rev
         /\ req[q].rev \in Revision
         /\ model' \in [Model -> ModelDoc]
         /\ \A m \in Model : /\ model'[m].rev = model[m].rev /\ model'[m].kind = model[m].kind
                             /\ m # Target(q) => model'[m] = model[m]
                             /\ model'[m].state \in {model[m].state, "deleted"}
         /\ IF req[q].op = "delete" THEN model'[Target(q)].state = "deleted"
            ELSE model'[Target(q)].state = model[Target(q)].state
<1>1. req[q].pc = "write"
  BY DEF Write
<1>2. /\ Running(q) /\ req[q] \in ReqDoc /\ req[q].rev \in Revision
      /\ req[q].pc \in Path(req[q].op) /\ NewOne(req[q]) /\ Late(req[q])
  BY <1>1, Runs DEF Ended
<1> DEFINE t == Target(q)
<1>3. t \in Model /\ model[t].rev = req[q].rev /\ (req[q].op # "delete" => req[q].name \in Names)
  <2>1. CASE req[q].op = "branch"
    BY <1>1, <1>2, <2>1 DEF NewOne, Target, Belongs
  <2>2. CASE req[q].op \in {"update", "delete"}
    BY <1>1, <1>2, <2>2 DEF NewOne, Target, Belongs
  <2> QED BY <1>1, <1>2, <2>1, <2>2 DEF Path
<1>4. model \in [Model -> ModelDoc] /\ model[t] \in ModelDoc
  BY <1>3 DEF RevInv, TypeOK
<1>5. model[t] \in [state : {"pending", "live", "deleted"}, kind : Kinds, rev : Revision, name : Names]
  BY <1>2, <1>3, <1>4, NoneIsNoRevision DEF ModelDoc
<1> HIDE DEF t
<1>6. \/ model' = [model EXCEPT ![t].state = "deleted"]
      \/ model' = [model EXCEPT ![t].name = req[q].name] /\ req[q].name \in Names
      \/ model' = model
  BY <1>3 DEF Write, t
<1>7. model' \in [Model -> ModelDoc]
  BY <1>3, <1>4, <1>5, <1>6 DEF ModelDoc
<1>8. \A m \in Model : /\ model'[m].rev = model[m].rev /\ model'[m].kind = model[m].kind
                       /\ m # t => model'[m] = model[m]
                       /\ model'[m].state \in {model[m].state, "deleted"}
  <2>1. CASE model' = [model EXCEPT ![t].state = "deleted"]
    BY <1>3, <1>4, <1>5, <2>1
  <2>2. CASE model' = [model EXCEPT ![t].name = req[q].name]
    BY <1>3, <1>4, <1>5, <2>2
  <2> QED BY <1>6, <2>1, <2>2
<1>9. IF req[q].op = "delete" THEN model'[t].state = "deleted"
      ELSE model'[t].state = model[t].state
  <2>1. CASE req[q].op = "delete"
    <3>1. model' = [model EXCEPT ![t].state = "deleted"]
      BY <2>1 DEF Write, t
    <3> QED BY <1>3, <1>4, <1>5, <2>1, <3>1
  <2>2. CASE req[q].op # "delete"
    <3>1. model' = [model EXCEPT ![t].name = req[q].name] \/ model' = model
      BY <2>2 DEF Write, t
    <3> QED BY <1>3, <1>4, <1>5, <2>2, <3>1
  <2> QED BY <2>1, <2>2
<1> QED BY <1>1, <1>2, <1>3, <1>7, <1>8, <1>9 DEF Write, Late, t

LEMMA WriteFits == ASSUME RevInv, NEW q \in Request, Write(q) PROVE RevInv'
<1>1. /\ Running(q) /\ req[q].pc = "write" /\ Goto(q, "done")
      /\ model' \in [Model -> ModelDoc] /\ UNCHANGED <<revision, serial>>
      /\ \A m \in Model : /\ model'[m].rev = model[m].rev /\ model'[m].kind = model[m].kind
                          /\ model'[m].state \in {model[m].state, "deleted"}
  BY Writes DEF Write
<1>2. "done" \in Pcs /\ MayGoTo(q, "done")
  BY DEF Pcs, MayGoTo, Ended
<1>3. Keeps(q)
  BY <1>1 DEF Keeps, Saved
<1>4. OwnLinks'
  <2>1. \A t \in Revision, k \in Kinds : Owned(revision[t].links[k], t, k)'
    BY <1>1, <1>3, OwnOn
  <2> QED BY <2>1 DEF OwnLinks, Owned
<1>5. revision' \in [Revision -> RevisionDoc]
  BY <1>1 DEF RevInv, TypeOK
<1>6. \A m \in Model : model'[m].state = "pending" =>
           model[m].state = "pending" /\ model'[m].rev = model[m].rev
  BY <1>1
<1> QED BY <1>1, <1>2, <1>3, <1>4, <1>5, <1>6, GotoFitsDocs DEF Saved

\* What an insert changes: one entity that was not there is, for the revision.
LEMMA Inserts ==
  ASSUME RevInv, NEW q \in Request, Insert(q)
  PROVE  \E n \in Model :
           /\ model[n].state = "free" /\ model[n].rev = None
           /\ model'[n].state = "live" /\ model'[n].rev = req[q].rev
           /\ model'[n].kind = req[q].kind
           /\ \A m \in Model : m # n => model'[m] = model[m]
           /\ model' \in [Model -> ModelDoc]
           /\ req' = [req EXCEPT ![q] = [req[q] EXCEPT !.new = n, !.pc = "link"]]
<1>1. req[q].pc = "insert"
  BY DEF Insert
<1>2. /\ req[q] \in ReqDoc /\ req[q].rev \in Revision
      /\ req[q].pc \in Path(req[q].op) /\ NewOne(req[q])
  BY <1>1, Runs DEF Ended
<1> DEFINE name == IF req[q].op = "create" THEN req[q].name ELSE req[q].was
<1> DEFINE doc == [state |-> "live", kind |-> req[q].kind, rev |-> req[q].rev, name |-> name]
<1>3. name \in Names /\ req[q].kind \in Kinds
  BY <1>1, <1>2 DEF NewOne, Path, Ended
<1> HIDE DEF name
<1>4. doc \in ModelDoc
  BY <1>2, <1>3 DEF ModelDoc
<1>5. PICK n \in Free : /\ model' = [model EXCEPT ![n] = doc]
                        /\ req' = [req EXCEPT ![q].new = n, ![q].pc = "link"]
  BY DEF Insert, name
<1>6. /\ model \in [Model -> ModelDoc] /\ n \in Model /\ model[n].state = "free"
      /\ model[n] \in ModelDoc
  BY DEF RevInv, TypeOK, Free
<1>7. model[n].rev = None
  BY <1>6 DEF ModelDoc
<1>8. req' = [req EXCEPT ![q] = [req[q] EXCEPT !.new = n, !.pc = "link"]]
  BY <1>5 DEF RevInv, TypeOK
<1>9. /\ model'[n] = doc /\ model' \in [Model -> ModelDoc]
      /\ \A m \in Model : m # n => model'[m] = model[m]
  BY <1>4, <1>5, <1>6
<1>10. model'[n].state = "live" /\ model'[n].rev = req[q].rev /\ model'[n].kind = req[q].kind
  BY <1>9
<1> HIDE DEF doc
<1> QED BY <1>6, <1>7, <1>8, <1>9, <1>10

LEMMA InsertFits == ASSUME RevInv, NEW q \in Request, Insert(q) PROVE RevInv'
<1>1. PICK n \in Model :
        /\ model[n].state = "free" /\ model[n].rev = None
        /\ model'[n].state = "live" /\ model'[n].rev = req[q].rev
        /\ model'[n].kind = req[q].kind
        /\ \A m \in Model : m # n => model'[m] = model[m]
        /\ model' \in [Model -> ModelDoc]
        /\ req' = [req EXCEPT ![q] = [req[q] EXCEPT !.new = n, !.pc = "link"]]
  BY Inserts
<1>2. req[q].pc = "insert" /\ UNCHANGED <<revision, serial>>
  BY DEF Insert
<1>3. /\ Running(q) /\ req[q] \in ReqDoc /\ req[q].rev \in Revision /\ Saved(req[q].rev)
      /\ req[q].pc \in Path(req[q].op)
      /\ NewOne(req[q]) /\ Late(req[q]) /\ Snapshot(req[q])
  BY <1>2, Runs DEF Ended
<1> DEFINE c == [req[q] EXCEPT !.new = n, !.pc = "link"]
<1>4. /\ c \in ReqDoc /\ c.pc = "link" /\ c.op = req[q].op /\ c.new = n
      /\ c.rev = req[q].rev /\ c.kind = req[q].kind /\ c.old = req[q].old
      /\ c.name = req[q].name /\ c.was = req[q].was /\ c.links = req[q].links
      /\ c.late = req[q].late
  BY <1>3 DEF ReqDoc, Pcs
<1>5. req' = [req EXCEPT ![q] = c]
  BY <1>1
<1> HIDE DEF c
<1>6. req'[q] = c
  BY <1>5 DEF RevInv, TypeOK
<1>7. Keeps(q)
  BY <1>1, <1>2, <1>3 DEF Keeps, Saved
<1>8. Fits(req[q])'
  <2>1. \A m \in Model : model[m].rev = c.rev => model'[m].rev = c.rev /\ model'[m].kind = model[m].kind
    BY <1>1, <1>3, <1>4, NoneIsNoRevision
  <2>2. c.kind \in Kinds /\ n \notin Range(c.links[c.kind])
    <3>1. c.kind \in Kinds
      BY <1>2, <1>3, <1>4 DEF NewOne
    <3>2. \A i \in DOMAIN c.links[c.kind] : model[c.links[c.kind][i]].rev = c.rev
      BY <1>3, <1>4, <3>1 DEF Snapshot, Owned
    <3> QED BY <1>1, <1>3, <1>4, <3>1, <3>2, NoneIsNoRevision DEF Range
  <2>3. Placed(req[q])' /\ Copying(req[q])' /\ Late(req[q])'
    BY <1>2, <1>3, <1>4, <1>6 DEF Placed, Saved, Path, Copying, Late
  <2>4. Snapshot(req[q])'
    <3>1. \A k \in Kinds : Owned(c.links[k], c.rev, k) /\ c.links[k] \in Seq(Model)
      BY <1>3, <1>4 DEF Snapshot, ReqDoc, Links
    <3>2. \A k \in Kinds : \A i \in DOMAIN c.links[k] : c.links[k][i] \in Model
      BY <3>1
    <3> QED BY <1>6, <3>1, <3>2, <2>1 DEF Snapshot, Owned
  <2>5. NewOne(req[q])'
    <3>1. c.op = "branch" => /\ c.kind \in Kinds /\ c.name \in Names /\ c.old \in Model
                             /\ c.was \in Names
      BY <1>2, <1>3, <1>4 DEF NewOne
    <3>2. c.op = "create" => c.kind \in Kinds /\ c.name \in Names
      BY <1>2, <1>3, <1>4 DEF NewOne, Ended
    <3>3. c.op \in {"create", "branch"}
      BY <1>2, <1>3, <1>4 DEF Path
    <3> QED BY <1>1, <1>4, <1>6, <2>2, <3>1, <3>2, <3>3 DEF NewOne, Belongs, Ended
  <2> QED BY <2>3, <2>4, <2>5 DEF Fits
<1>9. OwnLinks'
  <2>1. \A t \in Revision, k \in Kinds : Owned(revision[t].links[k], t, k)'
    BY <1>2, <1>7, OwnOn
  <2> QED BY <2>1 DEF OwnLinks, Owned
<1>10. \A r \in Revision : ~CopiesInto(q, r)' /\ ~CopiesInto(q, r)
  BY <1>2, <1>4, <1>6 DEF CopiesInto
<1>11. \A m \in Model : model'[m].state = "pending" =>
           model[m].state = "pending" /\ model'[m].rev = model[m].rev
  BY <1>1
<1>12. DocsInv'
  BY <1>2, <1>5, <1>7, <1>9, <1>10, <1>11, DocsOn DEF Saved
<1>13. \A p \in Request : Fits(req[p])'
  BY <1>5, <1>7, <1>8, StepFits
<1>14. TypeOK'
  BY <1>1, <1>2, <1>4, <1>5 DEF RevInv, TypeOK
<1> QED BY <1>12, <1>13, <1>14 DEF RevInv

\* A duplication begins with a revision that nobody else copies into or works on.
LEMMA BeginDuplicateFits == ASSUME RevInv, NEW q \in Request, BeginDuplicate(q) PROVE RevInv'
<1>1. PICK r \in Revision, to \in Revision :
        /\ revision[r].state = "saved" /\ revision[to].state = "free"
        /\ Begin(q, [Call("duplicate", "copying", r) EXCEPT
                       !.new = to, !.links = revision[r].links])
        /\ revision' = [revision EXCEPT ![to].state = "reserved"]
  BY DEF BeginDuplicate
<1> DEFINE l == revision[r].links
<1> DEFINE c == [Call("duplicate", "copying", r) EXCEPT !.new = to, !.links = l]
<1>2. l \in Links /\ \A j \in Kinds : Owned(l[j], r, j)
  BY OwnNow
<1>3. Begin(q, c) /\ req[q].pc = "idle" /\ model' = model
  BY <1>1 DEF BeginDuplicate, MayBegin
<1> HIDE DEF l
<1>4. /\ c \in ReqDoc /\ c.pc = "copying" /\ c.op = "duplicate" /\ c.rev = r /\ c.new = to
      /\ c.links = l /\ c.copies = {} /\ c.late = revision[r].final
  <2> DEFINE x == Call("duplicate", "copying", r)
  <2>1. /\ x \in ReqDoc /\ x.op = "duplicate" /\ x.pc = "copying" /\ x.rev = r /\ x.late = revision[r].final
        /\ x.old = None /\ x.new = None /\ x.name = None /\ x.links = NoLinks /\ x.copies = {}
    BY CallType DEF AllOps, Pcs
  <2> QED BY <1>2, <2>1 DEF ReqDoc
<1> HIDE DEF c
<1>5. /\ revision \in [Revision -> RevisionDoc] /\ model \in [Model -> ModelDoc]
      /\ req \in [Request -> ReqDoc]
  BY DEF RevInv, TypeOK
<1>6. /\ req' = [req EXCEPT ![q] = c] /\ req'[q] = c /\ serial' \in BOOLEAN
      /\ req' \in [Request -> ReqDoc]
      /\ \A p \in Request : p # q => req'[p] = req[p]
  BY <1>3, <1>4, <1>5 DEF Begin, RevInv, TypeOK
<1>7. /\ revision' \in [Revision -> RevisionDoc]
      /\ \A t \in Revision : /\ revision'[t].state = IF t = to THEN "reserved" ELSE revision[t].state
                             /\ revision'[t].final = revision[t].final
                             /\ revision'[t].links = revision[t].links
  BY <1>1, <1>5 DEF RevisionDoc
<1>8. \A p \in Request : ~CopiesInto(p, to)
  BY <1>1 DEF RevInv, Fits, Copying, CopiesInto
<1>9. \A m \in Model : model[m].rev # to
  BY <1>1 DEF RevInv, DocsInv
<1>10. Keeps(q)
  BY <1>1, <1>3, <1>7 DEF Keeps, Saved
<1>11. OwnLinks'
  <2>1. \A t \in Revision, k \in Kinds : Owned(revision[t].links[k], t, k)'
    BY <1>7, <1>10, OwnOn
  <2> QED BY <2>1 DEF OwnLinks, Owned
<1>12. DocsInv'
  <2>1. \A t \in Revision : ~Saved(t)' => \A k \in Kinds : revision'[t].links[k] = <<>>
    BY <1>1, <1>7 DEF RevInv, DocsInv, Saved
  <2>2. \A p \in Request, t \in Revision : CopiesInto(p, t)' <=> CopiesInto(p, t) \/ (p = q /\ t = to)
    BY <1>3, <1>4, <1>6 DEF CopiesInto
  <2>3. ASSUME NEW m \in Model, model'[m].state = "pending"
        PROVE  \E p \in Request : CopiesInto(p, model[m].rev)'
    <3>1. PICK p \in Request : CopiesInto(p, model[m].rev)
      BY <1>3, <2>3 DEF RevInv, DocsInv
    <3>2. req'[p] = req[p]
      BY <1>3, <1>6, <3>1 DEF CopiesInto
    <3> QED BY <1>3, <3>1, <3>2 DEF CopiesInto
  <2>4. \A p, o \in Request, t \in Revision : CopiesInto(p, t)' /\ CopiesInto(o, t)' => p = o
    BY <1>8, <2>2 DEF RevInv, DocsInv
  <2>5. \A m \in Model : model'[m].rev \in Revision => revision'[model'[m].rev].state # "free"
    BY <1>3, <1>7 DEF RevInv, DocsInv
  <2> QED BY <1>11, <2>1, <2>3, <2>4, <2>5 DEF DocsInv
<1>13. Fits(req[q])'
  <2>1. Placed(req[q])' /\ Late(req[q])'
    BY <1>1, <1>4, <1>6, <1>7 DEF Placed, Saved, Path, Late
  <2>2. Snapshot(req[q])'
    BY <1>2, <1>3, <1>4, <1>6 DEF Snapshot, Owned
  <2>3. NewOne(req[q])'
    BY <1>4, <1>6 DEF NewOne
  <2>4. Copying(req[q])'
    BY <1>3, <1>4, <1>6, <1>7, <1>9 DEF Copying
  <2> QED BY <2>1, <2>2, <2>3, <2>4 DEF Fits
<1>14. \A p \in Request : Fits(req[p])'
  BY <1>6, <1>10, <1>13, StepFits
<1> QED BY <1>3, <1>5, <1>6, <1>7, <1>12, <1>14 DEF RevInv, TypeOK

\* What is known of a duplication at work.
LEMMA Duplicates ==
  ASSUME RevInv, NEW q \in Request, req[q].pc = "copying"
  PROVE  /\ Running(q) /\ req[q] \in ReqDoc /\ req[q].op = "duplicate"
         /\ req[q].rev \in Revision /\ Saved(req[q].rev)
         /\ req[q].new \in Revision /\ revision[req[q].new].state = "reserved"
         /\ \A x \in req[q].copies :
              /\ x[1] \in LinkedIn(req[q].links) /\ x[1] \in Model /\ x[2] \in Model
              /\ x = <<x[1], x[2]>>
              /\ model[x[2]].rev = req[q].new /\ model[x[2]].kind = model[x[1]].kind
         /\ \A x, y \in req[q].copies : x[1] = y[1] <=> x[2] = y[2]
         /\ \A m \in Model : model[m].rev = req[q].new => \E x \in req[q].copies : x[2] = m
         /\ \A x \in req[q].copies : CopyOf(q, x[1]) = x[2]
         /\ \A o \in Copied(q) : <<o, CopyOf(q, o)>> \in req[q].copies
         /\ \A k \in Kinds : \A i \in DOMAIN req[q].links[k] :
              /\ req[q].links[k][i] \in LinkedIn(req[q].links)
              /\ req[q].links[k][i] \in Model
              /\ model[req[q].links[k][i]].rev = req[q].rev
              /\ model[req[q].links[k][i]].kind = k
         /\ \A m \in LinkedIn(req[q].links) : m \in Model /\ model[m].rev = req[q].rev
<1>1. /\ Running(q) /\ req[q] \in ReqDoc /\ req[q].rev \in Revision /\ Saved(req[q].rev)
      /\ req[q].pc \in Path(req[q].op) /\ Copying(req[q]) /\ Snapshot(req[q])
  BY Runs DEF Ended
<1>2. req[q].op = "duplicate"
  BY <1>1 DEF Path
<1>3. req[q].copies \subseteq Model \X Model
  BY <1>1 DEF ReqDoc
<1>4. \A x \in req[q].copies : x[1] \in Model /\ x[2] \in Model /\ x = <<x[1], x[2]>>
  BY <1>3
<1>5. \A x \in req[q].copies : CopyOf(q, x[1]) = x[2]
  BY <1>1 DEF CopyOf, Copying
<1>6. \A o \in Copied(q) : <<o, CopyOf(q, o)>> \in req[q].copies
  BY <1>4, <1>5 DEF Copied
<1>7. ASSUME NEW k \in Kinds, NEW i \in DOMAIN req[q].links[k]
      PROVE  /\ req[q].links[k][i] \in LinkedIn(req[q].links)
             /\ req[q].links[k][i] \in Model
             /\ model[req[q].links[k][i]].rev = req[q].rev
             /\ model[req[q].links[k][i]].kind = k
  <2>1. req[q].links[k] \in Seq(Model) /\ Owned(req[q].links[k], req[q].rev, k)
    BY <1>1 DEF ReqDoc, Links, Snapshot
  <2> QED BY <2>1 DEF LinkedIn, Range, Owned
<1>8. ASSUME NEW m \in LinkedIn(req[q].links) PROVE m \in Model /\ model[m].rev = req[q].rev
  <2>1. PICK k \in Kinds : m \in Range(req[q].links[k])
    BY DEF LinkedIn
  <2>2. PICK i \in DOMAIN req[q].links[k] : m = req[q].links[k][i]
    BY <2>1 DEF Range
  <2> QED BY <1>7, <2>2
<1> QED BY <1>1, <1>2, <1>4, <1>5, <1>6, <1>7, <1>8 DEF Copying

\* A copy is a new entity, like the one copied, for the new revision.
LEMMA Copies ==
  ASSUME RevInv, NEW q \in Request, CopyOne(q)
  PROVE  \E o \in LinkedIn(req[q].links) \ Copied(q), n \in Model :
           /\ Live(o)
           /\ model[n].state = "free" /\ model[n].rev = None
           /\ model'[n].state \in {"pending", "live"} /\ model'[n].rev = req[q].new
           /\ model'[n].kind = model[o].kind /\ model'[n].name = model[o].name
           /\ \A m \in Model : m # n => model'[m] = model[m]
           /\ model' \in [Model -> ModelDoc]
           /\ req' = [req EXCEPT ![q] = [req[q] EXCEPT !.copies = @ \cup {<<o, n>>}]]
<1>1. req[q].pc = "copying"
  BY DEF CopyOne
<1>2. PICK o \in LinkedIn(req[q].links) \ Copied(q), n \in Free :
        /\ Live(o)
        /\ model' = [model EXCEPT ![n] =
             [state |-> IF Transactions THEN "pending" ELSE "live",
              kind |-> model[o].kind, rev |-> req[q].new, name |-> model[o].name]]
        /\ req' = [req EXCEPT ![q].copies = @ \cup {<<o, n>>}]
  BY DEF CopyOne
<1> DEFINE st == IF Transactions THEN "pending" ELSE "live"
<1> DEFINE doc == [state |-> st, kind |-> model[o].kind, rev |-> req[q].new, name |-> model[o].name]
<1>3. st \in {"pending", "live"} /\ o \in Model /\ req[q].new \in Revision
  BY <1>1, <1>2, Duplicates
<1> HIDE DEF st
<1>4. doc \in ModelDoc
  BY <1>2, <1>3, LiveDoc DEF ModelDoc
<1>5. /\ model \in [Model -> ModelDoc] /\ n \in Model /\ model[n].state = "free"
      /\ model[n] \in ModelDoc
  BY DEF RevInv, TypeOK, Free
<1>6. model[n].rev = None
  BY <1>5 DEF ModelDoc
<1>7. req' = [req EXCEPT ![q] = [req[q] EXCEPT !.copies = @ \cup {<<o, n>>}]]
  BY <1>2 DEF RevInv, TypeOK
<1>8. model' = [model EXCEPT ![n] = doc]
  BY <1>2 DEF st
<1>9. /\ model'[n] = doc /\ model' \in [Model -> ModelDoc]
      /\ \A m \in Model : m # n => model'[m] = model[m]
  BY <1>4, <1>5, <1>8
<1>10. /\ model'[n].state \in {"pending", "live"} /\ model'[n].rev = req[q].new
       /\ model'[n].kind = model[o].kind /\ model'[n].name = model[o].name
  BY <1>3, <1>9
<1> HIDE DEF doc
<1> QED BY <1>2, <1>5, <1>6, <1>7, <1>9, <1>10

LEMMA CopyOneFits == ASSUME RevInv, NEW q \in Request, CopyOne(q) PROVE RevInv'
<1>1. PICK o \in LinkedIn(req[q].links) \ Copied(q), n \in Model :
           /\ model[n].state = "free" /\ model[n].rev = None
           /\ model'[n].rev = req[q].new /\ model'[n].kind = model[o].kind
           /\ \A m \in Model : m # n => model'[m] = model[m]
           /\ model' \in [Model -> ModelDoc]
           /\ req' = [req EXCEPT ![q] = [req[q] EXCEPT !.copies = @ \cup {<<o, n>>}]]
  BY Copies
<1>2. req[q].pc = "copying" /\ UNCHANGED <<revision, serial>>
  BY DEF CopyOne
<1>3. /\ Running(q) /\ req[q] \in ReqDoc /\ req[q].op = "duplicate"
      /\ req[q].rev \in Revision /\ Saved(req[q].rev)
      /\ req[q].new \in Revision /\ revision[req[q].new].state = "reserved"
      /\ \A x \in req[q].copies :
           /\ x[1] \in LinkedIn(req[q].links) /\ x[1] \in Model /\ x[2] \in Model
           /\ model[x[2]].rev = req[q].new /\ model[x[2]].kind = model[x[1]].kind
      /\ \A x, y \in req[q].copies : x[1] = y[1] <=> x[2] = y[2]
      /\ \A m \in Model : model[m].rev = req[q].new => \E x \in req[q].copies : x[2] = m
      /\ \A k \in Kinds : \A i \in DOMAIN req[q].links[k] :
              /\ req[q].links[k][i] \in Model
              /\ model[req[q].links[k][i]].rev = req[q].rev
      /\ \A m \in LinkedIn(req[q].links) : m \in Model /\ model[m].rev = req[q].rev
  BY <1>2, Duplicates
<1> DEFINE c == [req[q] EXCEPT !.copies = @ \cup {<<o, n>>}]
<1>4. /\ c \in ReqDoc /\ c.pc = "copying" /\ c.op = "duplicate" /\ c.new = req[q].new
      /\ c.rev = req[q].rev /\ c.links = req[q].links /\ c.late = req[q].late
      /\ c.copies = req[q].copies \cup {<<o, n>>}
  <2>1. o \in Model
    BY <1>3
  <2> QED BY <1>2, <1>3, <2>1 DEF ReqDoc
<1>5. req' = [req EXCEPT ![q] = c]
  BY <1>1
<1> HIDE DEF c
<1>6. req'[q] = c
  BY <1>5 DEF RevInv, TypeOK
<1>7. Keeps(q)
  BY <1>1, <1>2, <1>3 DEF Keeps, Saved, CopiesInto
<1>8. Fits(req[q])'
  <2>1. Placed(req[q])' /\ Late(req[q])' /\ NewOne(req[q])'
    <3>1. Placed(req[q]) /\ Late(req[q])
      BY DEF RevInv, Fits
    <3> QED BY <1>2, <1>3, <1>4, <1>6, <3>1 DEF Placed, Saved, Path, Late, NewOne
  <2>2. Snapshot(req[q])'
    <3>1. \A k \in Kinds : Owned(c.links[k], c.rev, k)
      BY <1>4 DEF RevInv, Fits, Snapshot
    <3>2. \A k \in Kinds : \A i \in DOMAIN c.links[k] :
            c.links[k][i] \in Model /\ c.links[k][i] # n
      BY <1>1, <1>3, <1>4, NoneIsNoRevision
    <3>3. \A m \in Model : m # n => model'[m] = model[m]
      BY <1>1
    <3> QED BY <1>6, <3>1, <3>2, <3>3 DEF Snapshot, Owned
  <2>3. Copying(req[q])'
    <3>1. \A x \in req[q].copies : x[1] # n /\ x[2] # n
      BY <1>1, <1>3, NoneIsNoRevision
    <3>2. o \in Model /\ o # n /\ \A x \in req[q].copies : x[1] # o
      BY <1>1, <1>3, NoneIsNoRevision DEF Copied
    <3>3. \A x \in c.copies : /\ x[1] \in LinkedIn(c.links)
                              /\ model'[x[2]].rev = c.new
                              /\ model'[x[2]].kind = model'[x[1]].kind
      BY <1>1, <1>3, <1>4, <3>1, <3>2
    <3>4. \A x, y \in c.copies : x[1] = y[1] <=> x[2] = y[2]
      BY <1>3, <1>4, <3>1, <3>2
    <3>5. \A m \in Model : model'[m].rev = c.new => \E x \in c.copies : x[2] = m
      <4> SUFFICES ASSUME NEW m \in Model, model'[m].rev = c.new PROVE \E x \in c.copies : x[2] = m
        OBVIOUS
      <4>1. CASE m = n
        <5>1. <<o, n>> \in c.copies /\ <<o, n>>[2] = n
          BY <1>4
        <5> QED BY <4>1, <5>1
      <4>2. CASE m # n
        BY <1>1, <1>3, <1>4, <4>2
      <4> QED BY <4>1, <4>2
    <3> QED BY <1>2, <1>3, <1>4, <1>6, <3>3, <3>4, <3>5 DEF Copying
  <2> QED BY <2>1, <2>2, <2>3 DEF Fits
<1>9. OwnLinks'
  <2>1. \A t \in Revision, k \in Kinds : Owned(revision[t].links[k], t, k)'
    BY <1>2, <1>7, OwnOn
  <2> QED BY <2>1 DEF OwnLinks, Owned
<1>10. \A r \in Revision : CopiesInto(q, r)' <=> CopiesInto(q, r)
  BY <1>2, <1>4, <1>6 DEF CopiesInto
<1>11. \A m \in Model : model'[m].state = "pending" =>
           \/ model[m].state = "pending" /\ model'[m].rev = model[m].rev
           \/ CopiesInto(q, model'[m].rev)
  BY <1>1, <1>2 DEF CopiesInto
<1>12. DocsInv'
  BY <1>2, <1>5, <1>7, <1>9, <1>10, <1>11, DocsOn DEF Saved
<1>13. \A p \in Request : Fits(req[p])'
  BY <1>5, <1>7, <1>8, StepFits
<1>14. TypeOK'
  BY <1>1, <1>2, <1>4, <1>5 DEF RevInv, TypeOK
<1> QED BY <1>12, <1>13, <1>14 DEF RevInv

\* The end of a duplication: what it has inserted is given up or kept.
LEMMA EndsDocs ==
  ASSUME RevInv, NEW q \in Request, req[q].pc = "copying", Keeps(q),
         NEW pc \in Ended, Goto(q, pc), OwnLinks',
         \A r \in Revision : ~Saved(r)' =>
           ~Saved(r) /\ \A k \in Kinds : revision'[r].links[k] = revision[r].links[k],
         \A m \in Model : model'[m].state = "pending" =>
           /\ model[m].state = "pending" /\ model'[m].rev = model[m].rev
           /\ \A x \in req[q].copies : x[2] # m,
         revision' \in [Revision -> RevisionDoc], model' \in [Model -> ModelDoc],
         serial' = serial
  PROVE  RevInv'
<1> DEFINE c == [req[q] EXCEPT !.pc = pc]
<1>1. req \in [Request -> ReqDoc] /\ req[q] \in ReqDoc /\ serial' \in BOOLEAN
  BY DEF RevInv, TypeOK
<1>2. c \in ReqDoc /\ req' = [req EXCEPT ![q] = c] /\ c.pc = pc /\ pc # "copying"
  BY <1>1 DEF ReqDoc, Goto, Ended, Pcs
<1> HIDE DEF c
<1>3. req'[q] = c /\ \A p \in Request : p # q => req'[p] = req[p]
  BY <1>1, <1>2
<1>4. \A p \in Request : \A r : CopiesInto(p, r)' => p # q /\ CopiesInto(p, r)
  BY <1>2, <1>3 DEF CopiesInto
<1>5. \A r \in Revision : ~Saved(r)' => \A k \in Kinds : revision'[r].links[k] = <<>>
  BY DEF RevInv, DocsInv
<1>6. ASSUME NEW m \in Model, model'[m].state = "pending"
      PROVE  \E p \in Request : CopiesInto(p, model[m].rev)'
  <2>1. PICK p \in Request : CopiesInto(p, model[m].rev)
    BY <1>6 DEF RevInv, DocsInv
  <2>2. p # q
    BY <1>6, <2>1, Duplicates DEF CopiesInto
  <2>3. req'[p].pc = "copying" /\ req'[p].new = model'[m].rev
    BY <1>3, <1>6, <2>1, <2>2 DEF CopiesInto
  <2> QED BY <2>3 DEF CopiesInto
<1>7. \A p, o \in Request, r \in Revision : CopiesInto(p, r)' /\ CopiesInto(o, r)' => p = o
  BY <1>4 DEF RevInv, DocsInv
<1>8. ASSUME NEW m \in Model, model'[m].rev \in Revision
      PROVE  revision'[model'[m].rev].state # "free"
  <2> DEFINE r == model'[m].rev
  <2>1. revision[r].state # "free"
    <3>1. CASE Saved(r)
      BY <3>1 DEF Saved
    <3>2. CASE CopiesInto(q, r)
      BY <3>2 DEF CopiesInto, RevInv, Fits, Copying
    <3>3. CASE ~Saved(r) /\ ~CopiesInto(q, r)
      BY <1>8, <3>3 DEF Keeps, RevInv, DocsInv
    <3> QED BY <3>1, <3>2, <3>3
  <2> QED BY <1>8, <2>1 DEF Keeps
<1>9. DocsInv'
  BY <1>5, <1>6, <1>7, <1>8 DEF DocsInv
<1>10. req' \in [Request -> ReqDoc]
  BY <1>1, <1>2
<1>11. MayGoTo(q, pc) /\ Running(q)
  BY Duplicates DEF MayGoTo, Ended
<1>12. \A p \in Request : Fits(req[p])'
  BY <1>2, <1>11, GotoFits, StepFits
<1> QED BY <1>1, <1>9, <1>10, <1>12 DEF RevInv, TypeOK

NoDoc == [state |-> "free", kind |-> "none", rev |-> None, name |-> None]

\* A duplication that fails takes back what its transaction has inserted.
LEMMA Fails ==
  ASSUME RevInv, NEW q \in Request, CopyFails(q)
  PROVE  \A m \in Model : \/ model'[m] = model[m]
                          \/ model'[m] = NoDoc /\ model[m].rev = req[q].new
<1>1. req[q].pc = "copying"
  BY DEF CopyFails
<1> SUFFICES ASSUME NEW m \in Model, model'[m] # model[m]
             PROVE  model'[m] = NoDoc /\ model[m].rev = req[q].new
  OBVIOUS
<1>2. PICK o \in Copied(q) : m = CopyOf(q, o) /\ model'[m] = NoDoc
  BY DEF CopyFails, NoDoc
<1>3. <<o, m>> \in req[q].copies
  BY <1>1, <1>2, Duplicates
<1> QED BY <1>1, <1>2, <1>3, Duplicates

LEMMA CopyFailsFits == ASSUME RevInv, NEW q \in Request, CopyFails(q) PROVE RevInv'
<1>1. req[q].pc = "copying" /\ UNCHANGED <<revision, serial>> /\ Goto(q, "failed")
  BY DEF CopyFails
<1>2. \A m \in Model : \/ model'[m] = model[m]
                       \/ model'[m] = NoDoc /\ model[m].rev = req[q].new
  BY Fails
<1>3. Keeps(q)
  BY <1>1, <1>2, NoneIsNoRevision DEF Keeps, Saved, CopiesInto, NoDoc
<1>4. OwnLinks'
  <2>1. \A t \in Revision, k \in Kinds : Owned(revision[t].links[k], t, k)'
    BY <1>1, <1>3, OwnOn
  <2> QED BY <2>1 DEF OwnLinks, Owned
<1>5. ASSUME NEW m \in Model, model'[m].state = "pending"
      PROVE  /\ model[m].state = "pending" /\ model'[m].rev = model[m].rev
             /\ \A x \in req[q].copies : x[2] # m
  <2>1. model'[m] = model[m]
    BY <1>2, <1>5 DEF NoDoc
  <2>2. ASSUME NEW x \in req[q].copies, x[2] = m PROVE FALSE
    <3>1. x[1] \in Copied(q) /\ CopyOf(q, x[1]) = m
      BY <1>1, <2>2, Duplicates DEF Copied
    <3>2. model'[m] = NoDoc
      BY <1>5, <2>1, <3>1 DEF CopyFails, NoDoc
    <3> QED BY <1>5, <3>2 DEF NoDoc
  <2> QED BY <1>5, <2>1, <2>2
<1>6. /\ revision' \in [Revision -> RevisionDoc] /\ model' \in [Model -> ModelDoc]
  <2>1. model \in [Model -> ModelDoc] /\ NoDoc \in ModelDoc
    BY DEF RevInv, TypeOK, ModelDoc, NoDoc
  <2>2. \A m \in Model : model'[m] \in ModelDoc
    BY <1>2, <2>1
  <2>3. model' = [m \in Model |-> model'[m]]
    BY DEF CopyFails
  <2> QED BY <1>1, <2>2, <2>3 DEF RevInv, TypeOK
<1> QED BY <1>1, <1>3, <1>4, <1>5, <1>6, EndsDocs DEF Ended, Saved

\* What a duplication saves: the revision, linked to the copies, in the order of
\* what they are copies of, which are there from now on.
LEMMA Saves ==
  ASSUME RevInv, NEW q \in Request, SaveDuplicate(q)
  PROVE  \E l \in Links :
           /\ revision' = [revision EXCEPT ![req[q].new] =
                             [state |-> "saved", final |-> FALSE, links |-> l]]
           /\ \A k \in Kinds :
                /\ Len(l[k]) = Len(req[q].links[k]) /\ DOMAIN l[k] = DOMAIN req[q].links[k]
                /\ \A i \in DOMAIN req[q].links[k] :
                     <<req[q].links[k][i], l[k][i]>> \in req[q].copies
           /\ model' \in [Model -> ModelDoc]
           /\ \A m \in Model :
                /\ model'[m].rev = model[m].rev /\ model'[m].kind = model[m].kind
                /\ model'[m].name = model[m].name
                /\ model'[m] = model[m] \/ model[m].rev = req[q].new
                /\ model'[m].state \in {model[m].state, "live"}
                /\ model'[m].state = "pending" => /\ model[m].state = "pending"
                                                  /\ \A x \in req[q].copies : x[2] # m
           /\ \A x \in req[q].copies : x[1] \in LinkedIn(req[q].links)
           /\ \A m \in LinkedIn(req[q].links) : \E x \in req[q].copies : x[1] = m
<1> DEFINE c == req[q]
<1> DEFINE l == [k \in Kinds |-> [i \in DOMAIN c.links[k] |-> CopyOf(q, c.links[k][i])]]
<1>1. c.pc = "copying" /\ LinkedIn(c.links) = Copied(q)
  BY DEF SaveDuplicate
<1>2. revision' = [revision EXCEPT ![c.new] = [state |-> "saved", final |-> FALSE, links |-> l]]
  BY DEF SaveDuplicate
<1>3. ASSUME NEW k \in Kinds, NEW i \in DOMAIN c.links[k]
      PROVE  <<c.links[k][i], CopyOf(q, c.links[k][i])>> \in c.copies
  <2>1. c.links[k][i] \in Copied(q)
    BY <1>1, Duplicates
  <2> QED BY <1>1, <2>1, Duplicates
<1>4. c \in ReqDoc
  BY DEF RevInv, TypeOK
<1>5. ASSUME NEW k \in Kinds
      PROVE  /\ l[k] \in Seq(Model) /\ Len(l[k]) = Len(c.links[k])
             /\ DOMAIN l[k] = DOMAIN c.links[k]
             /\ \A i \in DOMAIN c.links[k] : <<c.links[k][i], l[k][i]>> \in c.copies
  <2>1. c.links[k] \in Seq(Model)
    BY <1>4 DEF ReqDoc, Links
  <2>2. DOMAIN c.links[k] = 1 .. Len(c.links[k]) /\ Len(c.links[k]) \in Nat
    BY <2>1
  <2>3. \A i \in DOMAIN c.links[k] : CopyOf(q, c.links[k][i]) \in Model
    <3>1. c.copies \subseteq Model \X Model
      BY <1>4 DEF ReqDoc
    <3> HIDE DEF c
    <3> QED BY <1>3, <3>1
  <2>4. l[k] = [i \in 1 .. Len(c.links[k]) |-> CopyOf(q, c.links[k][i])]
    BY <2>2
  <2>5. l[k] \in [1 .. Len(c.links[k]) -> Model]
    BY <2>2, <2>3, <2>4
  <2>6. l[k] \in Seq(Model) /\ Len(l[k]) = Len(c.links[k])
    BY <2>2, <2>5
  <2> QED BY <1>3, <2>2, <2>4, <2>6
<1>6. l \in Links
  BY <1>5 DEF Links
<1>7. /\ model' = [m \in Model |->
         IF m \in {CopyOf(q, o) : o \in Copied(q)} /\ model[m].state = "pending"
         THEN [model[m] EXCEPT !.state = "live"] ELSE model[m]]
      /\ model \in [Model -> ModelDoc]
  BY DEF SaveDuplicate, RevInv, TypeOK
<1>8. ASSUME NEW m \in Model
      PROVE  /\ model'[m] \in ModelDoc
             /\ model'[m].rev = model[m].rev /\ model'[m].kind = model[m].kind
             /\ model'[m].name = model[m].name
             /\ model'[m] = model[m] \/ model[m].rev = c.new
             /\ model'[m].state \in {model[m].state, "live"}
             /\ model'[m].state = "pending" => /\ model[m].state = "pending"
                                               /\ \A x \in c.copies : x[2] # m
  <2>1. model[m] \in ModelDoc
    BY <1>7
  <2>2. CASE m \in {CopyOf(q, o) : o \in Copied(q)} /\ model[m].state = "pending"
    <3>1. model'[m] = [model[m] EXCEPT !.state = "live"]
      BY <1>7, <2>2
    <3>2. model[m] \in [state : {"pending", "live", "deleted"}, kind : Kinds, rev : Revision,
                        name : Names]
      BY <2>1, <2>2 DEF ModelDoc
    <3>3. model[m].rev = c.new
      <4>1. PICK o \in Copied(q) : m = CopyOf(q, o)
        BY <2>2
      <4>2. <<o, m>> \in c.copies
        BY <1>1, <4>1, Duplicates
      <4>3. \A x \in c.copies : model[x[2]].rev = c.new
        BY <1>1, Duplicates
      <4> QED BY <4>2, <4>3
    <3> QED BY <3>1, <3>2, <3>3 DEF ModelDoc
  <2>3. CASE ~(m \in {CopyOf(q, o) : o \in Copied(q)} /\ model[m].state = "pending")
    <3>1. model'[m] = model[m]
      BY <1>7, <2>3
    <3>2. ASSUME model[m].state = "pending", NEW x \in c.copies PROVE x[2] # m
      <4>1. x[1] \in Copied(q) /\ CopyOf(q, x[1]) = x[2]
        BY <1>1, Duplicates DEF Copied
      <4> QED BY <2>3, <3>2, <4>1
    <3> QED BY <2>1, <3>1, <3>2
  <2> QED BY <2>2, <2>3
<1>9. model' \in [Model -> ModelDoc]
  BY <1>7, <1>8
<1>10. /\ \A x \in c.copies : x[1] \in LinkedIn(c.links)
       /\ \A m \in LinkedIn(c.links) : \E x \in c.copies : x[1] = m
  BY <1>1 DEF Copied
<1> HIDE DEF l
<1>11. \A k \in Kinds :
         /\ Len(l[k]) = Len(req[q].links[k]) /\ DOMAIN l[k] = DOMAIN req[q].links[k]
         /\ \A i \in DOMAIN req[q].links[k] : <<req[q].links[k][i], l[k][i]>> \in req[q].copies
  BY <1>5
<1> HIDE DEF c
<1> WITNESS l \in Links
<1> QED BY <1>2, <1>8, <1>9, <1>10, <1>11 DEF c

LEMMA SaveDuplicateFits == ASSUME RevInv, NEW q \in Request, SaveDuplicate(q) PROVE RevInv'
<1>1. req[q].pc = "copying" /\ Goto(q, "done") /\ serial' = serial
  BY DEF SaveDuplicate
<1> DEFINE n == req[q].new
<1>2. PICK l \in Links :
           /\ revision' = [revision EXCEPT ![n] = [state |-> "saved", final |-> FALSE, links |-> l]]
           /\ \A k \in Kinds :
                /\ Len(l[k]) = Len(req[q].links[k]) /\ DOMAIN l[k] = DOMAIN req[q].links[k]
                /\ \A i \in DOMAIN req[q].links[k] :
                     <<req[q].links[k][i], l[k][i]>> \in req[q].copies
           /\ model' \in [Model -> ModelDoc]
           /\ \A m \in Model :
                /\ model'[m].rev = model[m].rev /\ model'[m].kind = model[m].kind
                /\ model'[m].state = "pending" => /\ model[m].state = "pending"
                                                  /\ \A x \in req[q].copies : x[2] # m
  BY Saves
<1>3. n \in Revision /\ revision[n].state = "reserved"
  BY <1>1, Duplicates
<1>4. revision \in [Revision -> RevisionDoc] /\ revision' \in [Revision -> RevisionDoc]
  <2>1. [state |-> "saved", final |-> FALSE, links |-> l] \in RevisionDoc
    BY DEF RevisionDoc
  <2> QED BY <1>2, <2>1 DEF RevInv, TypeOK
<1>5. /\ revision'[n].state = "saved" /\ revision'[n].links = l
      /\ \A r \in Revision : r # n => revision'[r] = revision[r]
  BY <1>2, <1>3, <1>4
<1>6. Keeps(q)
  BY <1>1, <1>2, <1>3, <1>5 DEF Keeps, Saved, CopiesInto
<1>7. ASSUME NEW r \in Revision, NEW k \in Kinds PROVE Owned(revision[r].links[k], r, k)'
  <2>1. CASE r # n
    BY <1>5, <1>6, <2>1, OwnOn
  <2>2. CASE r = n
    <3>1. \A i \in DOMAIN l[k] :
            /\ i \in DOMAIN req[q].links[k] /\ l[k][i] \in Model
            /\ model[l[k][i]].rev = n /\ model[l[k][i]].kind = k
      <4> SUFFICES ASSUME NEW i \in DOMAIN l[k]
                   PROVE  /\ i \in DOMAIN req[q].links[k] /\ l[k][i] \in Model
                          /\ model[l[k][i]].rev = n /\ model[l[k][i]].kind = k
        OBVIOUS
      <4> DEFINE x == <<req[q].links[k][i], l[k][i]>>
      <4>1. i \in DOMAIN req[q].links[k] /\ x \in req[q].copies
        BY <1>2
      <4>2. x[1] = req[q].links[k][i] /\ x[2] = l[k][i]
        OBVIOUS
      <4> HIDE DEF x
      <4>3. x[2] \in Model /\ model[x[2]].rev = n /\ model[x[2]].kind = model[x[1]].kind
        BY <1>1, <4>1, Duplicates
      <4>4. model[x[1]].kind = k
        BY <1>1, <4>1, <4>2, Duplicates
      <4> QED BY <4>1, <4>2, <4>3, <4>4
    <3>2. ASSUME NEW i \in DOMAIN l[k], NEW j \in DOMAIN l[k], l[k][i] = l[k][j] PROVE i = j
      <4> DEFINE x == <<req[q].links[k][i], l[k][i]>>
      <4> DEFINE y == <<req[q].links[k][j], l[k][j]>>
      <4>1. x \in req[q].copies /\ y \in req[q].copies
        BY <1>2
      <4>2. x[2] = y[2] /\ x[1] = req[q].links[k][i] /\ y[1] = req[q].links[k][j]
        BY <3>2
      <4> HIDE DEF x, y
      <4>3. x[1] = y[1]
        BY <1>1, <4>1, <4>2, Duplicates
      <4>4. Owned(req[q].links[k], req[q].rev, k)
        BY DEF RevInv, Fits, Snapshot
      <4> QED BY <3>1, <4>2, <4>3, <4>4 DEF Owned
    <3>3. \A i \in DOMAIN l[k] : model'[l[k][i]].rev = r /\ model'[l[k][i]].kind = k
      BY <1>2, <2>2, <3>1
    <3>4. revision'[r].links[k] = l[k]
      BY <1>5, <2>2
    <3> QED BY <3>2, <3>3, <3>4 DEF Owned
  <2> QED BY <2>1, <2>2
<1>8. OwnLinks'
  BY <1>7 DEF OwnLinks, Owned
<1>9. \A r \in Revision : ~Saved(r)' =>
           ~Saved(r) /\ \A k \in Kinds : revision'[r].links[k] = revision[r].links[k]
  BY <1>5 DEF Saved
<1> HIDE DEF n
<1> QED BY <1>1, <1>2, <1>4, <1>6, <1>8, <1>9, EndsDocs DEF Ended

-----------------------------------------------------------------------------
(* The invariant, and the links of every revision.                         *)

LEMMA InitRev == Init => RevInv
<1> SUFFICES ASSUME Init PROVE RevInv
  OBVIOUS
<1>1. PICK kind \in [Seeded -> Kinds], name \in [Seeded -> Names] :
       /\ model = [m \in Model |->
            IF m \in Seeded
              THEN [state |-> "live", kind |-> kind[m], rev |-> First, name |-> name[m]]
              ELSE NoDoc]
       /\ revision = [r \in Revision |->
            [state |-> IF r = First THEN "saved" ELSE "free", final |-> FALSE,
             links |-> [k \in Kinds |->
               IF r = First THEN SetToSeq({m \in Seeded : kind[m] = k}) ELSE <<>>]]]
  BY DEF Init, NoDoc
<1> DEFINE of(k) == {m \in Seeded : kind[m] = k}
<1>2. First \in Revision /\ Seeded \subseteq Model /\ IsFiniteSet(Seeded)
  BY RevisionsAssumption, FS_Subset
<1>3. ASSUME NEW k \in Kinds
      PROVE  /\ SetToSeq(of(k)) \in Seq(Model)
             /\ \A i \in DOMAIN SetToSeq(of(k)) : SetToSeq(of(k))[i] \in of(k)
             /\ \A i, j \in DOMAIN SetToSeq(of(k)) :
                  SetToSeq(of(k))[i] = SetToSeq(of(k))[j] => i = j
  <2>1. IsFiniteSet(of(k))
    BY <1>2, FS_Subset
  <2> DEFINE l == SetToSeq(of(k))
  <2>2. l \in Seq(of(k)) /\ \A i, j \in DOMAIN l : l[i] = l[j] => i = j
    BY <2>1, ListOfSet
  <2> HIDE DEF l
  <2>3. l \in Seq(Model)
    BY <1>2, <2>2, SeqMonotonic
  <2>4. \A i \in DOMAIN l : l[i] \in of(k)
    BY <2>2
  <2> QED BY <2>2, <2>3, <2>4 DEF l
<1>4. TypeOK
  <2>1. model \in [Model -> ModelDoc]
    BY <1>1, <1>2 DEF ModelDoc, NoDoc
  <2>2. revision \in [Revision -> RevisionDoc]
    <3>1. ASSUME NEW r \in Revision
          PROVE  [k \in Kinds |-> IF r = First THEN SetToSeq(of(k)) ELSE <<>>] \in Links
      BY <1>3 DEF Links
    <3> HIDE DEF of
    <3> QED BY <1>1, <3>1 DEF RevisionDoc, of
  <2>3. req \in [Request -> ReqDoc] /\ serial \in BOOLEAN
    <3>1. Idle \in ReqDoc
      BY NoLinksOwned DEF Idle, ReqDoc, Pcs
    <3> QED BY <3>1 DEF Init
  <2> QED BY <2>1, <2>2, <2>3 DEF TypeOK
<1>5. DocsInv
  <2>1. OwnLinks
    <3>1. ASSUME NEW r \in Revision, NEW k \in Kinds PROVE Owned(revision[r].links[k], r, k)
      <4>1. CASE r = First
        <5> DEFINE l == SetToSeq(of(k))
        <5>1. revision[r].links[k] = l
          BY <1>1, <4>1
        <5>2. /\ \A i \in DOMAIN l : l[i] \in of(k)
              /\ \A i, j \in DOMAIN l : l[i] = l[j] => i = j
          BY <1>3
        <5> HIDE DEF l
        <5>3. \A m \in of(k) : model[m].rev = First /\ model[m].kind = k
          BY <1>1, <1>2
        <5> QED BY <4>1, <5>1, <5>2, <5>3 DEF Owned
      <4>2. CASE r # First
        <5>1. revision[r].links[k] = <<>>
          BY <1>1, <4>2
        <5> QED BY <5>1 DEF Owned
      <4> QED BY <4>1, <4>2
    <3> QED BY <3>1 DEF OwnLinks, Owned
  <2>2. \A r \in Revision : ~Saved(r) => \A k \in Kinds : revision[r].links[k] = <<>>
    BY <1>1 DEF Saved
  <2>3. \A m \in Model : /\ model[m].state # "pending"
                         /\ model[m].rev \in Revision => revision[model[m].rev].state # "free"
    BY <1>1, <1>2, NoneIsNoRevision DEF NoDoc
  <2>4. \A q \in Request, r \in Revision : ~CopiesInto(q, r)
    BY DEF Init, Idle, CopiesInto
  <2> QED BY <2>1, <2>2, <2>3, <2>4 DEF DocsInv
<1>6. \A q \in Request : Fits(req[q])
  <2>1. \A q \in Request : req[q] = Idle
    BY DEF Init
  <2>2. Fits(Idle)
    BY NoLinksOwned DEF Fits, Placed, Snapshot, NewOne, Copying, Late, Idle, Ended
  <2> QED BY <2>1, <2>2
<1> QED BY <1>4, <1>5, <1>6 DEF RevInv

LEMMA StepRev == RevInv /\ [Next]_vars => RevInv'
<1>1. ASSUME RevInv, UNCHANGED vars PROVE RevInv'
  <2>1. UNCHANGED <<revision, model, req, serial>>
    BY <1>1 DEF vars
  <2>2. TypeOK'
    BY <1>1, <2>1 DEF RevInv, TypeOK
  <2>3. DocsInv'
    BY <1>1, <2>1 DEF RevInv, DocsInv, OwnLinks, Saved, CopiesInto
  <2>4. ASSUME NEW q \in Request PROVE Fits(req[q])'
    <3>1. Fits(req[q])
      BY <1>1 DEF RevInv
    <3>2. Placed(req[q])' /\ Snapshot(req[q])'
      BY <2>1, <3>1 DEF Fits, Placed, Saved, Snapshot, Owned
    <3>3. NewOne(req[q])' /\ Copying(req[q])' /\ Late(req[q])'
      BY <2>1, <3>1 DEF Fits, NewOne, Belongs, Copying, Late
    <3> QED BY <3>2, <3>3 DEF Fits
  <2> QED BY <2>2, <2>3, <2>4 DEF RevInv
<1>2. ASSUME RevInv, NEW q \in Request, Step(q) PROVE RevInv'
  BY <1>2, BeginCreateFits, BeginUpdateFits, BeginDeleteFits, BeginBranchFits, BeginFinaliseFits,
     BeginDuplicateFits, CheckFinalFits, CheckCountFits, InsertFits, LinkFits, RereadFits,
     WriteFits, ReadLinksFits, UnlinkFits, FindIssuesFits, MarkFits, CopyOneFits, CopyFailsFits,
     SaveDuplicateFits
     DEF Step
<1> QED BY <1>1, <1>2 DEF Next

THEOREM RevisionsCorrect == Spec => []RevInv
<1> QED BY InitRev, StepRev, PTL DEF Spec

\* No two revisions share an entity, and none lists one twice, whatever overlaps.
THEOREM LinksAreOwn == Spec => []OwnLinks
<1>1. RevInv => OwnLinks
  BY DEF RevInv, DocsInv
<1> QED BY <1>1, RevisionsCorrect, PTL

-----------------------------------------------------------------------------
(* Who comes late changes nothing.                                         *)

\* A step of q is a step of no other request, and q keeps its revision.
LEMMA OwnStep ==
  ASSUME RevInv, NEW q \in Request, Step(q)
  PROVE  /\ \A p \in Request : p # q => req'[p] = req[p]
         /\ req[q].pc # "idle" => /\ req'[q].rev = req[q].rev /\ req'[q].op = req[q].op
                                  /\ req[q].pc \notin Ended
<1>1. req \in [Request -> ReqDoc] /\ req[q] \in ReqDoc
  BY DEF RevInv, TypeOK
<1>2. ASSUME NEW c, req' = [req EXCEPT ![q] = c],
             req[q].pc # "idle" => /\ c.rev = req[q].rev /\ c.op = req[q].op
                                   /\ req[q].pc \notin Ended
      PROVE  /\ \A p \in Request : p # q => req'[p] = req[p]
             /\ req[q].pc # "idle" => /\ req'[q].rev = req[q].rev /\ req'[q].op = req[q].op
                                      /\ req[q].pc \notin Ended
  BY <1>1, <1>2
<1>3. CASE req[q].pc = "idle"
  <2>1. \E c : req' = [req EXCEPT ![q] = c]
    BY <1>3 DEF Step, BeginCreate, BeginUpdate, BeginDelete, BeginBranch, BeginFinalise,
                BeginDuplicate, Begin, CheckFinal, CheckCount, Insert, Link, Reread, Write,
                ReadLinks, Unlink, FindIssues, Mark, CopyOne, CopyFails, SaveDuplicate
  <2> QED BY <1>2, <1>3, <2>1
<1>4. CASE req[q].pc # "idle"
  <2>1. /\ req[q].pc \notin Ended
        /\ \/ \E pc : req' = [req EXCEPT ![q].pc = pc]
           \/ \E n : req' = [req EXCEPT ![q].new = n, ![q].pc = "link"]
           \/ \E n : req' = [req EXCEPT ![q].was = n, ![q].pc = "check"]
           \/ \E l : req' = [req EXCEPT ![q].links = l, ![q].pc = "unlink"]
           \/ \E o, n \in Model : req' = [req EXCEPT ![q].copies = @ \cup {<<o, n>>}]
    <3>1. CASE Insert(q)
      BY <3>1 DEF Insert, Ended
    <3>2. CASE Reread(q)
      BY <3>2 DEF Reread, Goto, Ended
    <3>3. CASE ReadLinks(q)
      BY <3>3 DEF ReadLinks, Ended
    <3>4. CASE CopyOne(q)
      <4>1. req[q].pc = "copying"
        BY <3>4 DEF CopyOne
      <4>2. \A o \in LinkedIn(req[q].links) : o \in Model
        BY <4>1, Duplicates
      <4> QED BY <3>4, <4>2 DEF CopyOne, Free, Ended
    <3>5. CASE CheckFinal(q) \/ CheckCount(q) \/ Link(q) \/ Write(q) \/ Unlink(q)
                 \/ FindIssues(q) \/ Mark(q) \/ CopyFails(q) \/ SaveDuplicate(q)
      BY <3>5 DEF CheckFinal, CheckCount, Link, Write, Unlink, FindIssues, Mark, CopyFails,
                  SaveDuplicate, Goto, Ended
    <3> QED BY <1>4, <3>1, <3>2, <3>3, <3>4, <3>5
            DEF Step, BeginCreate, BeginUpdate, BeginDelete, BeginBranch, BeginFinalise,
                BeginDuplicate, MayBegin
  <2>2. CASE \E pc : req' = [req EXCEPT ![q].pc = pc]
    <3>1. PICK pc : req' = [req EXCEPT ![q].pc = pc]
      BY <2>2
    <3> DEFINE c == [req[q] EXCEPT !.pc = pc]
    <3>2. req' = [req EXCEPT ![q] = c] /\ c.rev = req[q].rev /\ c.op = req[q].op
      BY <1>1, <3>1 DEF ReqDoc
    <3> HIDE DEF c
    <3> QED BY <1>2, <2>1, <3>2
  <2>3. CASE \E n : req' = [req EXCEPT ![q].new = n, ![q].pc = "link"]
    <3>1. PICK n : req' = [req EXCEPT ![q].new = n, ![q].pc = "link"]
      BY <2>3
    <3> DEFINE c == [req[q] EXCEPT !.new = n, !.pc = "link"]
    <3>2. req' = [req EXCEPT ![q] = c] /\ c.rev = req[q].rev /\ c.op = req[q].op
      BY <1>1, <3>1 DEF ReqDoc
    <3> HIDE DEF c
    <3> QED BY <1>2, <2>1, <3>2
  <2>4. CASE \E n : req' = [req EXCEPT ![q].was = n, ![q].pc = "check"]
    <3>1. PICK n : req' = [req EXCEPT ![q].was = n, ![q].pc = "check"]
      BY <2>4
    <3> DEFINE c == [req[q] EXCEPT !.was = n, !.pc = "check"]
    <3>2. req' = [req EXCEPT ![q] = c] /\ c.rev = req[q].rev /\ c.op = req[q].op
      BY <1>1, <3>1 DEF ReqDoc
    <3> HIDE DEF c
    <3> QED BY <1>2, <2>1, <3>2
  <2>5. CASE \E l : req' = [req EXCEPT ![q].links = l, ![q].pc = "unlink"]
    <3>1. PICK l : req' = [req EXCEPT ![q].links = l, ![q].pc = "unlink"]
      BY <2>5
    <3> DEFINE c == [req[q] EXCEPT !.links = l, !.pc = "unlink"]
    <3>2. req' = [req EXCEPT ![q] = c] /\ c.rev = req[q].rev /\ c.op = req[q].op
      BY <1>1, <3>1 DEF ReqDoc
    <3> HIDE DEF c
    <3> QED BY <1>2, <2>1, <3>2
  <2>6. CASE \E o, n \in Model : req' = [req EXCEPT ![q].copies = @ \cup {<<o, n>>}]
    <3>1. PICK o, n \in Model : req' = [req EXCEPT ![q].copies = @ \cup {<<o, n>>}]
      BY <2>6
    <3> DEFINE c == [req[q] EXCEPT !.copies = @ \cup {<<o, n>>}]
    <3>2. req' = [req EXCEPT ![q] = c] /\ c.rev = req[q].rev /\ c.op = req[q].op
      BY <1>1, <3>1 DEF ReqDoc
    <3> HIDE DEF c
    <3> QED BY <1>2, <2>1, <3>2
  <2> QED BY <2>1, <2>2, <2>3, <2>4, <2>5, <2>6
<1> QED BY <1>3, <1>4

\* What a late request, and any duplication, may change is of another revision.
LEMMA LateElsewhere ==
  ASSUME RevInv, NEW q \in Request, req[q].late, Step(q), NEW m \in Model
  PROVE  \/ model'[m] = model[m]
         \/ model[m].rev # req[q].rev /\ model'[m].rev # req[q].rev
<1>1. req[q].pc # "idle" /\ req[q].rev \in Revision /\ Saved(req[q].rev) /\ Late(req[q])
  BY DEF RevInv, Fits, Placed, Idle, Late
<1>2. CASE BeginCreate(q) \/ BeginUpdate(q) \/ BeginDelete(q) \/ BeginBranch(q)
             \/ BeginFinalise(q) \/ BeginDuplicate(q)
  BY <1>1, <1>2 DEF BeginCreate, BeginUpdate, BeginDelete, BeginBranch, BeginFinalise,
                    BeginDuplicate, MayBegin
<1>3. CASE CheckFinal(q) \/ CheckCount(q) \/ Link(q) \/ Reread(q) \/ ReadLinks(q)
             \/ Unlink(q) \/ FindIssues(q) \/ Mark(q)
  BY <1>3 DEF CheckFinal, CheckCount, Link, Reread, ReadLinks, Unlink, FindIssues, Mark
<1>4. CASE Insert(q) \/ Write(q)
  BY <1>1, <1>4 DEF Insert, Write, Late
<1>5. CASE CopyOne(q)
  <2>1. req[q].pc = "copying"
    BY <1>5 DEF CopyOne
  <2>2. req[q].new # req[q].rev
    BY <1>1, <2>1, Duplicates DEF Saved
  <2>3. PICK n \in Model : /\ model[n].rev = None /\ model'[n].rev = req[q].new
                           /\ \A o \in Model : o # n => model'[o] = model[o]
    BY <1>5, Copies
  <2> QED BY <1>1, <2>2, <2>3, NoneIsNoRevision
<1>6. CASE CopyFails(q)
  <2>1. req[q].pc = "copying"
    BY <1>6 DEF CopyFails
  <2>2. req[q].new # req[q].rev
    BY <1>1, <2>1, Duplicates DEF Saved
  <2> QED BY <1>1, <1>6, <2>2, Fails, NoneIsNoRevision DEF NoDoc
<1>7. CASE SaveDuplicate(q)
  <2>1. req[q].pc = "copying"
    BY <1>7 DEF SaveDuplicate
  <2>2. req[q].new # req[q].rev
    BY <1>1, <2>1, Duplicates DEF Saved
  <2>3. model'[m].rev = model[m].rev /\ (model'[m] = model[m] \/ model[m].rev = req[q].new)
    <3>1. \A o \in Model : /\ model'[o].rev = model[o].rev
                           /\ model'[o] = model[o] \/ model[o].rev = req[q].new
      BY <1>7, Saves
    <3> QED BY <3>1
  <2> QED BY <2>2, <2>3
<1> QED BY <1>2, <1>3, <1>4, <1>5, <1>6, <1>7 DEF Step

\* The only list a late request changes is the one a delete takes its entity out of.
LEMMA LateUnlinks ==
  ASSUME RevInv, NEW q \in Request, req[q].late, Step(q)
  PROVE  revision'[req[q].rev].final /\ UnlinksOne(q)
<1> DEFINE c == req[q]
<1>1. /\ c.pc # "idle" /\ c.rev \in Revision /\ Saved(c.rev) /\ Late(c)
      /\ revision[c.rev].final /\ revision \in [Revision -> RevisionDoc] /\ c \in ReqDoc
  BY DEF RevInv, TypeOK, Fits, Placed, Idle, Late
<1>2. CASE UNCHANGED revision
  BY <1>1, <1>2 DEF UnlinksOne
<1>3. CASE Mark(q)
  BY <1>1, <1>3 DEF Mark, UnlinksOne, RevisionDoc
<1>4. CASE SaveDuplicate(q)
  <2>1. c.new # c.rev
    BY <1>1, <1>4, Duplicates DEF SaveDuplicate, Saved
  <2>2. PICK d : revision' = [revision EXCEPT ![c.new] = d]
    BY <1>4 DEF SaveDuplicate
  <2> QED BY <1>1, <2>1, <2>2 DEF UnlinksOne
<1>5. CASE Unlink(q)
  <2> DEFINE was == c.links
  <2> DEFINE now == Unlinked(was, c.old)
  <2>1. /\ c.pc = "unlink" /\ c.op = "delete" /\ was \in Links /\ DOMAIN was = Kinds
        /\ \A k \in Kinds : \A i, j \in DOMAIN was[k] : was[k][i] = was[k][j] => i = j
    BY <1>1, <1>5 DEF Unlink, RevInv, Fits, Placed, Path, Ended, Snapshot, Owned, ReqDoc, Links
  <2>2. /\ revision'[c.rev].final
        /\ \A k \in Kinds : revision'[c.rev].links[k] =
             IF now[k] # was[k] THEN now[k] ELSE revision[c.rev].links[k]
    BY <1>1, <1>5 DEF Unlink, RevisionDoc
  <2>3. \A k \in Kinds : now[k] = IF k = "Trigger" THEN Without(was[k], c.old) ELSE was[k]
    BY <2>1 DEF Unlinked
  <2>4. \A k \in Kinds : Range(Without(was[k], c.old)) = Range(was[k]) \ {c.old}
    BY <2>1, WithoutOne DEF Links
  <2> HIDE DEF now
  <2> QED BY <2>1, <2>2, <2>3, <2>4 DEF UnlinksOne
<1>6. ~Link(q)
  BY <1>1 DEF Link, Late
<1>7. ~BeginDuplicate(q)
  BY <1>1 DEF BeginDuplicate, MayBegin
<1>8. UNCHANGED revision \/ Mark(q) \/ SaveDuplicate(q) \/ Unlink(q)
  BY <1>6, <1>7
     DEF Step, BeginCreate, BeginUpdate, BeginDelete, BeginBranch, BeginFinalise, CheckFinal,
         CheckCount, Insert, Reread, Write, ReadLinks, FindIssues, CopyOne, CopyFails
<1> QED BY <1>2, <1>3, <1>4, <1>5, <1>8

\* Whatever runs at the same time, no request that begins when a revision is final
\* changes what is in it, and of its links only a delete takes away its own entity.
THEOREM LateUnlinksOnly == Spec => LateOnlyUnlinks
<1> DEFINE Harmless == \A q \in Request :
       (req[q].late /\ req'[q] # req[q]) =>
         /\ Content(req[q].rev)' = Content(req[q].rev)
         /\ revision'[req[q].rev].final
         /\ UnlinksOne(q)
<1>1. RevInv /\ [Next]_vars => [Harmless]_vars
  <2> SUFFICES ASSUME RevInv, Next, NEW q \in Request, req[q].late, req'[q] # req[q]
               PROVE  /\ Content(req[q].rev)' = Content(req[q].rev)
                      /\ revision'[req[q].rev].final
                      /\ UnlinksOne(q)
    OBVIOUS
  <2>1. PICK p \in Request : Step(p)
    BY DEF Next
  <2>2. p = q
    BY <2>1, OwnStep
  <2>3. req[q].pc # "idle"
    BY DEF RevInv, Fits, Placed, Idle
  <2> DEFINE r == req[q].rev
  <2>4. req'[q].rev = r
    BY <2>1, <2>2, <2>3, OwnStep
  <2>5. \A m \in Model : model'[m] = model[m] \/ (model[m].rev # r /\ model'[m].rev # r)
    BY <2>1, <2>2, LateElsewhere
  <2> DEFINE before == {x \in Model : model[x].state = "live" /\ model[x].rev = r}
  <2> DEFINE after == {x \in Model : model'[x].state = "live" /\ model'[x].rev = r}
  <2>6. before = after
    BY <2>5
  <2>7. Content(req[q].rev) = [m \in before |-> model[m].name]
    BY DEF Content, Live
  <2>8. Content(req[q].rev)' = [m \in after |-> model'[m].name]
    BY <2>4 DEF Content, Live
  <2>9. \A m \in before : model'[m].name = model[m].name
    BY <2>5
  <2>10. revision'[req[q].rev].final /\ UnlinksOne(q)
    BY <2>1, <2>2, LateUnlinks
  <2> HIDE DEF before, after
  <2> QED BY <2>6, <2>7, <2>8, <2>9, <2>10
<1> QED BY <1>1, RevisionsCorrect, PTL DEF Spec, LateOnlyUnlinks
-----------------------------------------------------------------------------
(* Requests that come one at a time.                                       *)

Placeable(c, m) == Open(m) => m \in Linked(model[m].rev) \/ Halfway(c, m)

\* What a step of q can rely on, and what it has to leave, when q runs alone.
At(q) ==
  /\ Running(q) => Undisturbed(req[q])
  /\ Resolves
  /\ \A m \in Model : Placeable(req[q], m)

\* Who is halfway runs.
LEMMA HalfwayRuns ==
  ASSUME NEW q, NEW m, Halfway(req[q], m)
  PROVE  Running(q)
BY DEF Halfway, Running, Ended

LEMMA SerialBefore ==
  ASSUME RevInv, SerialInv, NEW q \in Request, Step(q), serial'
  PROVE  serial /\ At(q) /\ \A p \in Request : Running(p) => p = q
<1>1. serial
  BY DEF Step, BeginCreate, BeginUpdate, BeginDelete, BeginBranch, BeginFinalise,
         BeginDuplicate, Begin, CheckFinal, CheckCount, Insert, Link, Reread, Write,
         ReadLinks, Unlink, FindIssues, Mark, CopyOne, CopyFails, SaveDuplicate
<1>2. \A p \in Request : Running(p) => p = q
  <2>1. CASE req[q].pc = "idle"
    <3>1. \A p \in Request : ~Running(p)
      BY <2>1 DEF Step, BeginCreate, BeginUpdate, BeginDelete, BeginBranch, BeginFinalise,
                  BeginDuplicate, Begin, CheckFinal, CheckCount, Insert, Link, Reread, Write,
                  ReadLinks, Unlink, FindIssues, Mark, CopyOne, CopyFails, SaveDuplicate
    <3> QED BY <3>1
  <2>2. CASE req[q].pc # "idle"
    <3>1. Running(q)
      BY <2>2, OwnStep DEF Running
    <3> QED BY <1>1, <3>1 DEF SerialInv
  <2> QED BY <2>1, <2>2
<1>3. \A m \in Model : Placeable(req[q], m)
  BY <1>1, <1>2, HalfwayRuns DEF SerialInv, Placeable
<1> QED BY <1>1, <1>2, <1>3 DEF SerialInv, At

LEMMA SerialAfter ==
  ASSUME RevInv, NEW q \in Request, Step(q), \A p \in Request : Running(p) => p = q, At(q)'
  PROVE  SerialInv'
<1>1. \A p \in Request : Running(p)' => p = q
  BY OwnStep DEF Running
<1>2. \A m \in Model : Open(m)' => m \in Linked(model[m].rev)' \/ Halfway(req[q], m)'
  BY DEF At, Placeable
<1> QED BY <1>1, <1>2 DEF SerialInv, At

LEMMA LinkedDoc ==
  ASSUME RevInv, NEW r \in Revision, NEW k \in Kinds, NEW m \in Range(revision[r].links[k])
  PROVE  m \in Model /\ model[m].rev = r /\ model[m].kind = k
BY OwnNow DEF Owned, Range, Links

\* A step that reads and goes on.
LEMMA ReadsAt ==
  ASSUME RevInv, NEW q \in Request, At(q), UNCHANGED <<revision, model>>,
         NEW d, req' = [req EXCEPT ![q] = d],
         d.pc \notin {"idle"} \cup Ended => Undisturbed(d),
         \A m \in Model : Halfway(req[q], m) /\ Open(m) => Halfway(d, m)
  PROVE  At(q)'
<1>1. req'[q] = d
  BY DEF RevInv, TypeOK
<1>2. Undisturbed(d) => Undisturbed(req[q])'
  BY <1>1 DEF Undisturbed, Live, Current
<1>3. Resolves'
  BY DEF At, Resolves, Saved, Live
<1>4. ASSUME NEW m \in Model PROVE Placeable(req[q], m)'
  <2>1. Placeable(req[q], m) /\ (Halfway(req[q], m) /\ Open(m) => Halfway(d, m))
    BY DEF At
  <2>2. Halfway(req[q], m)' <=> Halfway(d, m)
    BY <1>1 DEF Halfway
  <2>3. Open(m)' <=> Open(m)
    BY DEF Open, Live, Saved
  <2>4. Linked(model[m].rev)' = Linked(model[m].rev)
    BY DEF Linked, LinkedIn
  <2> QED BY <2>1, <2>2, <2>3, <2>4 DEF Placeable
<1> QED BY <1>1, <1>2, <1>3, <1>4 DEF At, Running

\* A request that begins.
LEMMA BeginsAt ==
  ASSUME RevInv, NEW q \in Request, At(q), UNCHANGED <<revision, model>>, req[q].pc = "idle",
         NEW d, Begin(q, d), Undisturbed(d)
  PROVE  At(q)'
<1>1. \A m : ~Halfway(req[q], m)
  BY DEF Halfway
<1> QED BY <1>1, ReadsAt DEF Begin

\* A request that goes on to another line of its handler.
LEMMA GoesAt ==
  ASSUME RevInv, NEW q \in Request, Running(q), At(q), UNCHANGED <<revision, model>>,
         NEW pc, Goto(q, pc),
         \/ pc \in Ended
         \/ /\ pc \notin {"link", "copying"}
            /\ req[q].op # "delete" \/ req[q].pc \in {"check", "recheck", "write"}
            /\ \/ req[q].op = "create" \/ (req[q].op = "branch" /\ req[q].new = None)
               \/ pc \notin {"insert", "unlink", "issues", "mark"}
               \/ req[q].pc \in {"insert", "link", "unlink", "issues", "mark", "copying"},
         \A m \in Model : Halfway(req[q], m) /\ Open(m) =>
           req[q].op = "delete" /\ req[q].old = m /\ pc \in {"check", "recheck", "write"}
  PROVE  At(q)'
<1> DEFINE c == req[q]
<1> DEFINE d == [c EXCEPT !.pc = pc]
<1>1. c \in ReqDoc /\ Undisturbed(c)
  BY DEF RevInv, TypeOK, At
<1>2. /\ d.pc = pc /\ d.op = c.op /\ d.rev = c.rev /\ d.old = c.old /\ d.new = c.new
      /\ d.links = c.links
  BY <1>1 DEF ReqDoc
<1>3. req' = [req EXCEPT ![q] = d]
  BY DEF Goto
<1> HIDE DEF d
<1>4. d.pc \notin {"idle"} \cup Ended => Undisturbed(d)
  BY <1>1, <1>2 DEF Undisturbed, Current
<1>5. \A m \in Model : Halfway(req[q], m) /\ Open(m) => Halfway(d, m)
  BY <1>2 DEF Halfway
<1> QED BY <1>3, <1>4, <1>5, ReadsAt

LEMMA CheckFinalAt == ASSUME RevInv, NEW q \in Request, At(q), CheckFinal(q) PROVE At(q)'
<1> DEFINE pc == IF revision[req[q].rev].final THEN "refused" ELSE AfterCheck(q)
<1>1. /\ req[q].pc \in {"check", "recheck"} /\ Goto(q, pc) /\ UNCHANGED <<revision, model>>
  BY DEF CheckFinal
<1>2. Running(q) /\ req[q].pc \in Path(req[q].op) /\ NewOne(req[q])
  BY <1>1, Runs DEF Ended
<1>3. CASE revision[req[q].rev].final
  <2>1. ASSUME NEW m \in Model, Halfway(req[q], m) PROVE ~Open(m)
    BY <1>1, <1>2, <1>3, <2>1 DEF Halfway, NewOne, Belongs, Open
  <2>2. pc = "refused"
    BY <1>3
  <2> HIDE DEF pc
  <2> QED BY <1>1, <1>2, <2>1, <2>2, GoesAt DEF Ended
<1>4. CASE ~revision[req[q].rev].final
  <2>1. pc = AfterCheck(q)
    BY <1>4
  <2> HIDE DEF pc
  <2>2. \/ req[q].op \in {"create", "branch", "update"}
        \/ req[q].op = "delete" /\ pc \in {"recheck", "write"}
    BY <1>1, <1>2, <2>1 DEF AfterCheck, Path
  <2>3. /\ pc \in {"count", "insert", "recheck", "write"}
        /\ pc = "insert" => req[q].op = "branch" /\ req[q].new = None
    BY <2>1 DEF AfterCheck
  <2>4. ASSUME NEW m \in Model, Halfway(req[q], m)
        PROVE  req[q].op = "delete" /\ req[q].old = m
    BY <1>1, <2>4 DEF Halfway
  <2> QED BY <1>1, <1>2, <2>2, <2>3, <2>4, GoesAt
<1> QED BY <1>3, <1>4

LEMMA CheckCountAt == ASSUME RevInv, NEW q \in Request, At(q), CheckCount(q) PROVE At(q)'
<1>1. PICK pc \in {"refused", "insert"} : Goto(q, pc)
  BY DEF CheckCount
<1>2. req[q].pc = "count" /\ UNCHANGED <<revision, model>>
  BY DEF CheckCount
<1>3. Running(q) /\ req[q].op = "create"
  BY <1>2, Runs DEF Ended, Path
<1>4. \A m : ~Halfway(req[q], m)
  BY <1>2, <1>3 DEF Halfway
<1> QED BY <1>1, <1>2, <1>3, <1>4, GoesAt

LEMMA FindIssuesAt == ASSUME RevInv, NEW q \in Request, At(q), FindIssues(q) PROVE At(q)'
<1>1. PICK pc \in {"refused", "failed", "mark"} : Goto(q, pc)
  BY DEF FindIssues
<1>2. req[q].pc = "issues" /\ UNCHANGED <<revision, model>>
  BY DEF FindIssues
<1>3. Running(q) /\ req[q].op = "finalise"
  BY <1>2, Runs DEF Ended, Path
<1>4. \A m : ~Halfway(req[q], m)
  BY <1>2, <1>3 DEF Halfway
<1>5. pc = "mark" \/ pc \in Ended
  BY DEF Ended
<1> QED BY <1>2, <1>1, <1>3, <1>4, <1>5, GoesAt

LEMMA RereadAt == ASSUME RevInv, NEW q \in Request, At(q), Reread(q) PROVE At(q)'
<1>1. req[q].pc = "reread" /\ UNCHANGED <<revision, model>>
  BY DEF Reread
<1>2. Running(q) /\ req[q].op = "branch" /\ req[q] \in ReqDoc
  BY <1>1, Runs DEF Ended, Path
<1>3. \A m : ~Halfway(req[q], m)
  BY <1>1, <1>2 DEF Halfway
<1>4. CASE Goto(q, "failed")
  BY <1>1, <1>2, <1>3, <1>4, GoesAt DEF Ended
<1>5. CASE ~Goto(q, "failed")
  <2> DEFINE d == [req[q] EXCEPT !.was = model[req[q].old].name, !.pc = "check"]
  <2>1. req' = [req EXCEPT ![q] = d]
    BY <1>5 DEF Reread, RevInv, TypeOK
  <2>2. d.pc = "check" /\ d.op = "branch" /\ d.links = req[q].links /\ d.new = req[q].new
        /\ d.rev = req[q].rev
    BY <1>2 DEF ReqDoc
  <2> HIDE DEF d
  <2>3. Undisturbed(d)
    BY <1>2, <2>2 DEF At, Undisturbed, Current
  <2> QED BY <1>1, <1>3, <2>1, <2>3, ReadsAt
<1> QED BY <1>4, <1>5

LEMMA ReadLinksAt == ASSUME RevInv, NEW q \in Request, At(q), ReadLinks(q) PROVE At(q)'
<1>1. req[q].pc = "unlinking" /\ UNCHANGED <<revision, model>>
  BY DEF ReadLinks
<1>2. Running(q) /\ req[q].op = "delete" /\ req[q] \in ReqDoc
  BY <1>1, Runs DEF Ended, Path
<1>3. \A m : ~Halfway(req[q], m)
  BY <1>1, <1>2 DEF Halfway
<1> DEFINE d == [req[q] EXCEPT !.links = revision[req[q].rev].links, !.pc = "unlink"]
<1>4. req' = [req EXCEPT ![q] = d]
  BY DEF ReadLinks, RevInv, TypeOK
<1>5. d.pc = "unlink" /\ d.op = "delete" /\ d.links = revision[d.rev].links
  BY <1>2 DEF ReqDoc
<1> HIDE DEF d
<1>6. Undisturbed(d)
  BY <1>5 DEF Undisturbed
<1> QED BY <1>1, <1>3, <1>4, <1>6, ReadsAt

LEMMA BeginsAllAt ==
  ASSUME RevInv, NEW q \in Request, At(q),
         \/ BeginCreate(q) \/ BeginUpdate(q) \/ BeginDelete(q) \/ BeginBranch(q)
         \/ BeginFinalise(q)
  PROVE  At(q)'
<1> SUFFICES \E d : Begin(q, d) /\ Undisturbed(d)
  BY BeginsAt DEF BeginCreate, BeginUpdate, BeginDelete, BeginBranch, BeginFinalise, MayBegin
<1>1. ASSUME NEW op, NEW pc, NEW r
      PROVE  /\ Call(op, pc, r).op = op /\ Call(op, pc, r).pc = pc
             /\ Call(op, pc, r).rev = r /\ Call(op, pc, r).new = None
  BY DEF Call, Idle
<1>2. CASE BeginCreate(q)
  <2>1. PICK r \in Revision, k \in Kinds, n \in Names :
          Begin(q, [Call("create", "check", r) EXCEPT
                      !.kind = k, !.name = n, !.links = revision[r].links])
    BY <1>2 DEF BeginCreate
  <2> DEFINE d == [Call("create", "check", r) EXCEPT
                      !.kind = k, !.name = n, !.links = revision[r].links]
  <2>2. d.op = "create" /\ d.pc = "check" /\ d.links = revision[d.rev].links
    BY DEF Call, Idle
  <2> HIDE DEF d
  <2> QED BY <2>1, <2>2 DEF Undisturbed, d
<1>3. CASE BeginUpdate(q)
  <2>1. PICK m \in Model, n \in Names :
          Begin(q, [Call("update", "check", model[m].rev) EXCEPT
                   !.kind = model[m].kind, !.old = m, !.name = n, !.was = model[m].name])
    BY <1>3 DEF BeginUpdate
  <2> DEFINE d == [Call("update", "check", model[m].rev) EXCEPT
                   !.kind = model[m].kind, !.old = m, !.name = n, !.was = model[m].name]
  <2>2. d.op = "update" /\ d.pc = "check"
    BY DEF Call, Idle
  <2> HIDE DEF d
  <2> QED BY <2>1, <2>2 DEF Undisturbed, Current, d
<1>4. CASE BeginDelete(q)
  <2>1. PICK m \in Model :
          Begin(q, [Call("delete", "unlinking", model[m].rev) EXCEPT
                   !.kind = model[m].kind, !.old = m])
    BY <1>4 DEF BeginDelete
  <2> DEFINE d == [Call("delete", "unlinking", model[m].rev) EXCEPT
                   !.kind = model[m].kind, !.old = m]
  <2>2. d.op = "delete" /\ d.pc = "unlinking"
    BY DEF Call, Idle
  <2> HIDE DEF d
  <2> QED BY <2>1, <2>2 DEF Undisturbed, Current, d
<1>5. CASE BeginBranch(q)
  <2>1. PICK m \in Model, n \in Names :
          Begin(q, [Call("branch", "reread", model[m].rev) EXCEPT
                   !.kind = model[m].kind, !.old = m, !.name = n,
                   !.links = revision[model[m].rev].links])
    BY <1>5 DEF BeginBranch
  <2> DEFINE d == [Call("branch", "reread", model[m].rev) EXCEPT
                   !.kind = model[m].kind, !.old = m, !.name = n,
                   !.links = revision[model[m].rev].links]
  <2>2. d.op = "branch" /\ d.pc = "reread" /\ d.links = revision[d.rev].links
    BY DEF Call, Idle
  <2> HIDE DEF d
  <2> QED BY <2>1, <2>2 DEF Undisturbed, d
<1>6. CASE BeginFinalise(q)
  <2>1. PICK r \in Revision :
          Begin(q, [Call("finalise", "issues", r) EXCEPT !.links = revision[r].links])
    BY <1>6 DEF BeginFinalise
  <2> DEFINE d == [Call("finalise", "issues", r) EXCEPT !.links = revision[r].links]
  <2>2. d.op = "finalise" /\ d.pc = "issues" /\ d.links = revision[d.rev].links
    BY DEF Call, Idle
  <2> HIDE DEF d
  <2> QED BY <2>1, <2>2 DEF Undisturbed, d
<1> QED BY <1>2, <1>3, <1>4, <1>5, <1>6

LEMMA InsertsAt == ASSUME RevInv, NEW q \in Request, At(q), Insert(q) PROVE At(q)'
<1>1. PICK n \in Model :
        /\ model[n].state = "free" /\ model[n].rev = None
        /\ model'[n].state = "live" /\ model'[n].rev = req[q].rev
        /\ model'[n].kind = req[q].kind
        /\ \A m \in Model : m # n => model'[m] = model[m]
        /\ model' \in [Model -> ModelDoc]
        /\ req' = [req EXCEPT ![q] = [req[q] EXCEPT !.new = n, !.pc = "link"]]
  BY Inserts
<1>2. req[q].pc = "insert" /\ UNCHANGED <<revision, serial>>
  BY DEF Insert
<1>3. /\ Running(q) /\ req[q] \in ReqDoc /\ req[q].rev \in Revision
      /\ req[q].pc \in Path(req[q].op) /\ Undisturbed(req[q])
  BY <1>2, Runs DEF Ended, At
<1> DEFINE d == [req[q] EXCEPT !.new = n, !.pc = "link"]
<1>4. /\ d.pc = "link" /\ d.op = req[q].op /\ d.new = n /\ d.op # "delete"
      /\ d.rev = req[q].rev /\ d.links = req[q].links
  BY <1>2, <1>3 DEF ReqDoc, Path
<1>5. req'[q] = d
  BY <1>1 DEF RevInv, TypeOK
<1> HIDE DEF d
<1>6. Undisturbed(req[q])'
  BY <1>1, <1>2, <1>3, <1>4, <1>5 DEF Undisturbed, Current, Live
<1>7. Resolves'
  <2>1. \A m \in Model : Live(m) => Live(m)'
    BY <1>1 DEF Live
  <2> QED BY <1>2, <2>1, LinkedDoc DEF At, Resolves, Saved
<1>8. ASSUME NEW m \in Model PROVE Placeable(req[q], m)'
  <2>1. CASE m = n
    BY <1>4, <1>5, <2>1 DEF Placeable, Halfway
  <2>2. CASE m # n
    <3>1. model'[m] = model[m]
      BY <1>1, <2>2
    <3>2. Open(m)' => Open(m)
      BY <1>2, <3>1 DEF Open, Live, Saved
    <3>3. ~Halfway(req[q], m) /\ Placeable(req[q], m)
      BY <1>2, <1>3, <1>4 DEF Halfway, At
    <3> QED BY <1>2, <3>1, <3>2, <3>3 DEF Placeable, Linked, LinkedIn
  <2> QED BY <2>1, <2>2
<1> QED BY <1>6, <1>7, <1>8 DEF At

LEMMA LinkAt == ASSUME RevInv, NEW q \in Request, At(q), Link(q) PROVE At(q)'
<1> DEFINE c == req[q]
<1>1. c.pc = "link" /\ UNCHANGED <<model, serial>>
      /\ Goto(q, IF c.op = "create" THEN "done" ELSE "check")
  BY DEF Link
<1>2. /\ Running(q) /\ c \in ReqDoc /\ c.rev \in Revision /\ c.pc \in Path(c.op)
      /\ NewOne(c) /\ Undisturbed(c)
  BY <1>1, Runs DEF Ended, At
<1>3. /\ c.links = revision[c.rev].links /\ Live(c.new) /\ c.op \in {"create", "branch"}
      /\ c.new \in Model /\ model[c.new].rev = c.rev /\ c.kind \in Kinds
  BY <1>1, <1>2 DEF Undisturbed, Current, Path, NewOne, Belongs
<1>4. revision \in [Revision -> RevisionDoc] /\ req \in [Request -> ReqDoc]
  BY DEF RevInv, TypeOK
<1>5. \A r \in Revision :
        /\ revision'[r].state = revision[r].state /\ revision'[r].final = revision[r].final
        /\ \A k \in Kinds : revision'[r].links[k] =
             IF r = c.rev /\ k = c.kind THEN Append(revision[r].links[k], c.new)
             ELSE revision[r].links[k]
  BY <1>2, <1>3, <1>4 DEF Link, RevisionDoc, Links
<1>6. ASSUME NEW r \in Revision, NEW k \in Kinds
      PROVE  /\ Range(revision'[r].links[k]) \subseteq Range(revision[r].links[k]) \cup {c.new}
             /\ Range(revision[r].links[k]) \subseteq Range(revision'[r].links[k])
             /\ r = c.rev /\ k = c.kind => c.new \in Range(revision'[r].links[k])
  <2> DEFINE l == revision[r].links[k]
  <2>1. l \in Seq(Model)
    BY <1>4 DEF RevisionDoc, Links
  <2> HIDE DEF l
  <2>2. /\ DOMAIN Append(l, c.new) = 1 .. Len(l) + 1 /\ Len(l) \in Nat
        /\ DOMAIN l = 1 .. Len(l)
        /\ \A i \in 1 .. Len(l) : Append(l, c.new)[i] = l[i]
        /\ Append(l, c.new)[Len(l) + 1] = c.new
    BY <2>1, <1>3
  <2>3. Range(Append(l, c.new)) = Range(l) \cup {c.new}
    BY <2>2 DEF Range
  <2> HIDE DEF c
  <2> QED BY <1>5, <2>3 DEF l
<1>7. /\ c.op = "create" => req'[q].pc = "done"
      /\ c.op = "branch" => req'[q].pc = "check"
      /\ req'[q].op = c.op /\ req'[q].new = c.new
  BY <1>1, <1>2, <1>3, <1>4 DEF Goto, ReqDoc
<1> HIDE DEF c
<1>8. Running(q)' => Undisturbed(req[q])'
  BY <1>3, <1>7, NoneIsNoRevision DEF Running, Ended, Undisturbed, Current
<1>9. Resolves'
  BY <1>1, <1>3, <1>5, <1>6 DEF At, Resolves, Saved, Live
<1>10. ASSUME NEW m \in Model, Open(m)' PROVE m \in Linked(model[m].rev)'
  <2>1. Open(m)
    BY <1>1, <1>5, <1>10, <1>4 DEF Open, Live, Saved, RevInv, TypeOK, ModelDoc
  <2>2. model[m].rev \in Revision
    BY <2>1, LiveDoc DEF Open
  <2>3. CASE m \in Linked(model[m].rev)
    <3>1. PICK k \in Kinds : m \in Range(revision[model[m].rev].links[k])
      BY <2>3 DEF Linked, LinkedIn
    <3> QED BY <1>1, <1>6, <2>2, <3>1 DEF Linked, LinkedIn
  <2>4. CASE Halfway(req[q], m)
    <3>1. m = c.new
      BY <1>1, <1>3, <2>4 DEF Halfway, c
    <3> QED BY <1>1, <1>3, <1>6, <2>2, <3>1 DEF Linked, LinkedIn
  <2> QED BY <2>1, <2>3, <2>4 DEF At, Placeable
<1> QED BY <1>8, <1>9, <1>10 DEF At, Placeable

LEMMA WriteAt == ASSUME RevInv, NEW q \in Request, At(q), Write(q) PROVE At(q)'
<1> DEFINE c == req[q]
<1> DEFINE t == Target(q)
<1>1. /\ Running(q) /\ c.pc = "write" /\ Goto(q, "done")
      /\ t \in Model /\ model[t].rev = c.rev /\ c.rev \in Revision
      /\ UNCHANGED <<revision, serial>>
      /\ \A m \in Model : model'[m].rev = model[m].rev /\ (m # t => model'[m] = model[m])
      /\ IF c.op = "delete" THEN model'[t].state = "deleted"
         ELSE model'[t].state = model[t].state
  BY Writes DEF Write
<1>2. Undisturbed(c) /\ Resolves /\ (c.op = "delete" => t = c.old)
  BY <1>1 DEF At, Target
<1>3. req'[q].pc = "done" /\ req'[q].op = c.op
  BY <1>1 DEF Goto, RevInv, TypeOK, ReqDoc
<1> HIDE DEF c, t
<1>4. \A m \in Model : Live(m)' => Live(m)
  BY <1>1 DEF Live
<1>5. ~Running(q)'
  BY <1>3 DEF Running, Ended
<1>6. Resolves'
  <2> SUFFICES ASSUME NEW r \in Revision, Saved(r), NEW k \in Kinds \cap {"Trigger"},
                      NEW m \in Range(revision[r].links[k])
               PROVE  Live(m)'
    BY <1>1 DEF Resolves, Saved
  <2>1. m \in Model /\ model[m].rev = r /\ Live(m)
    BY <1>2, LinkedDoc DEF Resolves
  <2>2. CASE m # t
    BY <1>1, <2>1, <2>2 DEF Live
  <2>3. CASE m = t /\ c.op # "delete"
    BY <1>1, <2>1, <2>3 DEF Live
  <2>4. CASE m = t /\ c.op = "delete"
    <3>1. c.old \notin Range(revision[c.rev].links[k])
      BY <1>1, <1>2, <2>4 DEF Undisturbed
    <3> QED BY <1>1, <1>2, <2>1, <2>4, <3>1
  <2> QED BY <2>2, <2>3, <2>4
<1>7. ASSUME NEW m \in Model, Open(m)' PROVE m \in Linked(model[m].rev)'
  <2>1. Open(m)
    BY <1>1, <1>4, <1>7 DEF Open, Saved
  <2>2. ~Halfway(req[q], m)
    BY <1>1, <1>2, <1>7 DEF Halfway, c, Open, Live
  <2> QED BY <1>1, <2>1, <2>2 DEF At, Placeable, Linked, LinkedIn
<1> QED BY <1>5, <1>6, <1>7 DEF At, Placeable

LEMMA UnlinkAt == ASSUME RevInv, NEW q \in Request, At(q), Unlink(q) PROVE At(q)'
<1> DEFINE c == req[q]
<1>1. c.pc = "unlink" /\ UNCHANGED <<model, serial>> /\ Goto(q, "check")
  BY DEF Unlink
<1>2. /\ Running(q) /\ c \in ReqDoc /\ c.rev \in Revision /\ c.pc \in Path(c.op)
      /\ Undisturbed(c)
  BY <1>1, Runs DEF Ended, At
<1>3. c.links = revision[c.rev].links /\ c.op = "delete"
  BY <1>1, <1>2 DEF Undisturbed, Current, Path
<1>4. revision \in [Revision -> RevisionDoc] /\ req \in [Request -> ReqDoc]
  BY DEF RevInv, TypeOK
<1>5. \A k \in Kinds : Unlinked(c.links, c.old)[k] =
        IF k = "Trigger" THEN Without(c.links[k], c.old) ELSE c.links[k]
  BY <1>2 DEF Unlinked, ReqDoc, Links
<1>6. \A r \in Revision :
        /\ revision'[r].state = revision[r].state /\ revision'[r].final = revision[r].final
        /\ \A k \in Kinds : revision'[r].links[k] =
             IF r = c.rev /\ k = "Trigger" THEN Without(revision[r].links[k], c.old)
             ELSE revision[r].links[k]
  BY <1>2, <1>3, <1>4, <1>5 DEF Unlink, RevisionDoc, Links
<1>7. ASSUME NEW r \in Revision, NEW k \in Kinds
      PROVE  Range(revision'[r].links[k]) =
               IF r = c.rev /\ k = "Trigger" THEN Range(revision[r].links[k]) \ {c.old}
               ELSE Range(revision[r].links[k])
  <2> DEFINE l == revision[r].links[k]
  <2>1. l \in Seq(Model) /\ \A i, j \in DOMAIN l : l[i] = l[j] => i = j
    BY OwnNow DEF Links, Owned
  <2> HIDE DEF l
  <2>2. Range(Without(l, c.old)) = Range(l) \ {c.old}
    BY <2>1, WithoutOne
  <2> HIDE DEF c
  <2> QED BY <1>6, <2>2 DEF l
<1>8. req'[q].pc = "check" /\ req'[q].op = "delete" /\ req'[q].old = c.old /\ req'[q].rev = c.rev
  BY <1>1, <1>2, <1>3, <1>4 DEF Goto, ReqDoc
<1> HIDE DEF c
<1>9. Undisturbed(req[q])'
  BY <1>2, <1>7, <1>8 DEF Undisturbed, Current
<1>10. Resolves'
  <2> SUFFICES ASSUME NEW r \in Revision, Saved(r), NEW k \in Kinds \cap {"Trigger"},
                      NEW m \in Range(revision'[r].links[k])
               PROVE  Live(m)'
    BY <1>6 DEF Resolves, Saved
  <2>1. m \in Range(revision[r].links[k])
    BY <1>7
  <2> QED BY <1>1, <2>1 DEF At, Resolves, Live
<1>11. ASSUME NEW m \in Model, Open(m)' PROVE m \in Linked(model[m].rev)' \/ m = c.old
  <2>1. Open(m)
    BY <1>1, <1>4, <1>6, <1>11 DEF Open, Live, Saved, RevInv, TypeOK, ModelDoc
  <2>2. model[m].rev \in Revision
    BY <2>1, LiveDoc DEF Open
  <2>3. m \in Linked(model[m].rev)
    BY <1>1, <2>1 DEF At, Placeable, Halfway, c
  <2>4. PICK k \in Kinds : m \in Range(revision[model[m].rev].links[k])
    BY <2>3 DEF Linked, LinkedIn
  <2> QED BY <1>1, <1>7, <2>2, <2>4 DEF Linked, LinkedIn
<1> QED BY <1>8, <1>9, <1>10, <1>11 DEF At, Placeable, Halfway

LEMMA MarkAt == ASSUME RevInv, NEW q \in Request, At(q), Mark(q) PROVE At(q)'
<1>1. req[q].pc = "mark" /\ Goto(q, "done") /\ UNCHANGED <<model, serial>>
  BY DEF Mark
<1>2. Running(q) /\ req[q].rev \in Revision /\ req[q].op = "finalise" /\ req[q] \in ReqDoc
  BY <1>1, Runs DEF Ended, Path
<1>3. revision \in [Revision -> RevisionDoc] /\ req \in [Request -> ReqDoc]
  BY DEF RevInv, TypeOK
<1>4. \A t \in Revision : /\ revision'[t].state = revision[t].state
                          /\ revision[t].final => revision'[t].final
                          /\ revision'[t].links = revision[t].links
  BY <1>2, <1>3 DEF Mark, RevisionDoc
<1>5. ~Running(q)'
  BY <1>1, <1>3 DEF Goto, Running, Ended, ReqDoc
<1>6. Resolves'
  BY <1>1, <1>4 DEF At, Resolves, Saved, Live
<1>7. ASSUME NEW m \in Model, Open(m)' PROVE m \in Linked(model[m].rev)'
  <2>1. model[m].rev \in Revision
    BY <1>1, <1>7, LiveDoc DEF Open, Live
  <2>2. Open(m) /\ ~Halfway(req[q], m)
    BY <1>1, <1>2, <1>4, <1>7, <2>1 DEF Open, Live, Saved, Halfway
  <2> QED BY <1>1, <1>4, <2>1, <2>2 DEF At, Placeable, Linked, LinkedIn
<1> QED BY <1>5, <1>6, <1>7 DEF At, Placeable

LEMMA BeginDuplicateAt ==
  ASSUME RevInv, NEW q \in Request, At(q), BeginDuplicate(q)
  PROVE  At(q)'
<1>1. PICK r \in Revision, to \in Revision :
        /\ revision[r].state = "saved" /\ revision[to].state = "free"
        /\ Begin(q, [Call("duplicate", "copying", r) EXCEPT
                       !.new = to, !.links = revision[r].links])
        /\ revision' = [revision EXCEPT ![to].state = "reserved"]
  BY DEF BeginDuplicate
<1>2. revision \in [Revision -> RevisionDoc] /\ UNCHANGED model /\ req[q].pc = "idle"
  BY DEF RevInv, TypeOK, BeginDuplicate, MayBegin
<1> DEFINE d == [Call("duplicate", "copying", r) EXCEPT !.new = to, !.links = revision[r].links]
<1>3. /\ d.pc = "copying" /\ d.op = "duplicate" /\ d.rev = r /\ d.links = revision[r].links
      /\ d.copies = {}
  BY DEF Call, Idle
<1>4. req'[q] = d
  BY <1>1 DEF Begin, RevInv, TypeOK
<1> HIDE DEF d
<1>5. \A t \in Revision : /\ revision'[t].links = revision[t].links
                          /\ revision'[t].final = revision[t].final
                          /\ (revision'[t].state = "saved") <=> Saved(t)
  BY <1>1, <1>2 DEF RevisionDoc, Saved
<1>6. Undisturbed(req[q])'
  BY <1>3, <1>4, <1>5 DEF Undisturbed
<1>7. Resolves'
  BY <1>2, <1>5 DEF At, Resolves, Saved, Live
<1>8. ASSUME NEW m \in Model, Open(m)' PROVE m \in Linked(model[m].rev)'
  <2>1. model[m].rev \in Revision
    BY <1>2, <1>8, LiveDoc DEF Open, Live
  <2>2. Open(m) /\ ~Halfway(req[q], m)
    BY <1>2, <1>5, <1>8, <2>1 DEF Open, Live, Saved, Halfway
  <2> QED BY <1>2, <1>5, <2>1, <2>2 DEF At, Placeable, Linked, LinkedIn
<1> QED BY <1>6, <1>7, <1>8 DEF At, Placeable

LEMMA CopyOneAt == ASSUME RevInv, NEW q \in Request, At(q), CopyOne(q) PROVE At(q)'
<1> DEFINE c == req[q]
<1>1. PICK o \in LinkedIn(req[q].links) \ Copied(q), n \in Model :
        /\ Live(o)
        /\ model[n].state = "free" /\ model[n].rev = None
        /\ model'[n].state \in {"pending", "live"} /\ model'[n].rev = req[q].new
        /\ model'[n].kind = model[o].kind /\ model'[n].name = model[o].name
        /\ \A m \in Model : m # n => model'[m] = model[m]
        /\ model' \in [Model -> ModelDoc]
        /\ req' = [req EXCEPT ![q] = [req[q] EXCEPT !.copies = @ \cup {<<o, n>>}]]
  BY Copies
<1>2. c.pc = "copying" /\ UNCHANGED <<revision, serial>>
  BY DEF CopyOne
<1>3. /\ Running(q) /\ c \in ReqDoc /\ c.op = "duplicate" /\ c.rev \in Revision
      /\ c.new \in Revision /\ ~Saved(c.new) /\ Undisturbed(c)
      /\ \A x \in c.copies : /\ x[1] \in Model /\ x[2] \in Model
                             /\ model[x[1]].rev = c.rev /\ model[x[2]].rev = c.new
      /\ o \in Model /\ model[o].rev = c.rev
  BY <1>2, Duplicates DEF At, Saved
<1> DEFINE d == [req[q] EXCEPT !.copies = @ \cup {<<o, n>>}]
<1>4. /\ d.pc = "copying" /\ d.op = "duplicate" /\ d.rev = c.rev /\ d.links = c.links
      /\ d.copies = c.copies \cup {<<o, n>>}
  BY <1>2, <1>3 DEF ReqDoc
<1>5. req'[q] = d
  BY <1>1 DEF RevInv, TypeOK
<1> HIDE DEF d
<1>6. ASSUME NEW x \in d.copies
      PROVE  /\ model'[x[2]].state \in {"pending", "live"}
             /\ model'[x[2]].name = model'[x[1]].name
  <2>1. CASE x \in c.copies
    <3>1. x[1] # n /\ x[2] # n
      BY <1>1, <1>3, <2>1, NoneIsNoRevision
    <3> QED BY <1>1, <1>2, <1>3, <2>1, <3>1 DEF Undisturbed
  <2>2. CASE x = <<o, n>>
    <3>1. o # n
      BY <1>1, <1>3, NoneIsNoRevision
    <3> QED BY <1>1, <1>3, <2>2, <3>1
  <2> QED BY <1>4, <2>1, <2>2
<1> HIDE DEF c
<1>7. Undisturbed(req[q])'
  BY <1>2, <1>3, <1>4, <1>5, <1>6 DEF Undisturbed, Current
<1>8. Resolves'
  <2>1. \A m \in Model : Live(m) => Live(m)'
    BY <1>1 DEF Live
  <2> QED BY <1>2, <2>1, LinkedDoc DEF At, Resolves, Saved
<1>9. ASSUME NEW m \in Model, Open(m)' PROVE m \in Linked(model[m].rev)'
  <2>1. m # n
    BY <1>1, <1>2, <1>3, <1>9 DEF Open, Saved, c
  <2>2. Open(m) /\ model'[m] = model[m] /\ ~Halfway(req[q], m)
    BY <1>1, <1>2, <1>3, <1>9, <2>1 DEF Open, Live, Saved, Halfway, c
  <2> QED BY <1>2, <2>2 DEF At, Placeable, Linked, LinkedIn
<1> QED BY <1>7, <1>8, <1>9 DEF At, Placeable

LEMMA CopyFailsAt == ASSUME RevInv, NEW q \in Request, At(q), CopyFails(q) PROVE At(q)'
<1>1. req[q].pc = "copying" /\ UNCHANGED <<revision, serial>> /\ Goto(q, "failed")
  BY DEF CopyFails
<1>2. \A m \in Model : \/ model'[m] = model[m]
                       \/ model'[m] = NoDoc /\ model[m].rev = req[q].new
  BY Fails
<1>3. ~Saved(req[q].new) /\ req[q].op = "duplicate"
  BY <1>1, Duplicates DEF Saved
<1>4. ~Running(q)'
  BY <1>1 DEF Goto, Running, Ended, RevInv, TypeOK, ReqDoc
<1>5. Resolves'
  <2>1. \A m \in Model : Saved(model[m].rev) => model'[m] = model[m]
    BY <1>2, <1>3
  <2> QED BY <1>1, <2>1, LinkedDoc DEF At, Resolves, Saved, Live
<1>6. ASSUME NEW m \in Model, Open(m)' PROVE m \in Linked(model[m].rev)'
  <2>1. model'[m] = model[m]
    BY <1>2, <1>6 DEF Open, Live, NoDoc
  <2>2. Open(m) /\ ~Halfway(req[q], m)
    BY <1>1, <1>3, <1>6, <2>1 DEF Open, Live, Saved, Halfway
  <2> QED BY <1>1, <2>1, <2>2 DEF At, Placeable, Linked, LinkedIn
<1> QED BY <1>4, <1>5, <1>6 DEF At, Placeable

LEMMA SaveDuplicateAt ==
  ASSUME RevInv, NEW q \in Request, At(q), SaveDuplicate(q)
  PROVE  At(q)'
<1> DEFINE c == req[q]
<1>1. PICK l \in Links :
           /\ revision' = [revision EXCEPT ![req[q].new] =
                             [state |-> "saved", final |-> FALSE, links |-> l]]
           /\ \A k \in Kinds :
                /\ Len(l[k]) = Len(req[q].links[k]) /\ DOMAIN l[k] = DOMAIN req[q].links[k]
                /\ \A i \in DOMAIN req[q].links[k] :
                     <<req[q].links[k][i], l[k][i]>> \in req[q].copies
           /\ model' \in [Model -> ModelDoc]
           /\ \A m \in Model :
                /\ model'[m].rev = model[m].rev /\ model'[m].kind = model[m].kind
                /\ model'[m].name = model[m].name
                /\ model'[m] = model[m] \/ model[m].rev = req[q].new
                /\ model'[m].state \in {model[m].state, "live"}
                /\ model'[m].state = "pending" => /\ model[m].state = "pending"
                                                  /\ \A x \in req[q].copies : x[2] # m
           /\ \A x \in req[q].copies : x[1] \in LinkedIn(req[q].links)
           /\ \A m \in LinkedIn(req[q].links) : \E x \in req[q].copies : x[1] = m
  BY Saves
<1>2. c.pc = "copying" /\ UNCHANGED serial /\ Goto(q, "done")
  BY DEF SaveDuplicate
<1>3. /\ Running(q) /\ c.op = "duplicate" /\ c.new \in Revision /\ ~Saved(c.new) /\ Undisturbed(c)
      /\ \A x \in c.copies : /\ x[2] \in Model /\ x = <<x[1], x[2]>>
                             /\ x[1] \in LinkedIn(c.links)
      /\ \A x, y \in c.copies : x[1] = y[1] <=> x[2] = y[2]
      /\ \A m \in Model : model[m].rev = c.new => \E x \in c.copies : x[2] = m
  BY <1>2, Duplicates DEF At, Saved
<1>4. ~Running(q)'
  BY <1>2 DEF Goto, Running, Ended, RevInv, TypeOK, ReqDoc
<1>5. /\ revision'[c.new].links = l
      /\ \A r \in Revision : r # c.new => revision'[r] = revision[r]
  BY <1>1, <1>3 DEF RevInv, TypeOK
<1> HIDE DEF c
<1>6. \A x \in c.copies : Live(x[2])'
  <2> SUFFICES ASSUME NEW x \in c.copies PROVE model'[x[2]].state = "live"
    BY DEF Live
  <2>1. x[2] \in Model /\ model[x[2]].state \in {"pending", "live"}
    BY <1>2, <1>3 DEF Undisturbed
  <2>2. model'[x[2]].state \in {model[x[2]].state, "live"} /\ model'[x[2]].state # "pending"
    BY <1>1, <2>1 DEF c
  <2> QED BY <2>1, <2>2
<1>7. Resolves'
  <2> SUFFICES ASSUME NEW r \in Revision, Saved(r)', NEW k \in Kinds \cap {"Trigger"},
                      NEW m \in Range(revision'[r].links[k])
               PROVE  Live(m)'
    BY DEF Resolves
  <2>1. CASE r = c.new
    <3>1. PICK i \in DOMAIN l[k] : m = l[k][i]
      BY <1>5, <2>1 DEF Range
    <3>2. <<c.links[k][i], m>> \in c.copies
      BY <1>1, <3>1 DEF c
    <3> QED BY <1>6, <3>2
  <2>2. CASE r # c.new
    <3>1. m \in Model /\ model[m].rev = r /\ Live(m)
      BY <1>5, <2>2, LinkedDoc DEF At, Resolves, Saved
    <3> QED BY <1>1, <2>2, <3>1 DEF Live, c
  <2> QED BY <2>1, <2>2
<1>8. ASSUME NEW m \in Model, Open(m)' PROVE m \in Linked(model[m].rev)'
  <2>1. model'[m].rev = model[m].rev /\ model[m].rev \in Revision
    BY <1>1, <1>8, NoneIsNoRevision DEF Open, Live, ModelDoc
  <2>2. CASE model[m].rev = c.new
    <3>1. PICK x \in c.copies : x[2] = m
      BY <1>3, <2>2
    <3>2. PICK k \in Kinds : x[1] \in Range(c.links[k])
      BY <1>3 DEF LinkedIn
    <3>3. PICK i \in DOMAIN c.links[k] : x[1] = c.links[k][i]
      BY <3>2 DEF Range
    <3>4. <<x[1], l[k][i]>> \in c.copies /\ i \in DOMAIN l[k]
      BY <1>1, <3>3 DEF c
    <3>5. l[k][i] = m
      BY <1>3, <3>1, <3>4
    <3> QED BY <1>5, <2>1, <2>2, <3>4, <3>5 DEF Linked, LinkedIn, Range
  <2>3. CASE model[m].rev # c.new
    <3>1. model'[m] = model[m]
      BY <1>1, <2>3 DEF c
    <3>2. Open(m) /\ ~Halfway(req[q], m)
      BY <1>2, <1>3, <1>5, <1>8, <2>1, <2>3, <3>1 DEF Open, Live, Saved, Halfway, c
    <3> QED BY <1>5, <2>1, <2>3, <3>2 DEF At, Placeable, Linked, LinkedIn
  <2> QED BY <2>2, <2>3
<1> QED BY <1>4, <1>7, <1>8 DEF At, Placeable

LEMMA StepAt == ASSUME RevInv, NEW q \in Request, At(q), Step(q) PROVE At(q)'
BY BeginsAllAt, BeginDuplicateAt, CheckFinalAt, CheckCountAt, InsertsAt, LinkAt, RereadAt, WriteAt,
   ReadLinksAt, UnlinkAt, FindIssuesAt, MarkAt, CopyOneAt, CopyFailsAt, SaveDuplicateAt
   DEF Step

LEMMA StepSerial == RevInv /\ SerialInv /\ [Next]_vars => SerialInv'
<1>1. ASSUME RevInv, SerialInv, UNCHANGED vars PROVE SerialInv'
  BY <1>1 DEF vars, SerialInv, Running, Undisturbed, Current, Live, Resolves, Saved, Open, Linked,
              LinkedIn, Halfway
<1>2. ASSUME RevInv, SerialInv, NEW q \in Request, Step(q) PROVE SerialInv'
  <2>1. CASE ~serial'
    BY <2>1 DEF SerialInv
  <2>2. CASE serial'
    BY <1>2, <2>2, SerialBefore, StepAt, SerialAfter
  <2> QED BY <2>1, <2>2
<1> QED BY <1>1, <1>2 DEF Next

LEMMA InitSerial == Init => SerialInv
<1> SUFFICES ASSUME Init PROVE SerialInv
  OBVIOUS
<1>1. PICK kind \in [Seeded -> Kinds], name \in [Seeded -> Names] :
       /\ model = [m \in Model |->
            IF m \in Seeded
              THEN [state |-> "live", kind |-> kind[m], rev |-> First, name |-> name[m]]
              ELSE NoDoc]
       /\ revision = [r \in Revision |->
            [state |-> IF r = First THEN "saved" ELSE "free", final |-> FALSE,
             links |-> [k \in Kinds |->
               IF r = First THEN SetToSeq({m \in Seeded : kind[m] = k}) ELSE <<>>]]]
  BY DEF Init, NoDoc
<1> DEFINE of(k) == {m \in Seeded : kind[m] = k}
<1>2. First \in Revision /\ Seeded \subseteq Model /\ IsFiniteSet(Seeded)
  BY RevisionsAssumption, FS_Subset
<1>3. ASSUME NEW k \in Kinds PROVE Range(revision[First].links[k]) = of(k)
  <2>1. IsFiniteSet(of(k))
    BY <1>2, FS_Subset
  <2>2. revision[First].links[k] = SetToSeq(of(k))
    BY <1>1, <1>2
  <2> QED BY <2>1, <2>2, ListOfSet
<1>4. \A q \in Request : ~Running(q)
  BY DEF Init, Running, Idle
<1>5. Resolves
  <2>1. \A r \in Revision : Saved(r) => r = First
    BY <1>1 DEF Saved
  <2>2. \A m \in Seeded : Live(m)
    BY <1>1, <1>2 DEF Live
  <2> QED BY <1>3, <2>1, <2>2 DEF Resolves
<1>6. ASSUME NEW m \in Model, Open(m) PROVE m \in Linked(model[m].rev)
  <2>1. m \in Seeded /\ model[m].rev = First
    BY <1>1, <1>6 DEF Open, Live, NoDoc
  <2>2. kind[m] \in Kinds /\ m \in of(kind[m])
    BY <2>1
  <2>3. m \in Range(revision[First].links[kind[m]])
    BY <1>3, <2>2
  <2> QED BY <2>1, <2>2, <2>3 DEF Linked, LinkedIn
<1> QED BY <1>4, <1>5, <1>6 DEF SerialInv

\* As long as requests come one at a time, every revision and the database agree
\* but for what the one request at work is about to link or to delete.
THEOREM SerialCorrect == Spec => []SerialInv
BY InitSerial, StepSerial, RevisionsCorrect, PTL DEF Spec

\* No saved revision links a trigger that is not in the database.
THEOREM LinksResolveSerially == Spec => []LinksResolve
<1>1. SerialInv => LinksResolve
  BY DEF SerialInv, Resolves, LinksResolve
<1> QED BY <1>1, SerialCorrect, PTL

\* Between requests, what is in the database of an open revision is linked by it.
THEOREM NothingLostSerially == Spec => []NothingLost
<1>1. SerialInv => NothingLost
  BY HalfwayRuns DEF SerialInv, NothingLost, Quiet, Open
<1> QED BY <1>1, SerialCorrect, PTL

\* A duplication that no other request disturbs returns an exact copy, and shares
\* nothing with the original.
THEOREM DuplicatesExactly == Spec => DuplicateIsExact
<1> DEFINE Exact == serial' => \A q \in Request :
       (req[q].op = "duplicate" /\ req'[q].pc = "done" /\ req[q].pc # "done") =>
         \A k \in Kinds :
           LET from == revision[req[q].rev].links[k]
               to == revision'[req[q].new].links[k]
           IN  /\ Len(from) = Len(to)
               /\ \A i \in DOMAIN from : /\ from[i] # to[i]
                                         /\ model'[to[i]].name = model[from[i]].name
                                         /\ model'[to[i]].state = "live"
<1>1. RevInv /\ SerialInv /\ [Next]_vars => [Exact]_vars
  <2> SUFFICES ASSUME RevInv, SerialInv, Next, serial', NEW q \in Request,
                      req[q].op = "duplicate", req'[q].pc = "done", req[q].pc # "done",
                      NEW k \in Kinds
               PROVE  LET from == revision[req[q].rev].links[k]
                          to == revision'[req[q].new].links[k]
                      IN  /\ Len(from) = Len(to)
                          /\ \A i \in DOMAIN from : /\ from[i] # to[i]
                                                    /\ model'[to[i]].name = model[from[i]].name
                                                    /\ model'[to[i]].state = "live"
    OBVIOUS
  <2>1. Step(q)
    <3>1. PICK p \in Request : Step(p)
      BY DEF Next
    <3> QED BY <3>1, OwnStep
  <2>2. req[q].pc = "copying"
    <3>1. req[q].pc # "idle"
      BY DEF RevInv, Fits, Placed, Idle
    <3>2. req[q].pc \notin Ended
      BY <2>1, <3>1, OwnStep
    <3> QED BY <3>1, <3>2 DEF RevInv, Fits, Placed, Path
  <2>3. SaveDuplicate(q)
    <3>1. req \in [Request -> ReqDoc] /\ req[q] \in ReqDoc
      BY DEF RevInv, TypeOK
    <3>2. ASSUME CopyFails(q) PROVE FALSE
      BY <2>2, <3>1, <3>2 DEF CopyFails, Goto, ReqDoc
    <3>3. ASSUME CopyOne(q) PROVE FALSE
      <4>1. PICK o, n : req' = [req EXCEPT ![q].copies = @ \cup {<<o, n>>}]
        BY <3>3 DEF CopyOne
      <4>2. req'[q].pc = req[q].pc
        BY <3>1, <4>1 DEF ReqDoc
      <4> QED BY <2>2, <4>2
    <3> QED BY <2>1, <2>2, <3>2, <3>3
            DEF Step, BeginCreate, BeginUpdate, BeginDelete, BeginBranch, BeginFinalise,
                BeginDuplicate, MayBegin, CheckFinal, CheckCount, Insert, Link, Reread, Write,
                ReadLinks, Unlink, FindIssues, Mark
  <2>4. Undisturbed(req[q])
    BY <2>1, <2>2, SerialBefore, Duplicates DEF At
  <2> DEFINE from == revision[req[q].rev].links[k]
  <2> DEFINE to == revision'[req[q].new].links[k]
  <2>5. from = req[q].links[k]
    BY <2>2, <2>4 DEF Undisturbed, Current
  <2>6. PICK l \in Links :
           /\ revision' = [revision EXCEPT ![req[q].new] =
                             [state |-> "saved", final |-> FALSE, links |-> l]]
           /\ \A j \in Kinds :
                /\ Len(l[j]) = Len(req[q].links[j]) /\ DOMAIN l[j] = DOMAIN req[q].links[j]
                /\ \A i \in DOMAIN req[q].links[j] :
                     <<req[q].links[j][i], l[j][i]>> \in req[q].copies
           /\ \A m \in Model :
                /\ model'[m].name = model[m].name
                /\ model'[m].state \in {model[m].state, "live"}
                /\ model'[m].state = "pending" => \A x \in req[q].copies : x[2] # m
    BY <2>3, Saves
  <2>7. to = l[k]
    BY <2>2, <2>6, Duplicates DEF RevInv, TypeOK
  <2>8. ASSUME NEW i \in DOMAIN from
        PROVE  /\ from[i] # to[i] /\ model'[to[i]].name = model[from[i]].name
               /\ model'[to[i]].state = "live"
    <3> DEFINE x == <<from[i], to[i]>>
    <3>1. x \in req[q].copies /\ x[1] = from[i] /\ x[2] = to[i]
      BY <2>5, <2>6, <2>7
    <3> HIDE DEF x, from, to
    <3>2. /\ x[2] \in Model /\ model[x[2]].state \in {"pending", "live"}
          /\ model[x[2]].name = model[x[1]].name
      BY <2>2, <2>4, <3>1, Duplicates DEF Undisturbed
    <3>3. model[x[2]].rev = req[q].new /\ model[x[1]].rev = req[q].rev /\ req[q].rev # req[q].new
      BY <2>2, <3>1, Duplicates DEF Saved
    <3>4. model'[x[2]].state = "live" /\ model'[x[2]].name = model[x[2]].name
      BY <2>6, <3>1, <3>2
    <3> QED BY <3>1, <3>2, <3>3, <3>4
  <2> HIDE DEF from, to
  <2>9. Len(from) = Len(to)
    BY <2>5, <2>6, <2>7
  <2> QED BY <2>8, <2>9 DEF from, to
<1> QED BY <1>1, RevisionsCorrect, SerialCorrect, PTL DEF Spec, DuplicateIsExact
=============================================================================
