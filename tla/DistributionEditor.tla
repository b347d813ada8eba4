-------------------------- MODULE DistributionEditor --------------------------
(***************************************************************************)
(* The pages of the web application on which the action groups of one      *)
(* distribution are edited (ActionGroupDistributionSection), and the       *)
(* requests they make of the API.                                          *)
(*                                                                         *)
(* A page loads the groups, and balances their shares by itself when they  *)
(* do not add up; it then saves every group with a write of its own        *)
(* (updateActionGroups), and loads again when all have succeeded.  A user  *)
(* edits what the page has, not what the database holds by then.           *)
(*                                                                         *)
(* Abstracted: a user waits until the page has saved; names and actions.   *)
(***************************************************************************)
EXTENDS Selection

CONSTANTS
  Page,       \* pages open on the distribution
  MaxGroups,  \* bound: groups ever made
  MaxWork     \* bound: groups made and edits of the users, together

ASSUME EditorAssumption ==
  /\ IsFiniteSet(Page) /\ MaxGroups \in Nat /\ MaxWork \in Nat
  /\ MaxGroups <= Total

VARIABLES
  groups, \* the groups in the database, in the order of the distribution
  made,   \* how many have been made
  page,   \* what each page has
  edits,  \* edits so far
  broken, \* history: a page has failed to save, and was left as it was
  clashed \* history: two pages were saving at once

editor == <<groups, made, page, edits, broken, clashed>>

\* due: why the page is to load the groups.
Blank == [seen |-> <<>>, dist |-> <<>>, saving |-> {}, due |-> "first", failed |-> FALSE]
Idle(p) == page[p].saving = {} /\ page[p].due = "no"
Group(id, share, locked) == [id |-> id, share |-> share, locked |-> locked]

\* Groups that were created without a share, and have not been looked at.
EditorInit ==
  /\ \E n \in 0 .. MaxGroups : groups = [i \in 1 .. n |-> Group(i, Unset, FALSE)]
  /\ made = Len(groups)
  /\ page = [p \in Page |-> Blank]
  /\ edits = 0 /\ broken = FALSE /\ clashed = FALSE

-----------------------------------------------------------------------------
\* flushDistribution: one update for each group the page knows of.
Updates(gs) == {[to |-> gs[i], was |-> None] : i \in DOMAIN gs}
Flush(p, gs) == [page[p] EXCEPT !.dist = gs, !.saving = Updates(gs),
                                !.due = IF gs = <<>> THEN "save" ELSE "no"]
Clash(p) == clashed' = (clashed \/ (page'[p].saving # {} /\ \E q \in Page \ {p} : page[q].saving # {}))

\* The first load, or one after a save or a dialog.  A page that is built anew, as
\* may happen after a dialog, takes over what it loads; one that stays keeps its own
\* values.  The effect that balances runs when the groups are not those it ran for.
\* (Mutant: it runs at every load.)
Changed_Always(p, anew) == TRUE
Changed(p, anew) == anew \/ groups # page[p].seen
Anew(p) == CASE page[p].due = "first" -> {TRUE}
             [] page[p].due = "save" -> {FALSE}
             [] OTHER -> BOOLEAN
Load(p) ==
  /\ page[p].due # "no"
  /\ \E anew \in Anew(p) :
       LET balance == groups # <<>> /\ NeedsBalance(groups) /\ Changed(p, anew)
           kept == [page[p] EXCEPT !.due = "no", !.dist = IF anew THEN groups ELSE @]
           next == IF balance THEN Flush(p, Balanced(groups)) ELSE kept
       IN  page' = [page EXCEPT ![p] = [next EXCEPT !.seen = groups]]
  /\ Clash(p)
  /\ UNCHANGED <<groups, made, edits, broken>>

\* updateActionGroups reads each group ...
InDb(id) == {i \in DOMAIN groups : groups[i].id = id}
ReadGroup(p) ==
  /\ \E u \in page[p].saving :
       /\ u.was = None
       /\ LET at == InDb(u.to.id)
              rest == page[p].saving \ {u}
          IN  IF at # {}
              THEN page' = [page EXCEPT ![p].saving =
                              rest \cup {[u EXCEPT !.was = groups[CHOOSE i \in at : TRUE]]}]
              ELSE page' = [page EXCEPT ![p].saving = rest, ![p].failed = rest # {}]
       /\ broken' = (broken \/ InDb(u.to.id) = {})
  /\ UNCHANGED <<groups, made, edits, clashed>>

\* ... and saves what differs from it, all of them at once and in any order.
Merged(g, u) == [g EXCEPT !.share = IF u.to.share # u.was.share THEN u.to.share ELSE @,
                          !.locked = IF u.to.locked # u.was.locked THEN u.to.locked ELSE @]
\* (Mutant: the page is not refreshed.)
Refreshed_Never(p) == FALSE
Refreshed(p) == ~page[p].failed
WriteGroup(p) ==
  /\ \E u \in page[p].saving :
       LET rest == page[p].saving \ {u}
       IN  /\ u.was # None
           /\ groups' = [i \in DOMAIN groups |->
                IF groups[i].id = u.to.id THEN Merged(groups[i], u) ELSE groups[i]]
           /\ page' = [page EXCEPT ![p].saving = rest,
                                   ![p].due = IF rest = {} /\ Refreshed(p) THEN "save" ELSE "no",
                                   ![p].failed = @ /\ rest # {}]
  /\ UNCHANGED <<made, edits, broken, clashed>>

-----------------------------------------------------------------------------
(* The user of a page.                                                     *)

Edit(p) == Idle(p) /\ edits + made < MaxWork /\ edits' = edits + 1

Shown(p) == {g.id : g \in Range(page[p].seen)}

\* setActionGroupLock flushes at once.
Lock(p) ==
  /\ Edit(p)
  /\ \E id \in Shown(p) :
       LET dist == [i \in DOMAIN page[p].dist |->
                      IF page[p].dist[i].id = id THEN [page[p].dist[i] EXCEPT !.locked = ~@]
                                                 ELSE page[p].dist[i]]
       IN  page' = [page EXCEPT ![p] = Flush(p, dist)]
  /\ Clash(p)
  /\ UNCHANGED <<groups, made, broken>>

\* setDistributionValue while the slider moves, then commitDistribution.
SetShare(p) ==
  /\ Edit(p)
  /\ \E i \in DOMAIN page[p].dist, v \in 1 .. Total :
       /\ Settable(page[p].dist, i, v)
       /\ LET dist == WithShare(page[p].dist, i, v)
          IN  page' = [page EXCEPT ![p] = Flush(p, dist)]
  /\ Clash(p)
  /\ UNCHANGED <<groups, made, broken>>

\* Dialogs of the page: they act on the database, and have the page load again.
Create(p) ==
  /\ Edit(p)
  /\ made < MaxGroups /\ made' = made + 1
  /\ groups' = Append(groups, Group(made + 1, Unset, FALSE))
  /\ page' = [page EXCEPT ![p].due = "dialog"]
  /\ UNCHANGED <<broken, clashed>>

Copy(g, id) == [g EXCEPT !.id = id]
Duplicate(p) ==
  /\ Edit(p)
  /\ made < MaxGroups /\ made' = made + 1
  /\ \E i \in DOMAIN groups :
       groups[i].id \in Shown(p) /\ groups' = Append(groups, Copy(groups[i], made + 1))
  /\ page' = [page EXCEPT ![p].due = "dialog"]
  /\ UNCHANGED <<broken, clashed>>

Delete(p) ==
  /\ Edit(p)
  /\ \E i \in DOMAIN groups : groups[i].id \in Shown(p) /\ groups' = RemoveAt(groups, i)
  /\ page' = [page EXCEPT ![p].due = "dialog"]
  /\ UNCHANGED <<made, broken, clashed>>

EditorNext ==
  \E p \in Page :
    \/ Load(p) \/ ReadGroup(p) \/ WriteGroup(p)
    \/ Lock(p) \/ SetShare(p) \/ Create(p) \/ Duplicate(p) \/ Delete(p)
=============================================================================
