----------------------------- MODULE ActionGroups -----------------------------
(***************************************************************************)
(* The way of a distribution of action groups: edited on pages of the web  *)
(* application, published with its revision, executed in a browser.        *)
(***************************************************************************)
EXTENDS DistributionEditor, ActionChains

vars == <<editor, chains>>

Init == EditorInit /\ ChainsInit

\* All is saved and loaded again, and so far the pages saved one at a time and never failed.
Quiet == \A p \in Page : Idle(p)
Calm == ~broken /\ ~clashed

\* finaliseRevision and the publication look neither at the shares nor at who is editing
\* them.  What becomes of the pages is of no concern from here on.
Publish ==
  /\ served = None
  /\ \E type \in {"SESSION", "PAGE_LOAD"}, repeats \in BOOLEAN, v \in SessionValue :
       /\ type = "PAGE_LOAD" => v = 0
       /\ served' = [type |-> type, repeats |-> repeats, distV |-> v,
                     groups |-> [i \in DOMAIN groups |-> Group(groups[i].id, groups[i].share, FALSE)],
                     calm |-> Quiet /\ Calm, locked |-> groups # <<>> /\ AllLocked(groups)]
  /\ groups' = <<>> /\ made' = 0 /\ edits' = 0 /\ broken' = FALSE /\ clashed' = FALSE
  /\ page' = [p \in Page |-> Blank]
  /\ UNCHANGED <<recorded, executed, chain, timers, overdue>>

Next ==
  \/ served = None /\ EditorNext /\ UNCHANGED chains
  \/ Publish
  \/ ChainsNext /\ UNCHANGED editor

\* The pages' requests are answered, the browser runs microtasks and timers that are
\* due; users, rules and the code of actions do what they like.
Fairness ==
  /\ WF_vars(/\ served = None /\ UNCHANGED chains
             /\ \E p \in Page : Load(p) \/ ReadGroup(p) \/ WriteGroup(p))
  /\ WF_vars((\E c \in 1 .. 2 * MaxExecuted : StartAction(c) \/ Expire(c)) /\ UNCHANGED editor)

Spec == Init /\ [][Next]_vars /\ Fairness
=============================================================================
