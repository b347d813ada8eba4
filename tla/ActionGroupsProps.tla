--------------------------- MODULE ActionGroupsProps ---------------------------
(***************************************************************************)
(* What is expected of the distribution and the execution of action groups.*)
(***************************************************************************)
EXTENDS ActionGroups

GroupType == [id : 1 .. MaxGroups, share : -1 .. Total, locked : BOOLEAN]

\* Shares are -1 or a part of the whole, the groups have ids of their own, and an action's
\* timer and outcome belong to a chain that was started.
TypeOK ==
  /\ Range(groups) \subseteq GroupType /\ IsInjective([i \in DOMAIN groups |-> groups[i].id])
  /\ made \in 0 .. MaxGroups /\ {broken, clashed} \subseteq BOOLEAN
  /\ \A p \in Page : /\ Range(page[p].seen) \cup Range(page[p].dist) \subseteq GroupType
                     /\ page[p].due \in {"no", "first", "save", "dialog"}
                     /\ page[p].failed => page[p].saving # {}
  /\ \A c \in DOMAIN chain : /\ Range(Log(c)) \subseteq Outcome
                             /\ Len(Log(c)) <= Len(ActionsOf[chain[c].group])
  /\ \A t \in timers \cup overdue : t[1] \in DOMAIN chain /\ t[2] \in DOMAIN Log(t[1])

\* Once every page has saved and loaded, the shares in the database make up the whole
\* and no group is without one, however stale what a page edited and saved
\* (ActionGroupDistributionSection.tsx:100).  Not so when every group is locked, a page
\* could not save, or two were saving at once.
Even(gs) == SumOf(gs) = Total /\ \A i \in DOMAIN gs : gs[i].share >= 1
QuietIsBalanced ==
  Quiet /\ Calm /\ served = None => groups = <<>> \/ AllLocked(groups) \/ Even(groups)

\* An edit of the page's shares loses nothing of the whole and leaves no group without
\* a part (setDistributionValue, ActionGroupDistributionSection.tsx:172).
EditKeepsWhole ==
  [][\A p \in Page : SetShare(p) /\ Even(page[p].dist) => Even(page'[p].dist)]_vars

\* Shares that make up the whole: of the session values, and of the random numbers,
\* as many pick a group as its share says, and none picks nothing
\* (RuleExecutor.ts:452, :475).
ServedAsShared(gs) ==
  \A i \in DOMAIN gs :
    /\ Cardinality({v \in SessionValue : PickForSession(gs, v) = i}) = gs[i].share
    /\ Cardinality({v \in RandomValue(gs) : PickAtRandom(gs, v) = i}) = gs[i].share
SharesAreKept ==
  served # None /\ executed = 0 =>
    (Even(served.groups) /\ Len(served.groups) > 1 => ServedAsShared(served.groups))

\* A rule that does not repeat is executed once (RuleManager.ts:54, "-1 = the rule
\* can't repeat"), from the editor's page to the browser: where it was published in a
\* quiet moment, and not with all of its groups locked.
CalmRunsOnce ==
  served # None /\ served.calm /\ ~served.locked /\ ~served.repeats => executed <= 1

\* The outcome of an action stands, and decides about the chain: after a timeout or a
\* failure nothing of it starts any more, also when the action answers late
\* (Future.ts:5, RuleExecutor.ts:332).
OutcomeStands ==
  [][\A c \in DOMAIN chain :
       /\ \A a \in DOMAIN Log(c) : Log(c)[a] # "pending" => Log(c)'[a] = Log(c)[a]
       /\ Len(Log(c)') > Len(Log(c)) => Range(Log(c)) \subseteq {"success"}]_vars

\* An action of which it is logged that it took too long did: it had not answered
\* (RuleExecutor.ts:335).
OverdueIsTrue == \A t \in overdue : Log(t[1])[t[2]] = "timeout"

\* Every chain comes to its end, unless an action of a custom platform keeps it waiting: no
\* templated action can (RuleExecutor.ts:332).
Over(c) == /\ ~Ready(c)
           /\ \A a \in DOMAIN Log(c) :
                Log(c)[a] = "pending" => ActionsOf[chain[c].group][a] = "custom"
ChainsEnd == <>[](\A c \in DOMAIN chain : Over(c))

\* The pages come to rest: balancing and saving do not go on answering each other for ever
\* (ActionGroupDistributionSection.tsx:76).
EditsSettle == <>[](Quiet \/ served # None)
=============================================================================
