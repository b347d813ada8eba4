----------------------------- MODULE ActionChains -----------------------------
(***************************************************************************)
(* What the browser does when a rule applies (RuleExecutor.execRule): it   *)
(* goes through the rule's distributions of action groups, here an         *)
(* ordinary one and an experiment, and starts a chain of actions for every *)
(* group it executes.                                                      *)
(*                                                                         *)
(* JavaScript: Execute, Expire and Answer are turns of their own; the next *)
(* action of a chain is a microtask, and goes before any turn.             *)
(*                                                                         *)
(* Abstracted: when a rule applies (TagRules); what an action does.        *)
(***************************************************************************)
EXTENDS Selection

CONSTANTS
  ActionsOf,   \* the kinds of the actions of each group, in order: "core" (runs at once),
               \* "custom" (of a custom platform, a promise or not), "templated"
  MaxExecuted  \* bound: executions of the rule

ASSUME ChainsAssumption == MaxExecuted \in Nat /\ None # 0

Kind == {"core", "custom", "templated"}
Outcome == {"pending", "success", "failure", "timeout"}
Ordinary == 0 \* the group of the ordinary distribution

VARIABLES
  served,   \* the rule as the page got it, with its experiment
  recorded, \* tagRuleGroupExecutions has the rule as applied
  executed, \* times the rule was executed
  chain,    \* the chains started: of which group, and the outcome of each action so far
  timers,   \* the timers that are set: <<chain, action>>
  overdue   \* history: where "Task has taken too long to execute" was logged

chains == <<served, recorded, executed, chain, timers, overdue>>

ChainsInit ==
  /\ served = None /\ recorded = FALSE /\ executed = 0
  /\ chain = <<>> /\ timers = {} /\ overdue = {}

-----------------------------------------------------------------------------
Log(c) == chain[c].log
NextAction(c) == Len(Log(c)) + 1

\* runInSerial: an action starts when those before it have succeeded.
Passed(outcome) == outcome = "success"
Ready(c) == /\ NextAction(c) \in DOMAIN ActionsOf[chain[c].group]
            /\ \A a \in DOMAIN Log(c) : Passed(Log(c)[a])
Turn == served # None /\ \A c \in DOMAIN chain : ~Ready(c)

\* Which group is picked in the experiment; 0 where the code throws.
Picks ==
  CASE served.groups = <<>> -> {None}
    [] served.groups # <<>> /\ served.type = "SESSION" ->
         {PickForSession(served.groups, served.distV)}
    [] OTHER -> {PickAtRandom(served.groups, v) : v \in RandomValue(served.groups)}

\* executeActionGroup: a group without actions starts nothing.
Started(group) == IF ActionsOf[group] = <<>> THEN <<>> ELSE <<[group |-> group, log |-> <<>>]>>

\* checkTagRules: the rule has won, or is repeated.  An exception leaves the chains
\* that were started, and is raised before the execution is recorded.
Execute ==
  /\ Turn
  /\ recorded => served.repeats
  /\ executed < MaxExecuted /\ executed' = executed + 1
  /\ \E i \in Picks :
       /\ chain' = chain \o Started(Ordinary)
                        \o (IF i \in {None, 0} THEN <<>> ELSE Started(served.groups[i].id))
       /\ recorded' = (recorded \/ i # 0)
  /\ UNCHANGED <<served, timers, overdue>>

-----------------------------------------------------------------------------
(* createActionPromiseWrapper                                              *)

\* createTimeout.
\* (Mutant: of the wrong platforms.)
Timed_Custom(kind) == kind = "custom"
Timed(kind) == kind = "templated"

\* A core action returns or throws; one of a custom platform may return a promise
\* instead; a templated one is a promise, with a timer.
StartAction(c) ==
  /\ c \in DOMAIN chain /\ Ready(c)
  /\ LET kind == ActionsOf[chain[c].group][NextAction(c)]
     IN  /\ \E outcome \in CASE kind = "core" -> {"success", "failure"}
                             [] kind = "custom" -> {"success", "failure", "pending"}
                             [] OTHER -> {"pending"} :
              chain' = [chain EXCEPT ![c].log = Append(@, outcome)]
         /\ timers' = timers \cup (IF Timed(kind) THEN {<<c, NextAction(c)>>} ELSE {})
  /\ UNCHANGED <<served, recorded, executed, overdue>>

\* A promise is settled once.
\* (Mutant: the last call counts.)
Settled_Last(was, outcome) == outcome
Settled(was, outcome) == IF was = "pending" THEN outcome ELSE was

\* resolve and reject clear the timer.
\* (Mutant: resolve does not.)
Cleared_Reject(c, a, outcome) == IF outcome = "failure" THEN {<<c, a>>} ELSE {}
Cleared(c, a, outcome) == {<<c, a>>}

\* The action calls success or failure, the first time or again, in time or late.
Answer(c) ==
  /\ Turn /\ c \in DOMAIN chain
  /\ \E a \in DOMAIN Log(c), outcome \in {"success", "failure"} :
       /\ ActionsOf[chain[c].group][a] # "core"
       /\ chain' = [chain EXCEPT ![c].log[a] = Settled(@, outcome)]
       /\ timers' = IF Log(c)[a] = "pending" THEN timers \ Cleared(c, a, outcome) ELSE timers
  /\ UNCHANGED <<served, recorded, executed, overdue>>

\* After 10 s: an error is logged, and the promise rejected.
Expire(c) ==
  /\ Turn /\ c \in DOMAIN chain
  /\ \E a \in DOMAIN Log(c) :
       /\ <<c, a>> \in timers
       /\ timers' = timers \ {<<c, a>>}
       /\ overdue' = overdue \cup {<<c, a>>}
       /\ chain' = [chain EXCEPT ![c].log[a] = Settled(@, "timeout")]
  /\ UNCHANGED <<served, recorded, executed>>

ChainsNext ==
  \/ Execute
  \/ \E c \in 1 .. 2 * MaxExecuted : StartAction(c) \/ Answer(c) \/ Expire(c)
=============================================================================
