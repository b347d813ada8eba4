--------------------------- MODULE TagRulesProps ---------------------------
(***************************************************************************)
(* The properties of the browser's rule engine.                            *)
(***************************************************************************)
EXTENDS TagRules

\* A trigger that only one rule uses; the others are global triggers.
Unshared(t) == \A r, o \in Rule : TriggerOf[r] = t /\ TriggerOf[o] = t => r = o
OwnEvent(e) == \A r \in Rule : e \in TriggerEvents(r) => Unshared(TriggerOf[r])

\* One occurrence of an event applies the rule it is for at most once: resetEvents
\* uses it up, however many listeners, checks and timers run because of it.
AppliedPerOccurrence ==
    \A g \in Group : winner[g] # None /\ Unshared(TriggerOf[winner[g].rule]) =>
        \A e \in TriggerEvents(winner[g].rule) : winner[g].index < occurred[e]

\* No check is missing: when a turn is over, no rule of a group that has not yet
\* applied one passes, as far as the data it depends on announce their changes.
NothingMissed ==
    turn = <<>> => \A r \in Rule :
        winner[GroupOf[r]] = None /\ TriggerOf[r] \in Watched => ~Passes(r)

\* An event of a global trigger has one state, which the first group that applies a
\* rule on it resets (RuleExecutor.resetEvents).  The groups after it are served all the
\* same: the listener of every rule sets the state again, and a group repeats its rule
\* for that rule's own listener only.  While the data have not changed, a group applies
\* a rule on the first occurrence of the only event that one of its rules waits for.
\* (Not so for a create function that triggers at once: it runs for the last rule
\* before that rule listens, so that a group before it can use the event up.)
EveryGroupServed ==
    turn = <<>> /\ changes = 0 =>
        \A r \in Rule, e \in Event \ Immediate :
            TriggerEvents(r) = {e} /\ occurred[e] > 0 /\ holds[TriggerOf[r]] =>
                winner[GroupOf[r]] # None

\* TagManager.ts: "clear out the old timer and replace with new timer".  The state
\* of an event is cleared by a rule that uses it, or by the reset timer that its
\* last occurrence started, and by no earlier one ...
ClearedInTime(e) ==
    triggered[e] /\ ~triggered'[e] =>
        \/ \E g \in Group : winner'[g] # winner[g] /\ e \in TriggerEvents(winner'[g].rule)
        \/ resetTimer[e] \in timers /\ resetTimer[e] \notin timers'
HeldUntilCleared == [][\A e \in Event : ClearedInTime(e)]_vars

\* ... as long as the event is not one that several rules have registered, or one whose
\* create function triggers it before there is an entry to keep the timer in.
OwnHeldUntilCleared ==
    [][\A e \in Event : OwnEvent(e) /\ e \notin Immediate => ClearedInTime(e)]_vars

-----------------------------------------------------------------------------
(* Liveness, under FairSpec.                                               *)

\* An event with a reset time does not stay triggered for ever (as far as the clock
\* of the model reaches).
EventCleared ==
    \A e \in Event : ClearAfter[e] # -1 =>
        (triggered[e] /\ occurred[e] = MaxOccur /\ now + ClearAfter[e] <= MaxTime)
            ~> ~triggered[e]
=============================================================================
