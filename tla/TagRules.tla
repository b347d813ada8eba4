------------------------------ MODULE TagRules ------------------------------
(***************************************************************************)
(* The rule engine of the browser runtime (TagManager, RuleExecutor,       *)
(* EventStore), for one instance of a tag.                                 *)
(*                                                                         *)
(* JavaScript runs a turn to its end before the next timer or event is     *)
(* taken; within a turn dispatchEvent calls the listeners one by one.  The *)
(* turn is the sequence of the calls it still has to make: the step at its *)
(* head may put further calls in front of the rest.  Timers and the page   *)
(* act between turns.  Actions start in microtasks, which also run between *)
(* turns, so what they change is a change of the page here.                *)
(***************************************************************************)
EXTENDS Integers, Sequences, FiniteSets

CONSTANTS
    Rules,       \* number of rules; a rule is its place in configuration order
    Groups,      \* number of rule groups of the tag, likewise
    Event,       \* events of the triggers
    Trigger,     \* a trigger: its events, its conditions and exceptions
    GroupOf,     \* [Rule -> Group]
    TriggerOf,   \* [Rule -> Trigger]; a global trigger serves several rules
    EventsOf,    \* [Trigger -> Seq(Event)]
    ClearAfter,  \* [Event -> _clear_state_ms], -1 for never
    Interval,    \* [Rule -> _min_repeat_interval], -1 for never
    Immediate,   \* platform events whose create function triggers at once
    Watched,     \* triggers whose data containers announce their changes
    MaxTime,     \* bound on the clock
    MaxOccur,    \* bound on the occurrences of one event on the page
    MaxChange,   \* bound on the changes of the data containers
    None         \* undefined

Rule  == 1 .. Rules
Group == 1 .. Groups

ASSUME RuleAssumption ==
    /\ Rules \in Nat /\ Groups \in Nat
    /\ GroupOf \in [Rule -> Group]
    /\ TriggerOf \in [Rule -> Trigger]
    /\ EventsOf \in [Trigger -> Seq(Event)]
    /\ \A t, u \in Trigger : \A i \in DOMAIN EventsOf[t], j \in DOMAIN EventsOf[u] :
          EventsOf[t][i] = EventsOf[u][j] => t = u /\ i = j \* an event is a child of one trigger
    /\ ClearAfter \in [Event -> Nat \cup {-1}]
    /\ Interval \in [Rule -> Nat \cup {-1}]
    /\ Immediate \subseteq Event
    /\ Watched \subseteq Trigger

ASSUME TimeAssumption == MaxTime \in Nat /\ MaxOccur \in Nat /\ MaxChange \in Nat

VARIABLES
    now,        \* new Date().getTime()
    turn,       \* the calls left in the current turn
    listeners,  \* [Event -> the rules registered for it, in order]
    watchers,   \* [Trigger -> the rules listening to its data containers]
    triggered,  \* [Event -> EventStore.state says it is triggered]
    resetTimer, \* [Event -> resetStateTimeout of EventStore.event, or None]
    timers,     \* the timers of setTimeout that are pending
    winner,     \* [Group -> the latest applied status of the group, or None]
    holds,      \* [Trigger -> its conditions pass and its exceptions do not]
    occurred,   \* [Event -> how often it occurred]
    changes     \* changes of holds so far

store == <<triggered, resetTimer, timers>>
page  == <<holds, occurred, changes>>
vars  == <<now, turn, listeners, watchers, store, winner, page>>

\* A call of a turn; the fields it has no use for are None.
Call(do, r, e, g) == [do |-> do, rule |-> r, event |-> e, group |-> g]

Calls ==
    [do    : {"configure", "create", "register", "raise", "dispatch", "check"},
     rule  : Rule \cup {None},
     event : Event \cup {None},
     group : Group \cup {None}]

Timers == [event : Event, rule : Rule, from : {"create", "register", "raise"},
           due : Nat]

Status == [rule : Rule, ts : 0 .. MaxTime, index : Nat]

ASSUME NoneAssumption == None \notin Rule /\ None \notin Timers /\ None \notin Status

TypeOK ==
    /\ now \in 0 .. MaxTime
    /\ turn \in Seq(Calls)
    /\ listeners \in [Event -> Seq(Rule)]
    /\ watchers \in [Trigger -> Seq(Rule)]
    /\ triggered \in [Event -> BOOLEAN]
    /\ resetTimer \in [Event -> Timers \cup {None}]
    /\ timers \in SUBSET Timers
    /\ winner \in [Group -> Status \cup {None}]
    /\ holds \in [Trigger -> BOOLEAN]
    /\ occurred \in [Event -> Nat]
    /\ changes \in 0 .. MaxChange

\* A definition named X_... is X with a mistake in it: a run in which it stands
\* for X violates the property the mistake is about.

\* checkTagRules(tagCode, ruleId) visits every rule group.
Check_FirstGroup(r) == <<Call("check", r, None, 1)>>
Check(r) == [g \in Group |-> Call("check", r, None, g)]

\* One dispatchEvent for rule r reaches n listeners, each of which checks.
Dispatch(r, n) == [i \in 1 .. n |-> Call("dispatch", r, None, None)]

\* configureTag: the triggers of every rule, then checkTagRules(tagCode).
Init ==
    /\ now = 0
    /\ turn = Append([r \in Rule |-> Call("configure", r, None, None)],
                     Call("dispatch", None, None, None))
    /\ listeners = [e \in Event |-> <<>>]
    /\ watchers = [t \in Trigger |-> <<>>]
    /\ triggered = [e \in Event |-> FALSE]
    /\ resetTimer = [e \in Event |-> None]
    /\ timers = {}
    /\ winner = [g \in Group |-> None]
    /\ holds \in [Trigger -> BOOLEAN]
    /\ occurred = [e \in Event |-> 0]
    /\ changes = 0

-----------------------------------------------------------------------------
(* The steps of a turn.                                                    *)

NextCall(do) == turn # <<>> /\ Head(turn).do = do

\* addEventTriggers and addConditionRuleTriggers of a rule.
Configure ==
    LET r == Head(turn).rule
        t == TriggerOf[r]
        events == EventsOf[t]
    IN  /\ NextCall("configure")
        /\ turn' = [i \in 1 .. 2 * Len(events) |->
                       Call(IF i % 2 = 1 THEN "create" ELSE "register",
                            r, events[(i + 1) \div 2], None)] \o Tail(turn)
        /\ watchers' = [watchers EXCEPT ![t] = Append(@, r)]
        /\ UNCHANGED <<now, listeners, store, winner, page>>

\* clearEventState(): the timer that will clear the state of e again, if any.
ClearTimer(r, e, from) ==
    IF ClearAfter[e] = -1 THEN None
    ELSE [event |-> e, rule |-> r, from |-> from, due |-> now + ClearAfter[e]]

\* setCustomEventResetStateTimeout does nothing for an event that is not yet
\* registered; the timer made for it runs all the same.
SetResetTimer_Keeps(e, timer) ==
    /\ timers' = timers \cup ({timer} \ {None})
    /\ resetTimer' = IF listeners[e] = <<>> THEN resetTimer
                                            ELSE [resetTimer EXCEPT ![e] = timer]
SetResetTimer_Stops(e, timer) ==
    /\ timers' = timers \ {resetTimer[e]}
    /\ resetTimer' = [resetTimer EXCEPT ![e] = None]
SetResetTimer(e, timer) ==
    LET old == IF listeners[e] = <<>> THEN None ELSE resetTimer[e]
    IN  /\ timers' = (timers \ {old}) \cup ({timer} \ {None})
        /\ resetTimer' = IF listeners[e] = <<>> THEN resetTimer
                                                ELSE [resetTimer EXCEPT ![e] = timer]

\* The event fires: restart its reset timer, set its state, dispatch.
Fire(r, e, from) ==
    /\ SetResetTimer(e, ClearTimer(r, e, from))
    /\ triggered' = [triggered EXCEPT ![e] = TRUE]
    /\ turn' = Dispatch(r, Len(listeners[e])) \o Tail(turn)

\* The create function of a platform event, which may trigger at once.
Create ==
    LET r == Head(turn).rule
        e == Head(turn).event
    IN  /\ NextCall("create")
        /\ IF e \in Immediate
           THEN /\ Fire(r, e, "create")
                /\ occurred' = [occurred EXCEPT ![e] = @ + 1]
           ELSE turn' = Tail(turn) /\ UNCHANGED <<store, occurred>>
        /\ UNCHANGED <<now, listeners, watchers, winner, holds, changes>>

\* setCustomBrowserEvent with a reset timer from the start, then the listener.
Register ==
    LET r == Head(turn).rule
        e == Head(turn).event
        timer == ClearTimer(r, e, "register")
    IN  /\ NextCall("register")
        /\ turn' = Tail(turn)
        /\ resetTimer' = [resetTimer EXCEPT ![e] = timer]
        /\ timers' = timers \cup ({timer} \ {None})
        /\ listeners' = [listeners EXCEPT ![e] = Append(@, r)]
        /\ UNCHANGED <<now, watchers, triggered, winner, page>>

\* The listener that rule r put on the browser's event e.
Raise ==
    /\ NextCall("raise")
    /\ Fire(Head(turn).rule, Head(turn).event, "raise")
    /\ UNCHANGED <<now, listeners, watchers, winner, page>>

Dispatched ==
    /\ NextCall("dispatch")
    /\ turn' = Check(Head(turn).rule) \o Tail(turn)
    /\ UNCHANGED <<now, listeners, watchers, store, winner, page>>

TriggerEvents(r) == {EventsOf[TriggerOf[r]][i] : i \in DOMAIN EventsOf[TriggerOf[r]]}

\* testRule: every event of the trigger is triggered, and its conditions hold.
Passes(r) ==
    /\ \A e \in TriggerEvents(r) : triggered[e]
    /\ holds[TriggerOf[r]]

\* The rule that checkTagRules(tagCode, ruleId) applies in group g, if any: the
\* first that passes, afterwards only that one, once its interval has passed.
Candidates_AnyRule(g, ruleId) ==
    LET last == winner[g]
    IN  IF last = None
        THEN {r \in Rule : GroupOf[r] = g /\ Passes(r)}
        ELSE {r \in {last.rule} : /\ Interval[r] > -1
                                  /\ now >= last.ts + Interval[r]
                                  /\ Passes(r)}
Candidates(g, ruleId) ==
    LET last == winner[g]
    IN  IF last = None
        THEN {r \in Rule : GroupOf[r] = g /\ Passes(r)}
        ELSE {r \in {last.rule} : /\ ruleId \in {None, r}
                                  /\ Interval[r] > -1
                                  /\ now >= last.ts + Interval[r]
                                  /\ Passes(r)}

\* resetEvents
ResetEvents_Skipped(r) == triggered' = triggered
ResetEvents(r) ==
    triggered' = [e \in Event |-> triggered[e] /\ e \notin TriggerEvents(r)]

CheckGroup ==
    LET g == Head(turn).group
        first == Candidates(g, Head(turn).rule)
        r == CHOOSE c \in first : \A o \in first : c <= o
    IN  /\ NextCall("check")
        /\ turn' = Tail(turn)
        /\ IF first = {}
           THEN UNCHANGED <<triggered, winner>>
           ELSE /\ ResetEvents(r)
                /\ winner' = [winner EXCEPT ![g] =
                       [rule |-> r, ts |-> now,
                        index |-> IF @ = None THEN 0 ELSE @.index + 1]]
        /\ UNCHANGED <<now, listeners, watchers, resetTimer, timers, page>>

Turn ==
    \/ Configure \/ Create \/ Register \/ Raise \/ Dispatched \/ CheckGroup

-----------------------------------------------------------------------------
(* Between turns.                                                          *)

\* The page fires the event e: every rule registered for it hears it.
Occur(e) ==
    /\ turn = <<>>
    /\ occurred[e] < MaxOccur
    /\ turn' = [i \in DOMAIN listeners[e] |-> Call("raise", listeners[e][i], e, None)]
    /\ occurred' = [occurred EXCEPT ![e] = @ + 1]
    /\ UNCHANGED <<now, listeners, watchers, store, winner, holds, changes>>

\* The data behind the conditions of t changes.  A container that announces it
\* calls the hook of each rule, and each dispatch reaches the listener of each.
Change(t) ==
    LET w == watchers[t]
    IN  /\ turn = <<>>
        /\ changes < MaxChange
        /\ changes' = changes + 1
        /\ holds' = [holds EXCEPT ![t] = ~@]
        /\ turn' = IF t \in Watched
                   THEN [i \in 1 .. Len(w) * Len(w) |->
                            Call("dispatch", w[((i - 1) \div Len(w)) + 1], None, None)]
                   ELSE <<>>
        /\ UNCHANGED <<now, listeners, watchers, store, winner, occurred>>

\* A reset timer: clear the state and dispatch the event registered last.
Expire(timer) ==
    LET e == timer.event
        n == Len(listeners[e])
    IN  /\ turn = <<>>
        /\ timer.due <= now
        /\ timers' = timers \ {timer}
        /\ triggered' = [triggered EXCEPT ![e] = FALSE]
        /\ turn' = Dispatch(listeners[e][n], n)
        /\ UNCHANGED <<now, listeners, watchers, resetTimer, winner, page>>

Tick ==
    /\ turn = <<>>
    /\ now < MaxTime
    /\ now' = now + 1
    /\ UNCHANGED <<turn, listeners, watchers, store, winner, page>>

Next ==
    \/ Turn
    \/ \E e \in Event : Occur(e)
    \/ \E t \in Trigger : Change(t)
    \/ \E timer \in timers : Expire(timer)
    \/ Tick

Spec == Init /\ [][Next]_vars

\* The browser finishes a turn, fires the timers that are due, and time passes.
\* Nothing makes the page raise an event.
Fairness ==
    /\ WF_vars(Turn)
    /\ WF_vars(\E timer \in timers : Expire(timer))
    /\ WF_vars(Tick)

FairSpec == Spec /\ Fairness
=============================================================================
