------------------------------- MODULE InView -------------------------------
(***************************************************************************)
(* The in-view events of the browser runtime: inViewChecker, shared by     *)
(* ElementInView and TagInView, follows an element with an intersection    *)
(* observer and holds it for a minimum time.  Its state is the event's     *)
(* state of the EventStore, which a rule or a reset timer may clear.       *)
(***************************************************************************)
EXTENDS Naturals, Sequences

CONSTANTS
    MinTime,    \* minimum_time_in_view
    LastChange, \* bound: the page is still from this time on
    MaxTime,    \* bound on the clock
    MaxTimers,  \* bound on the timers pending at once
    None        \* undefined

Timer == 1 .. MaxTimers

ASSUME InViewAssumption ==
    /\ MinTime \in Nat /\ LastChange \in Nat /\ MaxTime \in Nat /\ MaxTimers \in Nat
    /\ None \notin Nat

VARIABLES
    now,       \* the clock
    inView,    \* the element's ratio is at least the threshold
    entries,   \* crossings of a threshold the observer has not reported yet
    visible,   \* data.state.visible
    held,      \* data.state.held
    timeoutId, \* data.state.timeoutId
    due,       \* [Timer -> when it fires, or None]
    reported,  \* what the observer reported last
    since,     \* since when it has been reporting that
    cleared,   \* the state has been cleared
    strays,    \* the timers whose id the state has lost
    early      \* a stray timer set held

state == <<visible, held, timeoutId>>
seen  == <<reported, since, cleared, strays, early>>
vars  == <<now, inView, entries, state, due, seen>>

TypeOK ==
    /\ now \in 0 .. MaxTime
    /\ inView \in BOOLEAN
    /\ entries \in Seq(BOOLEAN) /\ Len(entries) <= 2
    /\ visible \in BOOLEAN /\ held \in BOOLEAN
    /\ timeoutId \in Timer \cup {None}
    /\ due \in [Timer -> 0 .. LastChange + MinTime \cup {None}]
    /\ reported \in BOOLEAN
    /\ since \in 0 .. MaxTime
    /\ cleared \in BOOLEAN /\ early \in BOOLEAN
    /\ strays \in SUBSET Timer

Init ==
    /\ now = 0
    /\ inView \in BOOLEAN
    /\ entries = <<inView>>     \* observe() reports once
    /\ visible = FALSE /\ held = FALSE /\ timeoutId = None
    /\ due = [t \in Timer |-> None]
    /\ reported = FALSE
    /\ since = 0
    /\ cleared = FALSE /\ strays = {} /\ early = FALSE

\* The page scrolls or changes: the ratio crosses one of the observer's thresholds.
Cross ==
    /\ now < LastChange
    /\ Len(entries) < 2
    /\ inView' \in BOOLEAN
    /\ entries' = Append(entries, inView')
    /\ UNCHANGED <<now, state, due, seen>>

\* A definition named X_... is X with a mistake in it: a run in which it stands
\* for X violates the property the mistake is about.
Cancel_Nothing(t) == [due EXCEPT ![t] = @]
Cancel(t) == [due EXCEPT ![t] = None]

HoldUntil == now + MinTime

\* entries.every(...)
AllVisible == \A i \in DOMAIN entries : entries[i]

\* The observer's callback with all the entries queued.
Report ==
    LET all  == AllVisible
        free == {t \in Timer : due[t] = None}
        hold == all /\ MinTime > 0 /\ timeoutId = None
    IN  /\ entries # <<>>
        /\ entries' = <<>>
        /\ visible' = all
        /\ reported' = \A i \in DOMAIN entries : entries[i]
        /\ since' = IF reported' = reported THEN since ELSE now
        /\ hold => free # {}
        /\ IF hold
           THEN LET t == CHOOSE f \in free : TRUE
                IN  timeoutId' = t /\ due' = [due EXCEPT ![t] = HoldUntil]
           ELSE IF ~all /\ timeoutId # None
           THEN timeoutId' = None /\ due' = Cancel(timeoutId)
           ELSE UNCHANGED <<timeoutId, due>>
        /\ held' = IF hold THEN FALSE ELSE IF all /\ MinTime = 0 THEN TRUE ELSE held
        /\ early' = (early /\ ~hold)
        /\ UNCHANGED <<now, inView, cleared, strays>>

\* The state loses the id of its timer, which runs on.
Loses == (strays \cup {timeoutId}) \ {None}

\* The timer of the minimum time.  It deletes the id in the state, be it its own or not.
Elapse_Forgets(t) ==
    /\ due[t] # None /\ due[t] <= now
    /\ due' = [due EXCEPT ![t] = None]
    /\ timeoutId' = None
    /\ UNCHANGED <<now, inView, entries, visible, held, seen>>
Elapse(t) ==
    /\ due[t] # None /\ due[t] <= now
    /\ due' = [due EXCEPT ![t] = None]
    /\ timeoutId' = None
    /\ held' = TRUE
    /\ early' = (t \in strays)
    /\ strays' = Loses \ {t}
    /\ UNCHANGED <<now, inView, entries, visible, reported, since, cleared>>

\* clearEventState deletes every key of the state; the timers run on.
ClearEventState ==
    /\ now < LastChange
    /\ visible' = FALSE /\ held' = FALSE /\ timeoutId' = None
    /\ cleared' = TRUE /\ early' = FALSE
    /\ strays' = Loses
    /\ UNCHANGED <<now, inView, entries, due, reported, since>>

\* Bound: what the page did until LastChange is reported before the clock goes on.
Tick ==
    /\ now < MaxTime
    /\ now < LastChange \/ entries = <<>>
    /\ now' = now + 1
    /\ UNCHANGED <<inView, entries, state, due, seen>>

Next ==
    \/ Cross \/ Report \/ ClearEventState \/ Tick
    \/ \E t \in Timer : Elapse(t)

Spec == Init /\ [][Next]_vars

\* The browser reports what was observed, timers fire, and time passes.
Fairness == WF_vars(Report) /\ WF_vars(Tick) /\ \A t \in Timer : WF_vars(Elapse(t))

FairSpec == Spec /\ Fairness

-----------------------------------------------------------------------------
\* The tests of ElementInView and of TagInView.
ElementTest == visible /\ held
TagTest     == visible

InViewFor(time) == reported /\ now - since >= time

\* ElementInView.ts: "The minimum duration the element must be in-view for.  This is
\* reset on any toggle of view status".  An element whose test passes has been reported
\* in view for that long without a break, but for one case: the state was cleared while
\* a timer ran, so that nothing stops that timer any more, and it was the one that set
\* held.  (TagInView.ts:24 says the same of a tag, but its test at line 29 asks for
\* visible only, so that nothing like this holds of TagTest.)
HeldLongEnough ==
    /\ ElementTest => InViewFor(MinTime) \/ early
    /\ early => cleared

\* Once it has been reported in view and stays so, the tests pass in the end: no
\* order of reports and timers loses the hold (inViewChecker).
PassesOnceReported == <>[]reported /\ []~cleared => <>[](ElementTest /\ TagTest)
=============================================================================
