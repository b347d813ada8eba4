----------------------------- MODULE InViewProofs -----------------------------
(***************************************************************************)
(* A proof, for any minimum time and any bounds, that an element is held   *)
(* only when it has been in view long enough, or by a stray timer.         *)
(***************************************************************************)
EXTENDS InView, TLAPS

USE InViewAssumption

-----------------------------------------------------------------------------
(* Types.  TypeOK bounds the timers by what the clock was when the page    *)
(* last moved: what the observer has still to report is no later.          *)

Moving == entries # <<>> => now <= LastChange
TypeInv == TypeOK /\ Moving

LEMMA TypeInit == Init => TypeInv
<1> SUFFICES ASSUME Init PROVE TypeInv
  OBVIOUS
<1>1. entries \in Seq(BOOLEAN) /\ Len(entries) = 1
  BY DEF Init
<1>2. due \in [Timer -> (0 .. LastChange + MinTime) \cup {None}]
  BY DEF Init
<1>3. now \in 0 .. MaxTime /\ since \in 0 .. MaxTime /\ now <= LastChange
  BY DEF Init
<1>4. {inView, visible, held, reported, cleared, early} \subseteq BOOLEAN
  BY DEF Init
<1> QED BY <1>1, <1>2, <1>3, <1>4 DEF Init, TypeInv, TypeOK, Moving

LEMMA TypeReport == ASSUME TypeInv, Report PROVE TypeInv'
<1> DEFINE free == {t \in Timer : due[t] = None}
           new == CHOOSE f \in free : TRUE
           stop == [due EXCEPT ![timeoutId] = None]
           start == [due EXCEPT ![new] = now + MinTime]
<1>1. /\ entries' = <<>> /\ now' = now /\ inView' = inView /\ cleared' = cleared /\ strays' = strays
      /\ early' \in BOOLEAN /\ visible' \in BOOLEAN /\ reported' \in BOOLEAN /\ held' \in BOOLEAN
      /\ since' \in {since, now}
  BY DEF Report, AllVisible, TypeInv, TypeOK
<1>2. now \in 0 .. LastChange
  BY DEF Report, TypeInv, TypeOK, Moving
<1>3. \/ new \in Timer /\ timeoutId' = new /\ due' = start
      \/ timeoutId # None /\ timeoutId' = None /\ due' = stop
      \/ timeoutId' = timeoutId /\ due' = due
  BY DEF Report, HoldUntil, Cancel
<1>4. timeoutId' \in Timer \cup {None}
  BY <1>3 DEF TypeInv, TypeOK
<1>5. due' \in [Timer -> (0 .. LastChange + MinTime) \cup {None}]
  <2>1. now + MinTime \in 0 .. LastChange + MinTime
    BY <1>2
  <2>2. due \in [Timer -> (0 .. LastChange + MinTime) \cup {None}]
    BY DEF TypeInv, TypeOK
  <2> HIDE DEF new
  <2> QED BY <1>3, <2>1, <2>2
<1>6. entries' \in Seq(BOOLEAN) /\ Len(entries') <= 2
  BY <1>1
<1>7. since' \in 0 .. MaxTime
  BY <1>1 DEF TypeInv, TypeOK
<1> QED BY <1>1, <1>4, <1>5, <1>6, <1>7 DEF TypeInv, TypeOK, Moving

LEMMA TypeStep == TypeInv /\ [Next]_vars => TypeInv'
<1> SUFFICES ASSUME TypeInv, [Next]_vars PROVE TypeInv'
  OBVIOUS
<1> USE DEF TypeInv, TypeOK, Moving, state, seen
<1>1. CASE Cross
  BY <1>1 DEF Cross
<1>2. CASE Report
  BY <1>2, TypeReport
<1>3. CASE ClearEventState
  BY <1>3 DEF ClearEventState, Loses
<1>4. CASE Tick
  BY <1>4 DEF Tick
<1>5. ASSUME NEW t \in Timer, Elapse(t) PROVE TypeInv'
  BY <1>5 DEF Elapse, Loses
<1>6. CASE UNCHANGED vars
  BY <1>6 DEF vars
<1> QED BY <1>1, <1>2, <1>3, <1>4, <1>5, <1>6 DEF Next

\* The state of the checker and its timers have their types, and a timer is never set
\* beyond the minimum time after the page's last move.
THEOREM TypeCorrect == Spec => []TypeOK
<1>1. TypeInv => TypeOK
  BY DEF TypeInv
<1> QED BY <1>1, TypeInit, TypeStep, PTL DEF Spec

-----------------------------------------------------------------------------
(* Held long enough.                                                       *)

\* But for the strays, the one timer that may be pending is the one whose id is in the
\* state, it was started after the element came into view, and a hold it set is older
\* than the minimum time.  There are no strays unless the state was cleared.
Pending == \A t \in Timer : due[t] # None =>
              t \in strays \/ (t = timeoutId /\ since + MinTime <= due[t])
Strays == \A t \in strays : t # timeoutId /\ due[t] # None
Elapsed == since + MinTime <= now
Orderly ==
    /\ visible => reported
    /\ Pending /\ Strays
    /\ timeoutId # None => visible /\ due[timeoutId] # None
    /\ visible /\ held /\ ~early => Elapsed
    /\ early \/ strays # {} => cleared

Numbers ==
    /\ now \in Nat /\ since \in Nat /\ since <= now
    /\ timeoutId \in Timer \cup {None}
    /\ due \in [Timer -> Nat \cup {None}]
    /\ strays \in SUBSET Timer
Flags == {visible, held, reported, cleared, early} \subseteq BOOLEAN
IInv == Numbers /\ Flags /\ Orderly

LEMMA InitHolds == Init => IInv
<1> SUFFICES ASSUME Init PROVE IInv
  OBVIOUS
<1>1. Numbers /\ Pending /\ Strays
  BY DEF Init, Numbers, Pending, Strays, Timer
<1>2. Flags /\ ~visible /\ timeoutId = None /\ ~held /\ ~early /\ strays = {}
  BY DEF Init, Flags
<1> QED BY <1>1, <1>2 DEF IInv, Orderly

\* A report starts a timer, stops the one there is, or leaves everything as it is.
LEMMA ReportHolds == ASSUME IInv, Report PROVE IInv'
<1> DEFINE all  == AllVisible
           free == {t \in Timer : due[t] = None}
           hold == all /\ MinTime > 0 /\ timeoutId = None
           new  == CHOOSE f \in free : TRUE
<1> HIDE DEF all, hold, new
<1>1. /\ all \in BOOLEAN /\ visible' = all /\ reported' = all
      /\ now' = now /\ cleared' = cleared /\ strays' = strays
      /\ since' = IF reported' = reported THEN since ELSE now
  BY DEF Report, AllVisible, all
<1>2. /\ hold => \E t \in Timer : due[t] = None
      /\ IF hold
         THEN timeoutId' = new /\ due' = [due EXCEPT ![new] = now + MinTime]
         ELSE IF ~all /\ timeoutId # None
         THEN timeoutId' = None /\ due' = [due EXCEPT ![timeoutId] = None]
         ELSE timeoutId' = timeoutId /\ due' = due
      /\ held' = IF hold THEN FALSE ELSE IF all /\ MinTime = 0 THEN TRUE ELSE held
      /\ early' = (early /\ ~hold)
  BY DEF Report, all, hold, new, HoldUntil, Cancel
<1>3. since' \in {since, now} /\ since' \in Nat /\ since' <= now'
  BY <1>1 DEF IInv, Numbers
<1>4. Flags'
  BY <1>1, <1>2 DEF IInv, Flags
<1>5. hold => new \in Timer /\ due[new] = None
  BY <1>2 DEF new
<1>6. Numbers'
  BY <1>1, <1>2, <1>3, <1>5 DEF IInv, Numbers
<1>7. Orderly /\ (early' \/ strays' # {} => cleared')
  BY <1>1, <1>2 DEF IInv, Orderly
<1>8. Orderly'
  <2>1. CASE hold
    <3>1. \A t \in Timer : due[t] # None => t \in strays
      BY <1>7, <2>1 DEF Orderly, Pending, hold, Timer
    <3>2. Pending'
      BY <1>1, <1>2, <1>3, <1>5, <2>1, <3>1 DEF Pending, IInv, Numbers
    <3>3. Strays'
      BY <1>1, <1>2, <1>5, <1>7, <2>1 DEF Orderly, Strays, IInv, Numbers
    <3>4. timeoutId' = new /\ due'[new] # None
      BY <1>2, <1>5, <2>1 DEF IInv, Numbers
    <3>5. visible' /\ reported' /\ ~held'
      BY <1>1, <1>2, <2>1 DEF hold
    <3> QED BY <1>7, <3>2, <3>3, <3>4, <3>5 DEF Orderly
  <2>2. CASE ~hold /\ ~all
    <3>1. timeoutId' = None /\ Strays' /\ \A t \in Timer : due'[t] # None => t \in strays'
      <4>1. CASE timeoutId = None
        <5>1. timeoutId' = timeoutId /\ due' = due
          BY <1>2, <2>2, <4>1
        <5> QED BY <1>1, <1>7, <4>1, <5>1 DEF Orderly, Pending, Strays, Timer
      <4>2. CASE timeoutId # None
        <5>1. timeoutId' = None /\ due' = [due EXCEPT ![timeoutId] = None]
          BY <1>2, <2>2, <4>2
        <5>2. \A t \in strays : due'[t] = due[t] /\ t # None
          BY <1>7, <5>1 DEF Orderly, Strays, IInv, Numbers, Timer
        <5>3. Strays'
          BY <1>1, <1>7, <5>1, <5>2 DEF Orderly, Strays
        <5> QED BY <1>1, <1>7, <5>1, <5>3 DEF Orderly, Pending, IInv, Numbers
      <4> QED BY <4>1, <4>2
    <3> QED BY <1>1, <1>7, <2>2, <3>1 DEF Orderly, Pending
  <2>3. CASE ~hold /\ all
    <3>1. timeoutId' = timeoutId /\ due' = due
      BY <1>2, <2>3
    <3>2. timeoutId = None \/ since' = since
      BY <1>1, <1>7, <2>3 DEF Orderly
    <3>3. Pending' /\ Strays'
      BY <1>1, <1>7, <3>1, <3>2 DEF Orderly, Pending, Strays, Timer
    <3>4. visible' /\ held' /\ ~early' => Elapsed'
      <4>1. CASE MinTime = 0
        BY <1>3, <4>1 DEF Elapsed
      <4>2. CASE MinTime # 0
        <5>1. timeoutId # None
          BY <2>3, <4>2 DEF hold
        <5>2. visible /\ since' = since /\ held' = held /\ early' = early
          BY <1>2, <1>7, <2>3, <3>2, <4>2, <5>1 DEF Orderly, IInv, Flags
        <5> QED BY <1>1, <1>7, <5>2 DEF Orderly, Elapsed
      <4> QED BY <4>1, <4>2
    <3>5. visible' /\ reported' /\ (timeoutId' # None => due'[timeoutId'] # None)
      BY <1>1, <1>7, <2>3, <3>1 DEF Orderly
    <3> QED BY <1>7, <3>3, <3>4, <3>5 DEF Orderly
  <2> QED BY <2>1, <2>2, <2>3
<1> QED BY <1>4, <1>6, <1>8 DEF IInv

\* What fires is a stray, or the timer of the state, late enough.
LEMMA ElapseHolds == ASSUME IInv, NEW t \in Timer, Elapse(t) PROVE IInv'
<1>1. /\ due[t] # None /\ due[t] <= now
      /\ due' = [due EXCEPT ![t] = None] /\ timeoutId' = None /\ held' = TRUE
      /\ early' = (t \in strays)
      /\ strays' = ((strays \cup {timeoutId}) \ {None}) \ {t}
      /\ UNCHANGED <<now, visible, reported, since, cleared>>
  BY DEF Elapse, Loses
<1>2. Numbers'
  BY <1>1 DEF IInv, Numbers
<1>3. Flags'
  BY <1>1 DEF IInv, Flags
<1>4. Orderly
  BY DEF IInv
<1>5. Strays'
  BY <1>1, <1>4 DEF Orderly, Strays, IInv, Numbers
<1>6. Pending'
  BY <1>1, <1>4 DEF Orderly, Pending, IInv, Numbers, Timer
<1>7. ~early' => Elapsed'
  <2>1. ASSUME t \notin strays PROVE since + MinTime <= due[t]
    BY <1>1, <1>4, <2>1 DEF Orderly, Pending
  <2>2. due[t] \in Nat
    BY <1>1 DEF IInv, Numbers
  <2>3. t \notin strays => since + MinTime <= now
    BY <1>1, <2>1, <2>2 DEF IInv, Numbers
  <2>4. ~early' => t \notin strays
    BY <1>1
  <2> QED BY <1>1, <2>3, <2>4 DEF Elapsed
<1>8. early' \/ strays' # {} => cleared'
  <2>1. CASE strays # {}
    BY <1>1, <1>4, <2>1 DEF Orderly
  <2>2. CASE strays = {}
    <3>1. t = timeoutId
      BY <1>1, <1>4, <2>2 DEF Orderly, Pending
    <3> QED BY <1>1, <2>2, <3>1
  <2> QED BY <2>1, <2>2
<1> QED BY <1>1, <1>2, <1>3, <1>4, <1>5, <1>6, <1>7, <1>8 DEF IInv, Orderly

\* The state loses its timer, which becomes a stray.
LEMMA ClearHolds == ASSUME IInv, ClearEventState PROVE IInv'
<1>1. /\ visible' = FALSE /\ held' = FALSE /\ timeoutId' = None
      /\ cleared' = TRUE /\ early' = FALSE
      /\ strays' = (strays \cup {timeoutId}) \ {None}
      /\ UNCHANGED <<now, due, reported, since>>
  BY DEF ClearEventState, Loses
<1>2. Numbers' /\ Flags'
  BY <1>1 DEF IInv, Numbers, Flags
<1>3. Pending' /\ Strays'
  BY <1>1 DEF IInv, Orderly, Pending, Strays, Numbers, Timer
<1> QED BY <1>1, <1>2, <1>3 DEF IInv, Orderly

LEMMA StepHolds == IInv /\ [Next]_vars => IInv'
<1> SUFFICES ASSUME IInv, [Next]_vars PROVE IInv'
  OBVIOUS
<1>1. CASE Cross
  BY <1>1 DEF Cross, IInv, Numbers, Flags, Orderly, Pending, Strays, Elapsed, state, seen
<1>2. CASE Report
  BY <1>2, ReportHolds
<1>3. CASE ClearEventState
  BY <1>3, ClearHolds
<1>4. CASE Tick
  <2>1. Numbers' /\ (Elapsed => Elapsed')
    BY <1>4 DEF Tick, IInv, Numbers, Elapsed, state, seen
  <2>2. UNCHANGED <<state, seen, due>>
    BY <1>4 DEF Tick
  <2> QED BY <2>1, <2>2 DEF IInv, Flags, Orderly, Pending, Strays, state, seen
<1>5. ASSUME NEW t \in Timer, Elapse(t) PROVE IInv'
  BY <1>5, ElapseHolds
<1>6. CASE UNCHANGED vars
  BY <1>6 DEF vars, state, seen, IInv, Numbers, Flags, Orderly, Pending, Strays, Elapsed
<1> QED BY <1>1, <1>2, <1>3, <1>4, <1>5, <1>6 DEF Next

\* Whatever the order of the observer's reports, timers, clears and the clock: the test
\* of ElementInView passes only after the minimum time in view, or because of a timer
\* that a clear of the state let run on (inViewChecker).
THEOREM HeldLongEnoughCorrect == Spec => []HeldLongEnough
<1>1. IInv => HeldLongEnough
  <2> SUFFICES ASSUME IInv
               PROVE  /\ visible /\ held /\ ~early => InViewFor(MinTime)
                      /\ early => cleared
    BY DEF HeldLongEnough, ElementTest
  <2>1. Orderly
    BY DEF IInv
  <2>2. Elapsed => now - since >= MinTime
    BY DEF Elapsed, IInv, Numbers
  <2> QED BY <2>1, <2>2 DEF InViewFor, Orderly
<1> QED BY <1>1, InitHolds, StepHolds, PTL DEF Spec
=============================================================================
