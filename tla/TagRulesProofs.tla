--------------------------- MODULE TagRulesProofs ---------------------------
(***************************************************************************)
(* Theorems about the rule engine of the browser, for any rules, groups,   *)
(* triggers and events, and any order of events, changes and timers.       *)
(***************************************************************************)
EXTENDS TagRulesProps, SequenceTheorems, WellFoundedInduction, TLAPS

\* A call of the turn has what its step needs: a rule and an event of its trigger that
\* somebody listens to, or is about to.
Fitting(i) ==
    LET c == turn[i]
    IN  /\ c.do \in {"configure", "create", "register", "raise"} => c.rule \in Rule
        /\ c.do \in {"create", "register", "raise"} => c.event \in TriggerEvents(c.rule)
        /\ c.do = "create" => \E j \in DOMAIN turn : /\ j > i
                                                     /\ turn[j].do = "register"
                                                     /\ turn[j].event = c.event
        /\ c.do = "raise" => listeners[c.event] # <<>>
        /\ c.do = "check" => c.group \in Group
        /\ c.do \in {"configure", "create", "register"} => turn[Len(turn)].do = "dispatch"

Registering(e) == \E i \in DOMAIN turn : turn[i].do = "register" /\ turn[i].event = e

RulesInv ==
    /\ TypeOK
    /\ \A i \in DOMAIN turn : Fitting(i)
    /\ \A e \in Event : \A i \in DOMAIN listeners[e] : e \in TriggerEvents(listeners[e][i])
    /\ \A timer \in timers : listeners[timer.event] # <<>> \/ Registering(timer.event)
    /\ \A g \in Group : winner[g] # None => GroupOf[winner[g].rule] = g

\* A rule is among those its trigger's data containers tell, once it is configured; and
\* where it passes while its group waits, a check of the group is still to come.
Watching(r) ==
    \/ \E i \in DOMAIN watchers[TriggerOf[r]] : watchers[TriggerOf[r]][i] = r
    \/ \E i \in DOMAIN turn : turn[i].do = "configure" /\ turn[i].rule = r
Checked(g) ==
    \E i \in DOMAIN turn : turn[i].do = "dispatch" \/ (turn[i].do = "check" /\ turn[i].group = g)
MissedInv ==
    \A r \in Rule :
        /\ Watching(r)
        /\ winner[GroupOf[r]] = None /\ TriggerOf[r] \in Watched /\ Passes(r) =>
               Checked(GroupOf[r])

\* An event that one rule registers is registered once, and heard once when it occurs.
Registers(c, e) ==
    \/ c.do = "register" /\ c.event = e
    \/ c.do = "configure" /\ e \in TriggerEvents(c.rule)
Raises(c, e) == c.do = "raise" /\ c.event = e
HeardOnce(e) ==
    /\ \A i, j \in DOMAIN turn : Registers(turn[i], e) /\ Registers(turn[j], e) => i = j
    /\ \A i \in DOMAIN turn : Registers(turn[i], e) => listeners[e] = <<>>
    /\ Len(listeners[e]) <= 1
    /\ \A i, j \in DOMAIN turn : Raises(turn[i], e) /\ Raises(turn[j], e) => i = j

\* The timers of an event that is not triggered at its creation: only the one kept.
OneTimer(e) ==
    \A timer \in timers : timer.event = e => listeners[e] # <<>> /\ resetTimer[e] = timer

OwnInv ==
    \A e \in Event : OwnEvent(e) =>
        /\ HeardOnce(e)
        /\ e \notin Immediate => OneTimer(e)

\* How often the rule was applied; an event that is triggered, or about to be, is an
\* occurrence that is not used up.
Uses(r) ==
    LET last == winner[GroupOf[r]]
    IN  IF last # None /\ last.rule = r THEN last.index + 1 ELSE 0
Unused(e) ==
    (IF triggered[e] THEN 1 ELSE 0)
        + (IF \E i \in DOMAIN turn : Raises(turn[i], e) THEN 1 ELSE 0)
UsedInv ==
    \A r \in Rule : Unshared(TriggerOf[r]) =>
        \A e \in TriggerEvents(r) : Uses(r) + Unused(e) <= occurred[e]

-----------------------------------------------------------------------------
(* The calls of a turn.                                                    *)

\* A step takes the head of the turn and may put further calls in front of the rest.
LEMMA Rest ==
    ASSUME TypeOK, turn # <<>>, NEW s \in Seq(Calls), turn' = s \o Tail(turn)
    PROVE  /\ turn' \in Seq(Calls) /\ Len(turn') = Len(s) + Len(turn) - 1
           /\ \A i \in DOMAIN s : i \in DOMAIN turn' /\ turn'[i] = s[i]
           /\ \A i \in DOMAIN turn : i >= 2 =>
                  Len(s) + i - 1 \in DOMAIN turn' /\ turn'[Len(s) + i - 1] = turn[i]
           /\ \A i \in DOMAIN turn' :
                  \/ i \in DOMAIN s /\ turn'[i] = s[i]
                  \/ /\ i - Len(s) + 1 \in DOMAIN turn /\ i - Len(s) + 1 >= 2
                     /\ turn'[i] = turn[i - Len(s) + 1]
<1> DEFINE t == turn
<1> DEFINE u == turn'
<1>0. t \in Seq(Calls) /\ t # <<>> /\ u = s \o Tail(t)
    BY DEF TypeOK
<1> HIDE DEF t, u
<1>1. /\ Tail(t) \in Seq(Calls) /\ Len(Tail(t)) = Len(t) - 1
      /\ \A i \in 1 .. Len(t) - 1 : Tail(t)[i] = t[i + 1]
      /\ Len(t) \in Nat \ {0} /\ DOMAIN t = 1 .. Len(t)
      /\ Len(s) \in Nat /\ DOMAIN s = 1 .. Len(s)
    BY <1>0
<1>2. /\ u \in Seq(Calls) /\ Len(u) = Len(s) + Len(t) - 1
      /\ DOMAIN u = 1 .. Len(s) + Len(t) - 1
      /\ \A i \in 1 .. Len(s) + Len(t) - 1 :
             u[i] = IF i <= Len(s) THEN s[i] ELSE Tail(t)[i - Len(s)]
    BY <1>0, <1>1, ConcatProperties
<1>3. ASSUME NEW i \in DOMAIN s PROVE i \in DOMAIN u /\ u[i] = s[i]
    BY <1>1, <1>2
<1>4. ASSUME NEW i \in DOMAIN t, i >= 2
      PROVE  Len(s) + i - 1 \in DOMAIN u /\ u[Len(s) + i - 1] = t[i]
  <2>1. /\ Len(s) + i - 1 \in 1 .. Len(s) + Len(t) - 1 /\ ~(Len(s) + i - 1 <= Len(s))
        /\ i - 1 \in 1 .. Len(t) - 1 /\ (Len(s) + i - 1) - Len(s) = i - 1 /\ (i - 1) + 1 = i
    BY <1>1, <1>4
  <2>2. Tail(t)[i - 1] = t[i]
    BY <1>1, <2>1
  <2> QED BY <1>2, <2>1, <2>2
<1>5. ASSUME NEW i \in DOMAIN u, ~(i \in DOMAIN s)
      PROVE  /\ i - Len(s) + 1 \in DOMAIN t /\ i - Len(s) + 1 >= 2
             /\ u[i] = t[i - Len(s) + 1]
  <2> DEFINE n == Len(s)
  <2>1. /\ i \in 1 .. n + Len(t) - 1 /\ i \notin 1 .. n /\ n \in Nat /\ Len(t) \in Nat
        /\ u[i] = IF i <= n THEN s[i] ELSE Tail(t)[i - n]
    BY <1>1, <1>2, <1>5
  <2> HIDE DEF n
  <2>2. ~(i <= n) /\ i - n \in 1 .. Len(t) - 1 /\ i - n + 1 \in 1 .. Len(t) /\ i - n + 1 >= 2
    BY <2>1
  <2>3. Tail(t)[i - n] = t[i - n + 1]
    BY <1>1, <2>2
  <2> QED BY <1>1, <2>1, <2>2, <2>3 DEF n
<1> QED BY <1>2, <1>3, <1>4, <1>5 DEF t, u

LEMMA CallIs ==
    ASSUME NEW do, NEW r, NEW e, NEW g
    PROVE  /\ Call(do, r, e, g).do = do /\ Call(do, r, e, g).rule = r
           /\ Call(do, r, e, g).event = e /\ Call(do, r, e, g).group = g
           /\ /\ do \in {"configure", "create", "register", "raise", "dispatch", "check"}
              /\ r \in Rule \cup {None} /\ e \in Event \cup {None} /\ g \in Group \cup {None}
              => Call(do, r, e, g) \in Calls
BY DEF Call, Calls

LEMMA Dispatches ==
    ASSUME NEW r \in Rule \cup {None}, NEW n \in Nat
    PROVE  /\ Dispatch(r, n) \in Seq(Calls) /\ DOMAIN Dispatch(r, n) = 1 .. n
           /\ \A i \in 1 .. n : Dispatch(r, n)[i].do = "dispatch"
BY CallIs DEF Dispatch

LEMMA Checks ==
    ASSUME NEW r \in Rule \cup {None}
    PROVE  /\ Check(r) \in Seq(Calls) /\ DOMAIN Check(r) = Group
           /\ \A g \in Group : Check(r)[g].do = "check" /\ Check(r)[g].group = g
<1>1. Groups \in Nat
    BY RuleAssumption
<1>2. \A g \in Group : Call("check", r, None, g) \in Calls
    BY CallIs
<1>3. Check(r) \in Seq(Calls)
    BY <1>1, <1>2 DEF Check, Group
<1> QED BY <1>3, CallIs DEF Check

LEMMA EventsAre ==
    ASSUME NEW r \in Rule
    PROVE  /\ EventsOf[TriggerOf[r]] \in Seq(Event) /\ TriggerEvents(r) \subseteq Event
           /\ TriggerOf[r] \in Trigger /\ GroupOf[r] \in Group
           /\ \A i \in DOMAIN EventsOf[TriggerOf[r]] : EventsOf[TriggerOf[r]][i] \in TriggerEvents(r)
BY RuleAssumption DEF TriggerEvents

\* The calls that configure a rule: each event of its trigger is created, then registered.
Setup(r) ==
    [i \in 1 .. 2 * Len(EventsOf[TriggerOf[r]]) |->
        Call(IF i % 2 = 1 THEN "create" ELSE "register",
             r, EventsOf[TriggerOf[r]][(i + 1) \div 2], None)]

LEMMA Setups ==
    ASSUME NEW r \in Rule
    PROVE  /\ Setup(r) \in Seq(Calls)
           /\ \A i \in DOMAIN Setup(r) :
                /\ Setup(r)[i].do \in {"create", "register"} /\ Setup(r)[i].rule = r
                /\ Setup(r)[i].event \in TriggerEvents(r)
                /\ Setup(r)[i].do = "create" => \E j \in DOMAIN Setup(r) :
                       /\ j > i /\ Setup(r)[j].do = "register"
                       /\ Setup(r)[j].event = Setup(r)[i].event
           /\ \A i, j \in DOMAIN Setup(r) :
                /\ Setup(r)[i].do = "register" /\ Setup(r)[j].do = "register"
                /\ Setup(r)[i].event = Setup(r)[j].event
                => i = j
<1> DEFINE ev == EventsOf[TriggerOf[r]]
<1> DEFINE n == Len(ev)
<1> DEFINE s == Setup(r)
<1>1. ev \in Seq(Event) /\ n \in Nat /\ DOMAIN ev = 1 .. n /\ \A i \in 1 .. n : ev[i] \in TriggerEvents(r)
  <2>1. ev \in Seq(Event) /\ \A i \in DOMAIN ev : ev[i] \in TriggerEvents(r)
    BY EventsAre
  <2> HIDE DEF ev
  <2> QED BY <2>1
<1>2. TriggerEvents(r) \subseteq Event
    BY EventsAre
<1>3. \A i, j \in 1 .. n : ev[i] = ev[j] => i = j
    BY <1>1, EventsAre, RuleAssumption
<1>4. ASSUME NEW i \in 1 .. 2 * n
      PROVE  /\ (i + 1) \div 2 \in 1 .. n /\ i % 2 \in {0, 1}
             /\ i % 2 = 0 => i = 2 * ((i + 1) \div 2)
             /\ i % 2 = 1 => /\ i + 1 \in 1 .. 2 * n /\ (i + 1) % 2 = 0
                             /\ (i + 1 + 1) \div 2 = (i + 1) \div 2
    BY <1>1
<1> HIDE DEF ev, n
<1>5. s = [i \in 1 .. 2 * n |-> Call(IF i % 2 = 1 THEN "create" ELSE "register",
                                     r, ev[(i + 1) \div 2], None)]
    BY DEF Setup, ev, n
<1> HIDE DEF s
<1>6. ASSUME NEW i \in 1 .. 2 * n
      PROVE  /\ s[i] \in Calls /\ s[i].rule = r /\ s[i].event = ev[(i + 1) \div 2]
             /\ s[i].do = IF i % 2 = 1 THEN "create" ELSE "register"
             /\ s[i].event \in TriggerEvents(r)
  <2>1. (i + 1) \div 2 \in 1 .. n
    BY <1>4
  <2>2. ev[(i + 1) \div 2] \in TriggerEvents(r)
    BY <1>1, <2>1
  <2> QED BY <1>2, <1>5, <2>2, CallIs
<1>7. s \in Seq(Calls) /\ DOMAIN s = 1 .. 2 * n
  <2>1. 2 * n \in Nat /\ DOMAIN s = 1 .. 2 * n /\ s \in [1 .. 2 * n -> Calls]
    BY <1>1, <1>5, <1>6
  <2> QED BY <2>1
<1>8. ASSUME NEW i \in 1 .. 2 * n, s[i].do = "create"
      PROVE  \E j \in 1 .. 2 * n : j > i /\ s[j].do = "register" /\ s[j].event = s[i].event
  <2>1. i % 2 = 1
    BY <1>6, <1>8
  <2>2. i + 1 \in 1 .. 2 * n /\ (i + 1) % 2 = 0 /\ (i + 1 + 1) \div 2 = (i + 1) \div 2
    BY <1>4, <2>1
  <2>3. s[i + 1].do = "register" /\ s[i + 1].event = s[i].event
    BY <1>6, <2>2
  <2> QED BY <2>2, <2>3
<1>9. ASSUME NEW i \in 1 .. 2 * n, NEW j \in 1 .. 2 * n,
             s[i].do = "register", s[j].do = "register", s[i].event = s[j].event
      PROVE  i = j
  <2>1. i % 2 = 0 /\ j % 2 = 0
    BY <1>4, <1>6, <1>9
  <2>2. (i + 1) \div 2 = (j + 1) \div 2
    BY <1>3, <1>4, <1>6, <1>9
  <2>3. i = 2 * ((i + 1) \div 2) /\ j = 2 * ((j + 1) \div 2)
    BY <1>4, <2>1
  <2> QED BY <2>2, <2>3
<1> QED BY <1>6, <1>7, <1>8, <1>9 DEF s

-----------------------------------------------------------------------------
(* The calls stay fit to be made.                                          *)

\* What a step puts in front of the rest is fit where it is put.
FitToPut(s, i) ==
    LET c == s[i]
    IN  /\ c.do \in {"configure", "create", "register", "raise"} => c.rule \in Rule
        /\ c.do \in {"create", "register", "raise"} => c.event \in TriggerEvents(c.rule)
        /\ c.do = "create" => \E j \in DOMAIN s : /\ j > i
                                                  /\ s[j].do = "register"
                                                  /\ s[j].event = c.event
        /\ c.do = "raise" => listeners[c.event] # <<>>
        /\ c.do = "check" => c.group \in Group
        /\ c.do \in {"configure", "create", "register"} => turn[1].do = "configure"

LEMMA RestFits ==
    ASSUME TypeOK, turn # <<>>, \A i \in DOMAIN turn : Fitting(i),
           \A e : listeners[e] # <<>> => listeners'[e] # <<>>,
           NEW s \in Seq(Calls), \A i \in DOMAIN s : FitToPut(s, i), turn' = s \o Tail(turn)
    PROVE  turn' \in Seq(Calls) /\ \A i \in DOMAIN turn' : Fitting(i)'
<1> DEFINE t == turn
<1> DEFINE n == Len(s)
<1>1. t \in Seq(Calls) /\ t # <<>> /\ n \in Nat /\ DOMAIN s = 1 .. n
      /\ Len(t) \in Nat \ {0} /\ DOMAIN t = 1 .. Len(t)
    BY DEF TypeOK
<1>2. /\ turn' \in Seq(Calls) /\ Len(turn') = n + Len(t) - 1
      /\ \A i \in DOMAIN s : i \in DOMAIN turn' /\ turn'[i] = s[i]
      /\ \A i \in DOMAIN t : i >= 2 => n + i - 1 \in DOMAIN turn' /\ turn'[n + i - 1] = t[i]
      /\ \A i \in DOMAIN turn' :
            \/ i \in DOMAIN s /\ turn'[i] = s[i]
            \/ i - n + 1 \in DOMAIN t /\ i - n + 1 >= 2 /\ turn'[i] = t[i - n + 1]
    BY <1>1, Rest
<1>3. ASSUME Len(t) >= 2 PROVE turn'[Len(turn')] = t[Len(t)]
    BY <1>1, <1>2, <1>3
<1>4. ASSUME NEW i \in DOMAIN s PROVE Fitting(i)'
  <2>1. turn'[i] = s[i] /\ FitToPut(s, i)
    BY <1>2
  <2>2. s[i].do = "create" => \E j \in DOMAIN turn' :
            j > i /\ turn'[j].do = "register" /\ turn'[j].event = s[i].event
    BY <1>2, <2>1 DEF FitToPut
  <2>3. ASSUME s[i].do \in {"configure", "create", "register"}
        PROVE  turn'[Len(turn')].do = "dispatch"
    <3>1. turn[1].do = "configure" /\ Fitting(1)
      BY <1>1, <2>1, <2>3 DEF FitToPut
    <3>2. t[Len(t)].do = "dispatch"
      BY <3>1 DEF Fitting
    <3>3. Len(t) >= 2
      BY <1>1, <3>1, <3>2
    <3> QED BY <1>3, <3>2, <3>3
  <2> HIDE DEF t, n
  <2>4. listeners[s[i].event] # <<>> => listeners'[s[i].event] # <<>>
    OBVIOUS
  <2> DEFINE c == turn'[i]
  <2>5. /\ c.do \in {"configure", "create", "register", "raise"} => c.rule \in Rule
        /\ c.do \in {"create", "register", "raise"} => c.event \in TriggerEvents(c.rule)
        /\ c.do = "raise" => listeners'[c.event] # <<>>
        /\ c.do = "check" => c.group \in Group
    BY <2>1, <2>4 DEF FitToPut
  <2>6. /\ c.do = "create" => \E j \in DOMAIN turn' : /\ j > i
                                                     /\ turn'[j].do = "register"
                                                     /\ turn'[j].event = c.event
        /\ c.do \in {"configure", "create", "register"} => turn'[Len(turn')].do = "dispatch"
    BY <2>1, <2>2, <2>3
  <2> QED BY ONLY <2>5, <2>6 DEF Fitting
<1>5. ASSUME NEW i \in DOMAIN turn', i - n + 1 \in DOMAIN t, i - n + 1 >= 2,
             turn'[i] = t[i - n + 1]
      PROVE  Fitting(i)'
  <2> DEFINE k == i - n + 1
  <2>1. Fitting(k) /\ t[k] = turn'[i] /\ i \in Int /\ k \in Int
    BY <1>1, <1>2, <1>5
  <2>2. t[k].do = "create" => \E j \in DOMAIN turn' :
            j > i /\ turn'[j].do = "register" /\ turn'[j].event = t[k].event
    <3> SUFFICES ASSUME t[k].do = "create"
                 PROVE \E j \in DOMAIN turn' :
                          j > i /\ turn'[j].do = "register" /\ turn'[j].event = t[k].event
      OBVIOUS
    <3>1. PICK j \in DOMAIN t : j > k /\ t[j].do = "register" /\ t[j].event = t[k].event
      BY <2>1 DEF Fitting
    <3>2. j \in Nat /\ j >= 2 /\ n + j - 1 > i
      BY <1>1, <1>5, <2>1, <3>1
    <3>3. n + j - 1 \in DOMAIN turn' /\ turn'[n + j - 1] = t[j]
      BY <1>2, <3>2
    <3> QED BY <3>1, <3>2, <3>3
  <2>3. t[k].do \in {"configure", "create", "register"} => turn'[Len(turn')].do = "dispatch"
    <3>1. Len(t) >= 2
      BY <1>1, <1>5
    <3> QED BY <1>3, <2>1, <3>1 DEF Fitting
  <2> HIDE DEF t, n, k
  <2>4. Fitting(k) /\ t[k] = turn[k]
    BY <2>1 DEF t
  <2> DEFINE c == turn'[i]
  <2>5. listeners[c.event] # <<>> => listeners'[c.event] # <<>>
    OBVIOUS
  <2>6. /\ c.do \in {"configure", "create", "register", "raise"} => c.rule \in Rule
        /\ c.do \in {"create", "register", "raise"} => c.event \in TriggerEvents(c.rule)
        /\ c.do = "raise" => listeners'[c.event] # <<>>
        /\ c.do = "check" => c.group \in Group
    BY <2>1, <2>4, <2>5 DEF Fitting
  <2>7. /\ c.do = "create" => \E j \in DOMAIN turn' : /\ j > i
                                                     /\ turn'[j].do = "register"
                                                     /\ turn'[j].event = c.event
        /\ c.do \in {"configure", "create", "register"} => turn'[Len(turn')].do = "dispatch"
    BY <2>1, <2>2, <2>3
  <2> QED BY ONLY <2>6, <2>7 DEF Fitting
<1> QED BY <1>2, <1>4, <1>5

\* What registers stays to be registered, but for the head of the turn.
LEMMA RestRegisters ==
    ASSUME TypeOK, turn # <<>>, NEW s \in Seq(Calls), turn' = s \o Tail(turn), NEW e,
           Registering(e), ~(turn[1].do = "register" /\ turn[1].event = e)
    PROVE  Registering(e)'
<1>1. PICK i \in DOMAIN turn : turn[i].do = "register" /\ turn[i].event = e
    BY DEF Registering
<1>2. turn \in Seq(Calls) /\ i >= 2
    BY <1>1 DEF TypeOK
<1>3. Len(s) + i - 1 \in DOMAIN turn' /\ turn'[Len(s) + i - 1] = turn[i]
    BY <1>2, Rest
<1> QED BY <1>1, <1>3 DEF Registering

\* A step that puts nothing in front.
LEMMA JustRest ==
    ASSUME TypeOK, turn # <<>>, \A i \in DOMAIN turn : Fitting(i),
           \A e : listeners[e] # <<>> => listeners'[e] # <<>>,
           turn' = <<>> \o Tail(turn)
    PROVE  /\ turn' \in Seq(Calls) /\ \A i \in DOMAIN turn' : Fitting(i)'
           /\ \A e : Registering(e) /\ ~(turn[1].do = "register" /\ turn[1].event = e)
                         => Registering(e)'
<1>1. <<>> \in Seq(Calls) /\ \A i \in DOMAIN <<>> : FitToPut(<<>>, i)
    OBVIOUS
<1>2. turn' \in Seq(Calls) /\ \A i \in DOMAIN turn' : Fitting(i)'
    BY <1>1, RestFits
<1>3. \A e : Registering(e) /\ ~(turn[1].do = "register" /\ turn[1].event = e)
                 => Registering(e)'
    BY <1>1, RestRegisters
<1> QED BY <1>2, <1>3

\* What is fired: the timers, the state and the dispatches.
LEMMA Fires ==
    ASSUME TypeOK, NEW r \in Rule, NEW e \in Event, NEW from \in {"create", "register", "raise"},
           Fire(r, e, from)
    PROVE  /\ timers' \in SUBSET Timers /\ resetTimer' \in [Event -> Timers \cup {None}]
           /\ triggered' \in [Event -> BOOLEAN]
           /\ \A timer \in timers' : timer \in timers \/ timer.event = e
           /\ Dispatch(r, Len(listeners[e])) \in Seq(Calls)
           /\ turn' = Dispatch(r, Len(listeners[e])) \o Tail(turn)
<1> DEFINE timer == ClearTimer(r, e, from)
<1>1. timer \in Timers \cup {None} /\ (timer # None => timer.event = e)
  <2>1. now \in Nat /\ ClearAfter[e] \in Nat \cup {-1}
    BY RuleAssumption, TimeAssumption DEF TypeOK
  <2> QED BY <2>1 DEF ClearTimer, Timers
<1>2. listeners[e] \in Seq(Rule) /\ Len(listeners[e]) \in Nat
    BY DEF TypeOK
<1>3. Dispatch(r, Len(listeners[e])) \in Seq(Calls)
    BY <1>2, Dispatches
<1> HIDE DEF timer
<1>4. SetResetTimer(e, timer)
    BY DEF Fire, timer
<1>5. /\ timers' \in SUBSET Timers /\ resetTimer' \in [Event -> Timers \cup {None}]
      /\ \A x \in timers' : x \in timers \/ x.event = e
    BY <1>1, <1>4 DEF SetResetTimer, TypeOK
<1> QED BY <1>3, <1>5 DEF Fire, TypeOK

-----------------------------------------------------------------------------
(* The steps.                                                              *)

LEMMA LeastNat ==
    ASSUME NEW S \in SUBSET Nat, S # {}
    PROVE  \E n \in S : \A m \in S : n <= m
<1> DEFINE R == OpToRel(<, Nat)
<1>1. IsWellFoundedOn(R, Nat)
    BY NatLessThanWellFounded
<1>2. \A x, y \in Nat : x < y => <<x, y>> \in R
    BY DEF OpToRel
<1> HIDE DEF R
<1>3. \E x \in S : \A y \in S : ~(<<y, x>> \in R)
    BY <1>1, WFMin, Zenon
<1>4. PICK x \in S : \A y \in S : ~(<<y, x>> \in R)
    BY <1>3
<1>5. \A y \in S : ~(y < x)
    BY <1>2, <1>4
<1> QED BY <1>5

\* The rule a check applies, if any, is one of the group that passes.
LEMMA Applies ==
    ASSUME RulesInv, CheckGroup
    PROVE  \E g \in Group, ruleId \in Rule \cup {None} :
             /\ turn[1].do = "check" /\ turn[1].group = g
             /\ \/ Candidates(g, ruleId) = {} /\ UNCHANGED <<triggered, winner>>
                \/ \E r \in Candidates(g, ruleId) :
                     /\ r \in Rule /\ GroupOf[r] = g /\ Passes(r)
                     /\ ResetEvents(r)
                     /\ \A h \in Group : h # g => winner'[h] = winner[h]
                     /\ winner'[g] = [rule |-> r, ts |-> now,
                                      index |-> IF winner[g] = None THEN 0
                                                ELSE winner[g].index + 1]
                     /\ winner' \in [Group -> Status \cup {None}]
<1> DEFINE g == Head(turn).group
<1> DEFINE ruleId == Head(turn).rule
<1> DEFINE first == Candidates(g, ruleId)
<1> DEFINE r == CHOOSE c \in first : \A o \in first : c <= o
<1>1. /\ turn # <<>> /\ turn \in Seq(Calls) /\ Head(turn) = turn[1] /\ 1 \in DOMAIN turn
      /\ turn[1].do = "check" /\ winner \in [Group -> Status \cup {None}]
    BY DEF CheckGroup, NextCall, RulesInv, TypeOK
<1>2. g \in Group /\ ruleId \in Rule \cup {None}
  <2>1. Fitting(1) /\ turn[1] \in Calls
    BY <1>1 DEF RulesInv
  <2> QED BY <1>1, <2>1 DEF Fitting, Calls
<1>3. \A c \in first : c \in Rule /\ GroupOf[c] = g /\ Passes(c)
  <2>1. winner[g] # None => winner[g].rule \in Rule /\ GroupOf[winner[g].rule] = g
    BY <1>1, <1>2 DEF RulesInv, Status
  <2> HIDE DEF g, ruleId
  <2> QED BY <2>1 DEF Candidates
<1>4. CASE first = {}
    BY <1>1, <1>2, <1>4 DEF CheckGroup
<1>5. CASE first # {}
  <2>1. r \in first
    <3>1. first \in SUBSET Nat
      BY <1>3 DEF Rule
    <3>2. \E c \in first : \A o \in first : c <= o
      BY <1>5, <3>1, LeastNat
    <3> HIDE DEF first
    <3> QED BY <3>2
  <2>2. /\ ResetEvents(r)
        /\ winner' = [winner EXCEPT ![g] =
                         [rule |-> r, ts |-> now,
                          index |-> IF @ = None THEN 0 ELSE @.index + 1]]
    BY <1>5 DEF CheckGroup
  <2>3. r \in Rule /\ GroupOf[r] = g /\ Passes(r)
    BY <1>3, <2>1
  <2> HIDE DEF g, ruleId, first, r
  <2>4. /\ \A h \in Group : h # g => winner'[h] = winner[h]
        /\ winner'[g] = [rule |-> r, ts |-> now,
                         index |-> IF winner[g] = None THEN 0 ELSE winner[g].index + 1]
    BY <1>1, <1>2, <2>2
  <2>5. winner' \in [Group -> Status \cup {None}]
    <3>1. now \in 0 .. MaxTime
      BY DEF RulesInv, TypeOK
    <3>2. winner[g] # None => winner[g].index \in Nat
      BY <1>1, <1>2 DEF Status
    <3>3. winner'[g] \in Status
      BY <2>3, <2>4, <3>1, <3>2 DEF Status
    <3> QED BY <1>1, <1>2, <2>2, <3>3
  <2>6. g = turn[1].group
    BY <1>1 DEF g
  <2> QED BY <1>1, <1>2, <2>1, <2>2, <2>3, <2>4, <2>5, <2>6 DEF first
<1> QED BY <1>4, <1>5

\* Where a step goes on with the turn: its head and its rest.
LEMMA HeadIs ==
    ASSUME RulesInv, NEW do, NextCall(do)
    PROVE  /\ turn \in Seq(Calls) /\ turn # <<>> /\ Head(turn) = turn[1] /\ 1 \in DOMAIN turn
           /\ turn[1].do = do /\ turn[1] \in Calls /\ Fitting(1)
           /\ turn' = Tail(turn) => turn' = <<>> \o Tail(turn)
<1>1. turn \in Seq(Calls) /\ turn # <<>>
    BY DEF RulesInv, TypeOK, NextCall
<1>2. Head(turn) = turn[1] /\ 1 \in DOMAIN turn /\ turn[1] \in Calls
    BY <1>1
<1>3. Tail(turn) = <<>> \o Tail(turn)
    BY <1>1
<1> QED BY <1>1, <1>2, <1>3 DEF RulesInv, NextCall

\* A step that leaves what the store and the winners are.
LEMMA ConfigureRules == ASSUME RulesInv, Configure PROVE RulesInv'
<1> DEFINE r == turn[1].rule
<1>1. /\ turn \in Seq(Calls) /\ turn # <<>> /\ Head(turn) = turn[1] /\ turn[1].do = "configure"
      /\ Fitting(1) /\ 1 \in DOMAIN turn
    BY HeadIs DEF Configure
<1>2. r \in Rule
    BY <1>1 DEF Fitting
<1>3. turn' = Setup(r) \o Tail(turn)
    BY <1>1 DEF Configure, Setup
<1>4. Setup(r) \in Seq(Calls) /\ \A i \in DOMAIN Setup(r) : FitToPut(Setup(r), i)
    BY <1>1, <1>2, Setups DEF FitToPut
<1>5. UNCHANGED <<now, listeners, triggered, resetTimer, timers, winner, holds, occurred, changes>>
    BY DEF Configure, store, page
<1> HIDE DEF r
<1>6. turn' \in Seq(Calls) /\ \A i \in DOMAIN turn' : Fitting(i)'
    BY <1>1, <1>3, <1>4, <1>5, RestFits DEF RulesInv
<1>7. \A e : Registering(e) => Registering(e)'
    BY <1>1, <1>3, <1>4, RestRegisters DEF RulesInv
<1>8. watchers' \in [Trigger -> Seq(Rule)]
  <2>1. watchers \in [Trigger -> Seq(Rule)] /\ TriggerOf[r] \in Trigger
    BY <1>2, EventsAre DEF RulesInv, TypeOK
  <2>2. Append(watchers[TriggerOf[r]], r) \in Seq(Rule)
    BY <1>2, <2>1
  <2>3. watchers' = [watchers EXCEPT ![TriggerOf[r]] = Append(@, r)]
    BY <1>1 DEF Configure, r
  <2> QED BY <2>1, <2>2, <2>3
<1>9. TypeOK'
    BY <1>5, <1>6, <1>8 DEF RulesInv, TypeOK
<1>10. \A timer \in timers' : listeners'[timer.event] # <<>> \/ Registering(timer.event)'
    BY <1>5, <1>7 DEF RulesInv
<1> QED BY <1>5, <1>6, <1>9, <1>10 DEF RulesInv

\* An event that fires, from a create function or a listener.
LEMMA FireRules ==
    ASSUME RulesInv, turn # <<>>, NEW r \in Rule, NEW e \in Event,
           NEW from \in {"create", "register", "raise"}, Fire(r, e, from),
           turn[1].do # "register", listeners[e] # <<>> \/ Registering(e),
           UNCHANGED <<now, listeners, watchers, winner, holds, changes>>,
           occurred' \in [Event -> Nat]
    PROVE  RulesInv'
<1> DEFINE s == Dispatch(r, Len(listeners[e]))
<1>1. /\ timers' \in SUBSET Timers /\ resetTimer' \in [Event -> Timers \cup {None}]
      /\ triggered' \in [Event -> BOOLEAN]
      /\ \A timer \in timers' : timer \in timers \/ timer.event = e
      /\ s \in Seq(Calls) /\ turn' = s \o Tail(turn)
    BY Fires DEF RulesInv
<1>2. \A i \in DOMAIN s : FitToPut(s, i)
  <2>1. Len(listeners[e]) \in Nat
    BY DEF RulesInv, TypeOK
  <2>2. \A i \in DOMAIN s : s[i].do = "dispatch"
    BY <2>1, Dispatches
  <2> HIDE DEF s
  <2> QED BY <2>2 DEF FitToPut
<1> HIDE DEF s
<1>3. turn' \in Seq(Calls) /\ \A i \in DOMAIN turn' : Fitting(i)'
    BY <1>1, <1>2, RestFits DEF RulesInv
<1>4. \A x : Registering(x) => Registering(x)'
    BY <1>1, RestRegisters DEF RulesInv
<1>5. \A timer \in timers' : listeners'[timer.event] # <<>> \/ Registering(timer.event)'
    BY <1>1, <1>4 DEF RulesInv
<1>6. TypeOK'
    BY <1>1, <1>3 DEF RulesInv, TypeOK
<1> QED BY <1>3, <1>5, <1>6 DEF RulesInv

LEMMA CreateRules == ASSUME RulesInv, Create PROVE RulesInv'
<1> DEFINE r == turn[1].rule
<1> DEFINE e == turn[1].event
<1>1. /\ turn \in Seq(Calls) /\ turn # <<>> /\ Head(turn) = turn[1] /\ turn[1].do = "create"
      /\ Fitting(1) /\ 1 \in DOMAIN turn
      /\ turn' = Tail(turn) => turn' = <<>> \o Tail(turn)
    BY HeadIs DEF Create
<1>2. r \in Rule /\ e \in TriggerEvents(r) /\ e \in Event /\ Registering(e)
    BY <1>1, EventsAre DEF Fitting, Registering
<1>3. UNCHANGED <<now, listeners, watchers, winner, holds, changes>>
    BY DEF Create
<1>4. CASE e \in Immediate
  <2>1. Fire(r, e, "create") /\ occurred' = [occurred EXCEPT ![e] = @ + 1]
    BY <1>1, <1>4 DEF Create
  <2>2. occurred' \in [Event -> Nat]
    BY <1>2, <2>1 DEF RulesInv, TypeOK
  <2> HIDE DEF r, e
  <2> QED BY <1>1, <1>2, <1>3, <2>1, <2>2, FireRules
<1>5. CASE e \notin Immediate
  <2>1. turn' = <<>> \o Tail(turn) /\ UNCHANGED <<triggered, resetTimer, timers, occurred>>
    BY <1>1, <1>5 DEF Create, store
  <2>2. turn' \in Seq(Calls) /\ \A i \in DOMAIN turn' : Fitting(i)'
    BY <1>1, <1>3, <2>1, JustRest DEF RulesInv
  <2>3. \A x : Registering(x) => Registering(x)'
    BY <1>1, <1>3, <2>1, JustRest DEF RulesInv
  <2>4. \A timer \in timers' : listeners'[timer.event] # <<>> \/ Registering(timer.event)'
    BY <1>3, <2>1, <2>3 DEF RulesInv
  <2>5. TypeOK'
    BY <1>3, <2>1, <2>2 DEF RulesInv, TypeOK
  <2> QED BY <1>3, <2>2, <2>4, <2>5 DEF RulesInv
<1> QED BY <1>4, <1>5

LEMMA RegisterRules == ASSUME RulesInv, Register PROVE RulesInv'
<1> DEFINE r == turn[1].rule
<1> DEFINE e == turn[1].event
<1>1. /\ turn \in Seq(Calls) /\ turn # <<>> /\ Head(turn) = turn[1] /\ turn[1].do = "register"
      /\ Fitting(1) /\ turn' = <<>> \o Tail(turn)
    BY HeadIs DEF Register
<1>2. r \in Rule /\ e \in TriggerEvents(r) /\ e \in Event
    BY <1>1, EventsAre DEF Fitting
<1>3. UNCHANGED <<now, watchers, triggered, winner, holds, occurred, changes>>
    BY DEF Register, page
<1> DEFINE timer == ClearTimer(r, e, "register")
<1>4. timer \in Timers \cup {None} /\ (timer # None => timer.event = e)
  <2>1. now \in Nat /\ ClearAfter[e] \in Nat \cup {-1}
    BY <1>2, RuleAssumption, TimeAssumption DEF RulesInv, TypeOK
  <2> QED BY <1>2, <2>1 DEF ClearTimer, Timers
<1>5. /\ resetTimer' = [resetTimer EXCEPT ![e] = timer]
      /\ timers' = timers \cup ({timer} \ {None})
      /\ listeners' = [listeners EXCEPT ![e] = Append(@, r)]
    BY <1>1 DEF Register
<1> HIDE DEF r, e, timer
<1>6. /\ listeners' \in [Event -> Seq(Rule)] /\ listeners'[e] = Append(listeners[e], r)
      /\ listeners'[e] # <<>> /\ \A x \in Event : x # e => listeners'[x] = listeners[x]
  <2>1. listeners \in [Event -> Seq(Rule)] /\ listeners[e] \in Seq(Rule)
    BY <1>2 DEF RulesInv, TypeOK
  <2>2. Append(listeners[e], r) \in Seq(Rule) /\ Append(listeners[e], r) # <<>>
    BY <1>2, <2>1
  <2> QED BY <1>2, <1>5, <2>1, <2>2
<1>7. ASSUME NEW x, listeners[x] # <<>> PROVE listeners'[x] # <<>>
    BY <1>2, <1>5, <1>6, <1>7 DEF RulesInv, TypeOK
<1>8. turn' \in Seq(Calls) /\ \A i \in DOMAIN turn' : Fitting(i)'
    BY <1>1, <1>7, JustRest DEF RulesInv
<1>9. \A x : x # e /\ Registering(x) => Registering(x)'
    BY <1>1, <1>7, JustRest DEF RulesInv, e
<1>10. TypeOK'
    BY <1>2, <1>3, <1>4, <1>5, <1>6, <1>8 DEF RulesInv, TypeOK
<1>11. ASSUME NEW x \in Event, NEW i \in DOMAIN listeners'[x]
       PROVE  x \in TriggerEvents(listeners'[x][i])
  <2>1. CASE x = e
    <3>1. listeners[e] \in Seq(Rule)
      BY <1>2 DEF RulesInv, TypeOK
    <3>2. CASE i \in DOMAIN listeners[e]
      <4>1. listeners'[e][i] = listeners[e][i]
        BY <1>6, <2>1, <3>1, <3>2
      <4> QED BY <1>2, <2>1, <3>2, <4>1 DEF RulesInv
    <3>3. CASE i \notin DOMAIN listeners[e]
      <4>1. listeners'[e][i] = r
        BY <1>6, <1>11, <2>1, <3>1, <3>3
      <4> QED BY <1>2, <2>1, <4>1
    <3> QED BY <3>2, <3>3
  <2>2. CASE x # e
    BY <1>6, <1>11, <2>2 DEF RulesInv
  <2> QED BY <2>1, <2>2
<1>12. ASSUME NEW x \in timers'
       PROVE  listeners'[x.event] # <<>> \/ Registering(x.event)'
  <2>1. CASE x \in timers
    BY <1>6, <1>7, <1>9, <2>1 DEF RulesInv
  <2>2. CASE x \notin timers
    BY <1>4, <1>5, <1>6, <1>12, <2>2
  <2> QED BY <2>1, <2>2
<1> QED BY <1>3, <1>8, <1>10, <1>11, <1>12 DEF RulesInv

LEMMA RaiseRules == ASSUME RulesInv, Raise PROVE RulesInv'
<1> DEFINE r == turn[1].rule
<1> DEFINE e == turn[1].event
<1>1. /\ turn # <<>> /\ Head(turn) = turn[1] /\ turn[1].do = "raise" /\ Fitting(1)
    BY HeadIs DEF Raise
<1>2. r \in Rule /\ e \in Event /\ listeners[e] # <<>>
    BY <1>1, EventsAre DEF Fitting
<1>3. Fire(r, e, "raise")
    BY <1>1 DEF Raise
<1>4. UNCHANGED <<now, listeners, watchers, winner, holds, changes, occurred>>
    BY DEF Raise, page
<1>5. occurred' \in [Event -> Nat]
    BY <1>4 DEF RulesInv, TypeOK
<1> HIDE DEF r, e
<1> QED BY <1>1, <1>2, <1>3, <1>4, <1>5, FireRules

LEMMA DispatchedRules == ASSUME RulesInv, Dispatched PROVE RulesInv'
<1> DEFINE s == Check(Head(turn).rule)
<1>1. /\ turn # <<>> /\ Head(turn) = turn[1] /\ turn[1].do = "dispatch" /\ turn[1] \in Calls
    BY HeadIs DEF Dispatched
<1>2. Head(turn).rule \in Rule \cup {None}
    BY <1>1 DEF Calls
<1>3. /\ turn' = s \o Tail(turn)
      /\ UNCHANGED <<now, listeners, watchers, triggered, resetTimer, timers, winner,
                     holds, occurred, changes>>
    BY DEF Dispatched, store, page
<1>4. s \in Seq(Calls) /\ \A i \in DOMAIN s : FitToPut(s, i)
    BY <1>2, Checks DEF FitToPut
<1> HIDE DEF s
<1>5. turn' \in Seq(Calls) /\ \A i \in DOMAIN turn' : Fitting(i)'
    BY <1>1, <1>3, <1>4, RestFits DEF RulesInv
<1>6. \A x : Registering(x) => Registering(x)'
    BY <1>1, <1>3, <1>4, RestRegisters DEF RulesInv
<1>7. \A timer \in timers' : listeners'[timer.event] # <<>> \/ Registering(timer.event)'
    BY <1>3, <1>6 DEF RulesInv
<1>8. TypeOK'
    BY <1>3, <1>5 DEF RulesInv, TypeOK
<1> QED BY <1>3, <1>5, <1>7, <1>8 DEF RulesInv

LEMMA CheckGroupRules == ASSUME RulesInv, CheckGroup PROVE RulesInv'
<1>1. /\ turn # <<>> /\ turn[1].do = "check" /\ turn' = <<>> \o Tail(turn)
    BY HeadIs DEF CheckGroup
<1>2. UNCHANGED <<now, listeners, watchers, resetTimer, timers, holds, occurred, changes>>
    BY DEF CheckGroup, page
<1>3. turn' \in Seq(Calls) /\ \A i \in DOMAIN turn' : Fitting(i)'
    BY <1>1, <1>2, JustRest DEF RulesInv
<1>4. \A x : Registering(x) => Registering(x)'
    BY <1>1, <1>2, JustRest DEF RulesInv
<1>5. \A timer \in timers' : listeners'[timer.event] # <<>> \/ Registering(timer.event)'
    BY <1>2, <1>4 DEF RulesInv
<1>6. /\ triggered' \in [Event -> BOOLEAN] /\ winner' \in [Group -> Status \cup {None}]
      /\ \A g \in Group : winner'[g] # None => GroupOf[winner'[g].rule] = g
  <2>1. PICK g \in Group, ruleId \in Rule \cup {None} :
             /\ turn[1].do = "check" /\ turn[1].group = g
             /\ \/ Candidates(g, ruleId) = {} /\ UNCHANGED <<triggered, winner>>
                \/ \E r \in Candidates(g, ruleId) :
                     /\ r \in Rule /\ GroupOf[r] = g /\ Passes(r)
                     /\ ResetEvents(r)
                     /\ \A h \in Group : h # g => winner'[h] = winner[h]
                     /\ winner'[g] = [rule |-> r, ts |-> now,
                                      index |-> IF winner[g] = None THEN 0
                                                ELSE winner[g].index + 1]
                     /\ winner' \in [Group -> Status \cup {None}]
    BY Applies
  <2>2. CASE UNCHANGED <<triggered, winner>>
    BY <2>2 DEF RulesInv, TypeOK
  <2>3. CASE \E r \in Candidates(g, ruleId) :
                     /\ r \in Rule /\ GroupOf[r] = g /\ Passes(r)
                     /\ ResetEvents(r)
                     /\ \A h \in Group : h # g => winner'[h] = winner[h]
                     /\ winner'[g] = [rule |-> r, ts |-> now,
                                      index |-> IF winner[g] = None THEN 0
                                                ELSE winner[g].index + 1]
                     /\ winner' \in [Group -> Status \cup {None}]
    <3>1. PICK r \in Candidates(g, ruleId) :
                     /\ r \in Rule /\ GroupOf[r] = g /\ Passes(r)
                     /\ ResetEvents(r)
                     /\ \A h \in Group : h # g => winner'[h] = winner[h]
                     /\ winner'[g] = [rule |-> r, ts |-> now,
                                      index |-> IF winner[g] = None THEN 0
                                                ELSE winner[g].index + 1]
                     /\ winner' \in [Group -> Status \cup {None}]
      BY <2>3
    <3>2. winner'[g].rule = r
      BY <3>1
    <3>3. triggered' \in [Event -> BOOLEAN]
      BY <3>1 DEF ResetEvents, RulesInv, TypeOK
    <3>4. \A h \in Group : winner'[h] # None => GroupOf[winner'[h].rule] = h
      BY <3>1, <3>2 DEF RulesInv
    <3> QED BY <3>1, <3>3, <3>4
  <2> QED BY <2>1, <2>2, <2>3
<1>7. TypeOK'
    BY <1>2, <1>3, <1>6 DEF RulesInv, TypeOK
<1> QED BY <1>2, <1>3, <1>5, <1>6, <1>7 DEF RulesInv

\* A step between turns, which begins a turn of its own or none.
LEMMA BeginRules ==
    ASSUME RulesInv, turn = <<>>, turn' \in Seq(Calls), \A i \in DOMAIN turn' : Fitting(i)',
           UNCHANGED <<listeners, watchers, resetTimer, winner>>, timers' \subseteq timers,
           now' \in 0 .. MaxTime, triggered' \in [Event -> BOOLEAN],
           holds' \in [Trigger -> BOOLEAN], occurred' \in [Event -> Nat],
           changes' \in 0 .. MaxChange
    PROVE  RulesInv'
<1>1. TypeOK'
    BY DEF RulesInv, TypeOK
<1>2. \A timer \in timers' : listeners'[timer.event] # <<>>
    BY DEF RulesInv, Registering
<1> QED BY <1>1, <1>2 DEF RulesInv

LEMMA OccurRules == ASSUME RulesInv, NEW e \in Event, Occur(e) PROVE RulesInv'
<1> DEFINE l == listeners[e]
<1>1. l \in Seq(Rule) /\ \A i \in DOMAIN l : l[i] \in Rule /\ e \in TriggerEvents(l[i])
    BY DEF RulesInv, TypeOK
<1>2. turn' = [i \in DOMAIN l |-> Call("raise", l[i], e, None)]
    BY DEF Occur
<1>3. \A i \in DOMAIN l : /\ turn'[i].do = "raise" /\ turn'[i].rule = l[i]
                          /\ turn'[i].event = e /\ turn'[i] \in Calls
    BY <1>1, <1>2, CallIs
<1>4. turn' \in Seq(Calls) /\ DOMAIN turn' = DOMAIN l
  <2>1. DOMAIN l = 1 .. Len(l) /\ Len(l) \in Nat
    BY <1>1
  <2>2. DOMAIN turn' = 1 .. Len(l) /\ turn' \in [1 .. Len(l) -> Calls]
    BY <1>2, <1>3, <2>1
  <2> QED BY <2>1, <2>2
<1>5. UNCHANGED <<now, listeners, watchers, triggered, resetTimer, timers, winner, holds, changes>>
    BY DEF Occur, store
<1>6. ASSUME NEW i \in DOMAIN turn' PROVE Fitting(i)'
  <2>1. listeners'[e] # <<>>
    BY <1>1, <1>4, <1>5, <1>6
  <2> QED BY <1>1, <1>3, <1>4, <1>6, <2>1 DEF Fitting
<1>7. occurred' \in [Event -> Nat]
    BY DEF Occur, RulesInv, TypeOK
<1>8. turn = <<>>
    BY DEF Occur
<1> HIDE DEF l
<1>9. /\ now' \in 0 .. MaxTime /\ triggered' \in [Event -> BOOLEAN]
      /\ holds' \in [Trigger -> BOOLEAN] /\ changes' \in 0 .. MaxChange
    BY <1>5 DEF RulesInv, TypeOK
<1> QED BY <1>4, <1>5, <1>6, <1>7, <1>8, <1>9, BeginRules

\* A turn of dispatches is fit to be made.
LEMMA DispatchesFit ==
    ASSUME \A i \in DOMAIN turn' : turn'[i].do = "dispatch"
    PROVE  \A i \in DOMAIN turn' : Fitting(i)'
BY DEF Fitting

LEMMA Quotient ==
    ASSUME NEW n \in Nat, NEW i \in 1 .. n * n
    PROVE  ((i - 1) \div n) + 1 \in 1 .. n
<1>1. n > 0 /\ n * n \in Nat /\ i - 1 \in Nat /\ i - 1 < n * n
    OBVIOUS
<1> DEFINE q == (i - 1) \div n
<1>2. q \in Int /\ i - 1 = n * q + ((i - 1) % n) /\ (i - 1) % n \in 0 .. n - 1
    BY <1>1
<1> HIDE DEF q
<1>3. q >= 0
    BY <1>1, <1>2
<1>4. ASSUME q >= n PROVE FALSE
    BY <1>1, <1>2, <1>4
<1> QED BY <1>1, <1>2, <1>3, <1>4 DEF q

\* What a change of the data tells: every watcher, as many times as there are watchers.
LEMMA Told ==
    ASSUME TypeOK, NEW t \in Trigger, Change(t)
    PROVE  /\ turn' \in Seq(Calls) /\ \A i \in DOMAIN turn' : turn'[i].do = "dispatch"
           /\ t \in Watched /\ watchers[t] # <<>> => turn' # <<>> /\ 1 \in DOMAIN turn'
<1> DEFINE w == watchers[t]
<1> DEFINE n == Len(w)
<1>1. w \in Seq(Rule) /\ n \in Nat /\ \A i \in 1 .. n : w[i] \in Rule
    BY DEF TypeOK
<1>2. turn' = IF t \in Watched
              THEN [i \in 1 .. n * n |-> Call("dispatch", w[((i - 1) \div n) + 1], None, None)]
              ELSE <<>>
    BY DEF Change
<1>3. w # <<>> => n > 0
    BY <1>1
<1> HIDE DEF w, n
<1>4. CASE t \in Watched
  <2>1. \A i \in 1 .. n * n : ((i - 1) \div n) + 1 \in 1 .. n
    BY <1>1, Quotient
  <2>2. \A i \in 1 .. n * n : w[((i - 1) \div n) + 1] \in Rule \cup {None}
    BY <1>1, <2>1
  <2>3. \A i \in 1 .. n * n : turn'[i].do = "dispatch" /\ turn'[i] \in Calls
    BY <1>2, <1>4, <2>2, CallIs
  <2>4. n * n \in Nat
    BY <1>1
  <2>5. turn' \in Seq(Calls) /\ DOMAIN turn' = 1 .. n * n
    BY <1>2, <1>4, <2>3, <2>4
  <2>6. ASSUME n > 0 PROVE 1 \in 1 .. n * n
    BY <1>1, <2>4, <2>6
  <2>7. ASSUME w # <<>> PROVE turn' # <<>> /\ 1 \in DOMAIN turn'
    <3>1. 1 \in DOMAIN turn'
      BY <1>3, <2>5, <2>6, <2>7
    <3>2. DOMAIN <<>> = {}
      OBVIOUS
    <3> QED BY <3>1, <3>2
  <2>8. \A i \in DOMAIN turn' : turn'[i].do = "dispatch"
    BY <2>3, <2>5
  <2> QED BY <2>5, <2>7, <2>8 DEF w
<1>5. CASE t \notin Watched
    BY <1>2, <1>5
<1> QED BY <1>4, <1>5

LEMMA ChangeRules == ASSUME RulesInv, NEW t \in Trigger, Change(t) PROVE RulesInv'
<1>1. turn' \in Seq(Calls) /\ \A i \in DOMAIN turn' : turn'[i].do = "dispatch"
    BY Told DEF RulesInv
<1>2. \A i \in DOMAIN turn' : Fitting(i)'
    BY <1>1, DispatchesFit
<1>3. /\ turn = <<>> /\ changes < MaxChange /\ changes' = changes + 1
      /\ holds' = [holds EXCEPT ![t] = ~@]
      /\ UNCHANGED <<now, listeners, watchers, triggered, resetTimer, timers, winner, occurred>>
    BY DEF Change, store
<1>4. /\ now' \in 0 .. MaxTime /\ triggered' \in [Event -> BOOLEAN]
      /\ occurred' \in [Event -> Nat]
    BY <1>3 DEF RulesInv, TypeOK
<1>5. changes' \in 0 .. MaxChange
  <2>1. changes \in 0 .. MaxChange /\ MaxChange \in Nat
    BY TimeAssumption DEF RulesInv, TypeOK
  <2> QED BY <1>3, <2>1
<1>6. holds' \in [Trigger -> BOOLEAN]
  <2>1. holds \in [Trigger -> BOOLEAN]
    BY DEF RulesInv, TypeOK
  <2> QED BY <1>3, <2>1
<1> QED BY <1>1, <1>2, <1>3, <1>4, <1>5, <1>6, BeginRules

LEMMA ExpireRules == ASSUME RulesInv, NEW timer \in timers, Expire(timer) PROVE RulesInv'
<1> DEFINE e == timer.event
<1> DEFINE n == Len(listeners[e])
<1>1. e \in Event /\ turn = <<>>
    BY DEF Expire, RulesInv, TypeOK, Timers
<1>2. listeners[e] # <<>> /\ listeners[e] \in Seq(Rule)
    BY <1>1 DEF RulesInv, TypeOK, Registering
<1>3. n \in Nat /\ listeners[e][n] \in Rule
    BY <1>2
<1>4. /\ turn' = Dispatch(listeners[e][n], n)
      /\ triggered' = [triggered EXCEPT ![e] = FALSE] /\ timers' = timers \ {timer}
      /\ UNCHANGED <<now, listeners, watchers, resetTimer, winner, holds, occurred, changes>>
    BY DEF Expire, page
<1> HIDE DEF e, n
<1>5. turn' \in Seq(Calls) /\ \A i \in DOMAIN turn' : turn'[i].do = "dispatch"
    BY <1>3, <1>4, Dispatches
<1>6. \A i \in DOMAIN turn' : Fitting(i)'
    BY <1>5, DispatchesFit
<1>7. triggered' \in [Event -> BOOLEAN] /\ timers' \subseteq timers
    BY <1>4 DEF RulesInv, TypeOK
<1>8. /\ now' \in 0 .. MaxTime /\ holds' \in [Trigger -> BOOLEAN]
      /\ occurred' \in [Event -> Nat] /\ changes' \in 0 .. MaxChange
    BY <1>4 DEF RulesInv, TypeOK
<1> QED BY <1>1, <1>4, <1>5, <1>6, <1>7, <1>8, BeginRules

LEMMA TickRules == ASSUME RulesInv, Tick PROVE RulesInv'
<1>1. /\ turn = <<>> /\ turn' = turn
      /\ UNCHANGED <<listeners, watchers, triggered, resetTimer, timers, winner,
                     holds, occurred, changes>>
    BY DEF Tick, store, page
<1>2. now' \in 0 .. MaxTime
  <2>1. now \in 0 .. MaxTime /\ MaxTime \in Nat
    BY TimeAssumption DEF RulesInv, TypeOK
  <2> QED BY <2>1 DEF Tick
<1>3. turn' \in Seq(Calls) /\ \A i \in DOMAIN turn' : Fitting(i)'
    BY <1>1 DEF RulesInv, TypeOK
<1>4. /\ timers' \subseteq timers /\ triggered' \in [Event -> BOOLEAN]
      /\ holds' \in [Trigger -> BOOLEAN] /\ occurred' \in [Event -> Nat]
      /\ changes' \in 0 .. MaxChange
    BY <1>1 DEF RulesInv, TypeOK
<1> QED BY <1>1, <1>2, <1>3, <1>4, BeginRules

-----------------------------------------------------------------------------
(* The rules' invariant.                                                   *)

\* The turn that loads a tag.
LEMMA InitTurn ==
    ASSUME Init
    PROVE  /\ turn \in Seq(Calls) /\ Len(turn) = Rules + 1 /\ DOMAIN turn = 1 .. Rules + 1
           /\ \A r \in Rule : turn[r].do = "configure" /\ turn[r].rule = r
           /\ turn[Rules + 1].do = "dispatch"
<1> DEFINE s == [r \in Rule |-> Call("configure", r, None, None)]
<1> DEFINE last == Call("dispatch", None, None, None)
<1>1. Rules \in Nat /\ Rule = 1 .. Rules
    BY RuleAssumption DEF Rule
<1>2. \A r \in Rule : s[r].do = "configure" /\ s[r].rule = r /\ s[r] \in Calls
    BY CallIs
<1>3. last.do = "dispatch" /\ last \in Calls
    BY CallIs
<1>4. s \in Seq(Calls) /\ Len(s) = Rules /\ DOMAIN s = Rule
    BY <1>1, <1>2
<1>5. turn = Append(s, last)
    BY DEF Init
<1> HIDE DEF s, last
<1>6. /\ turn \in Seq(Calls) /\ Len(turn) = Rules + 1 /\ DOMAIN turn = 1 .. Rules + 1
      /\ \A r \in 1 .. Rules : turn[r] = s[r] /\ turn[Rules + 1] = last
    BY <1>1, <1>3, <1>4, <1>5, AppendProperties
<1>7. turn[Rules + 1] = last
    BY <1>1, <1>3, <1>4, <1>5, AppendProperties
<1> QED BY <1>1, <1>2, <1>3, <1>6, <1>7

LEMMA InitRules == ASSUME Init PROVE RulesInv
<1>1. /\ turn \in Seq(Calls) /\ Len(turn) = Rules + 1 /\ DOMAIN turn = 1 .. Rules + 1
      /\ \A r \in Rule : turn[r].do = "configure" /\ turn[r].rule = r
      /\ turn[Rules + 1].do = "dispatch"
    BY InitTurn
<1>2. \A i \in DOMAIN turn : i \in Rule \/ i = Rules + 1
    BY <1>1, RuleAssumption DEF Rule
<1>3. \A i \in DOMAIN turn : Fitting(i)
    BY <1>1, <1>2 DEF Fitting
<1>4. TypeOK
    BY <1>1, TimeAssumption DEF Init, TypeOK
<1> QED BY <1>3, <1>4 DEF Init, RulesInv

LEMMA NextRules == ASSUME RulesInv, [Next]_vars PROVE RulesInv'
<1>1. CASE Turn
    BY <1>1, ConfigureRules, CreateRules, RegisterRules, RaiseRules, DispatchedRules,
       CheckGroupRules DEF Turn
<1>2. CASE \E e \in Event : Occur(e)
    BY <1>2, OccurRules
<1>3. CASE \E t \in Trigger : Change(t)
    BY <1>3, ChangeRules
<1>4. CASE \E timer \in timers : Expire(timer)
    BY <1>4, ExpireRules
<1>5. CASE Tick
    BY <1>5, TickRules
<1>6. CASE UNCHANGED vars
    BY <1>6 DEF vars, store, page, RulesInv, TypeOK, Fitting, Registering
<1> QED BY <1>1, <1>2, <1>3, <1>4, <1>5, <1>6 DEF Next

\* The turn only makes calls that have what they need, every timer is of an event that
\* somebody listens to or is about to, and a group applies rules of its own.
THEOREM RulesCorrect == Spec => []RulesInv
<1>1. Init => RulesInv
    BY InitRules
<1>2. RulesInv /\ [Next]_vars => RulesInv'
    BY NextRules
<1> QED BY <1>1, <1>2, PTL DEF Spec

-----------------------------------------------------------------------------
(* No check is missing.                                                    *)

\* The calls that are left, whatever their places.
LEMMA Left ==
    ASSUME TypeOK, turn # <<>>, NEW s \in Seq(Calls), turn' = s \o Tail(turn)
    PROVE  /\ \A i \in DOMAIN turn : i # 1 => \E j \in DOMAIN turn' : turn'[j] = turn[i]
           /\ \A i \in DOMAIN s : \E j \in DOMAIN turn' : turn'[j] = s[i]
<1>1. turn \in Seq(Calls) /\ \A i \in DOMAIN turn : i # 1 => i >= 2
    BY DEF TypeOK
<1>2. ASSUME NEW i \in DOMAIN turn, i # 1 PROVE \E j \in DOMAIN turn' : turn'[j] = turn[i]
  <2>1. Len(s) + i - 1 \in DOMAIN turn' /\ turn'[Len(s) + i - 1] = turn[i]
    BY <1>1, <1>2, Rest
  <2> QED BY <2>1
<1>3. \A i \in DOMAIN s : i \in DOMAIN turn' /\ turn'[i] = s[i]
    BY <1>1, Rest
<1> QED BY <1>2, <1>3

LEMMA KeepsWatching ==
    ASSUME TypeOK, turn # <<>>, NEW s \in Seq(Calls), turn' = s \o Tail(turn), NEW r,
           Watching(r), turn[1].do # "configure", watchers' = watchers
    PROVE  Watching(r)'
<1>1. CASE \E i \in DOMAIN watchers[TriggerOf[r]] : watchers[TriggerOf[r]][i] = r
    BY <1>1 DEF Watching
<1>2. CASE \E i \in DOMAIN turn : turn[i].do = "configure" /\ turn[i].rule = r
  <2>1. PICK i \in DOMAIN turn : turn[i].do = "configure" /\ turn[i].rule = r
    BY <1>2
  <2>2. PICK j \in DOMAIN turn' : turn'[j] = turn[i]
    BY <2>1, Left
  <2> QED BY <2>1, <2>2 DEF Watching
<1> QED BY <1>1, <1>2 DEF Watching

LEMMA KeepsChecked ==
    ASSUME TypeOK, turn # <<>>, NEW s \in Seq(Calls), turn' = s \o Tail(turn), NEW g,
           Checked(g), turn[1].do # "dispatch", turn[1].do = "check" => turn[1].group # g
    PROVE  Checked(g)'
<1>1. PICK i \in DOMAIN turn : turn[i].do = "dispatch" \/ (turn[i].do = "check" /\ turn[i].group = g)
    BY DEF Checked
<1>2. PICK j \in DOMAIN turn' : turn'[j] = turn[i]
    BY <1>1, Left
<1> QED BY <1>1, <1>2 DEF Checked

LEMMA PutsChecked ==
    ASSUME TypeOK, turn # <<>>, NEW s \in Seq(Calls), turn' = s \o Tail(turn), NEW g,
           NEW i \in DOMAIN s, s[i].do = "dispatch" \/ (s[i].do = "check" /\ s[i].group = g)
    PROVE  Checked(g)'
<1>1. PICK j \in DOMAIN turn' : turn'[j] = s[i]
    BY Left
<1> QED BY <1>1 DEF Checked

\* The turn that loads the tag ends with a check of everything.
LEMMA LoadingChecks ==
    ASSUME RulesInv, turn # <<>>, turn[1].do \in {"configure", "create", "register"},
           NEW s \in Seq(Calls), turn' = s \o Tail(turn), NEW g
    PROVE  Checked(g)'
<1>1. turn \in Seq(Calls) /\ 1 \in DOMAIN turn /\ Len(turn) \in DOMAIN turn /\ Fitting(1)
    BY DEF RulesInv, TypeOK
<1>2. turn[Len(turn)].do = "dispatch" /\ Len(turn) # 1
    BY <1>1 DEF Fitting
<1>3. PICK j \in DOMAIN turn' : turn'[j] = turn[Len(turn)]
    BY <1>1, <1>2, Left DEF RulesInv
<1> QED BY <1>2, <1>3 DEF Checked

\* Where every group is checked and the watchers are as they were.
LEMMA AllChecked ==
    ASSUME RulesInv, MissedInv, \A r \in Rule : Watching(r)', \A g \in Group : Checked(g)'
    PROVE  MissedInv'
<1>1. \A r \in Rule : GroupOf[r] \in Group
    BY EventsAre
<1> QED BY <1>1 DEF MissedInv

LEMMA ConfigureMissed == ASSUME RulesInv, MissedInv, Configure PROVE MissedInv'
<1> DEFINE q == turn[1].rule
<1>1. /\ turn # <<>> /\ Head(turn) = turn[1] /\ turn[1].do = "configure" /\ Fitting(1)
    BY HeadIs DEF Configure
<1>2. q \in Rule
    BY <1>1 DEF Fitting
<1>3. turn' = Setup(q) \o Tail(turn) /\ Setup(q) \in Seq(Calls)
  <2>1. turn' = Setup(q) \o Tail(turn)
    BY <1>1 DEF Configure, Setup
  <2> QED BY <1>2, <2>1, Setups
<1>4. \A g : Checked(g)'
    BY <1>1, <1>3, LoadingChecks
<1>5. watchers' = [watchers EXCEPT ![TriggerOf[q]] = Append(@, q)]
    BY <1>1 DEF Configure
<1> HIDE DEF q
<1>6. ASSUME NEW r \in Rule PROVE Watching(r)'
  <2>1. /\ watchers \in [Trigger -> Seq(Rule)] /\ TriggerOf[r] \in Trigger
        /\ TriggerOf[q] \in Trigger
    BY <1>2, EventsAre DEF RulesInv, TypeOK
  <2>2. CASE \E i \in DOMAIN watchers[TriggerOf[r]] : watchers[TriggerOf[r]][i] = r
    <3>1. PICK i \in DOMAIN watchers[TriggerOf[r]] : watchers[TriggerOf[r]][i] = r
      BY <2>2
    <3>2. i \in DOMAIN watchers'[TriggerOf[r]] /\ watchers'[TriggerOf[r]][i] = r
      BY <1>2, <1>5, <2>1, <3>1
    <3> QED BY <3>2 DEF Watching
  <2>3. CASE r = q
    <3>1. watchers'[TriggerOf[q]] = Append(watchers[TriggerOf[q]], q)
      BY <1>5, <2>1
    <3>2. watchers[TriggerOf[q]] \in Seq(Rule)
      BY <2>1
    <3>3. /\ Len(watchers[TriggerOf[q]]) + 1 \in DOMAIN watchers'[TriggerOf[q]]
          /\ watchers'[TriggerOf[q]][Len(watchers[TriggerOf[q]]) + 1] = q
      BY <1>2, <3>1, <3>2
    <3> QED BY <2>3, <3>3 DEF Watching
  <2>4. CASE r # q /\ \E i \in DOMAIN turn : turn[i].do = "configure" /\ turn[i].rule = r
    <3>1. PICK i \in DOMAIN turn : turn[i].do = "configure" /\ turn[i].rule = r
      BY <2>4
    <3>2. i # 1
      BY <2>4, <3>1 DEF q
    <3>3. PICK j \in DOMAIN turn' : turn'[j] = turn[i]
      BY <1>1, <1>3, <3>2, Left DEF RulesInv
    <3> QED BY <3>1, <3>3 DEF Watching
  <2> QED BY <2>2, <2>3, <2>4 DEF MissedInv, Watching
<1> QED BY <1>4, <1>6, AllChecked

LEMMA CreateMissed == ASSUME RulesInv, MissedInv, Create PROVE MissedInv'
<1>1. /\ turn # <<>> /\ Head(turn) = turn[1] /\ turn[1].do = "create" /\ Fitting(1)
      /\ turn' = Tail(turn) => turn' = <<>> \o Tail(turn)
    BY HeadIs DEF Create
<1>2. turn[1].rule \in Rule /\ turn[1].event \in Event
    BY <1>1, EventsAre DEF Fitting
<1>3. watchers' = watchers
    BY DEF Create
<1>4. \E s \in Seq(Calls) : turn' = s \o Tail(turn)
  <2>1. CASE turn' = Tail(turn)
    <3>1. <<>> \in Seq(Calls)
      OBVIOUS
    <3> QED BY <1>1, <2>1, <3>1
  <2>2. CASE Fire(turn[1].rule, turn[1].event, "create")
    BY <1>2, <2>2, Fires DEF RulesInv
  <2> QED BY <1>1, <2>1, <2>2 DEF Create
<1>5. PICK s \in Seq(Calls) : turn' = s \o Tail(turn)
    BY <1>4
<1>6. \A g : Checked(g)'
    BY <1>1, <1>5, LoadingChecks
<1>7. \A r \in Rule : Watching(r)'
    BY <1>1, <1>3, <1>5, KeepsWatching DEF RulesInv, MissedInv
<1> QED BY <1>6, <1>7, AllChecked

LEMMA RegisterMissed == ASSUME RulesInv, MissedInv, Register PROVE MissedInv'
<1>1. /\ turn # <<>> /\ turn[1].do = "register" /\ turn' = <<>> \o Tail(turn)
      /\ <<>> \in Seq(Calls) /\ watchers' = watchers
    BY HeadIs DEF Register
<1>2. \A g : Checked(g)'
    BY <1>1, LoadingChecks
<1>3. \A r \in Rule : Watching(r)'
    BY <1>1, KeepsWatching DEF RulesInv, MissedInv
<1> QED BY <1>2, <1>3, AllChecked

LEMMA RaiseMissed == ASSUME RulesInv, MissedInv, Raise PROVE MissedInv'
<1> DEFINE q == turn[1].rule
<1> DEFINE e == turn[1].event
<1> DEFINE s == Dispatch(q, Len(listeners[e]))
<1>1. /\ turn # <<>> /\ Head(turn) = turn[1] /\ turn[1].do = "raise" /\ Fitting(1)
    BY HeadIs DEF Raise
<1>2. q \in Rule /\ e \in Event /\ listeners[e] # <<>> /\ listeners[e] \in Seq(Rule)
    BY <1>1, EventsAre DEF Fitting, RulesInv, TypeOK
<1>3. s \in Seq(Calls) /\ turn' = s \o Tail(turn) /\ watchers' = watchers
    BY <1>1, <1>2, Fires DEF Raise, RulesInv
<1>4. 1 \in DOMAIN s /\ s[1].do = "dispatch"
    BY <1>2, Dispatches
<1> HIDE DEF q, e, s
<1>5. \A g : Checked(g)'
    BY <1>1, <1>3, <1>4, PutsChecked DEF RulesInv
<1>6. \A r \in Rule : Watching(r)'
    BY <1>1, <1>3, KeepsWatching DEF RulesInv, MissedInv
<1> QED BY <1>5, <1>6, AllChecked

LEMMA DispatchedMissed == ASSUME RulesInv, MissedInv, Dispatched PROVE MissedInv'
<1> DEFINE s == Check(Head(turn).rule)
<1>1. /\ turn # <<>> /\ Head(turn) = turn[1] /\ turn[1].do = "dispatch" /\ turn[1] \in Calls
    BY HeadIs DEF Dispatched
<1>2. Head(turn).rule \in Rule \cup {None}
    BY <1>1 DEF Calls
<1>3. turn' = s \o Tail(turn) /\ watchers' = watchers
    BY DEF Dispatched
<1>4. s \in Seq(Calls) /\ DOMAIN s = Group /\ \A g \in Group : s[g].do = "check" /\ s[g].group = g
    BY <1>2, Checks
<1> HIDE DEF s
<1>5. \A g \in Group : Checked(g)'
    BY <1>1, <1>3, <1>4, PutsChecked DEF RulesInv
<1>6. \A r \in Rule : Watching(r)'
    BY <1>1, <1>3, <1>4, KeepsWatching DEF RulesInv, MissedInv
<1> QED BY <1>5, <1>6, AllChecked

\* Where nothing is triggered that was not, a rule that passes passed before.
LEMMA PassesStill ==
    ASSUME NEW r, Passes(r)', holds'[TriggerOf[r]] = holds[TriggerOf[r]],
           \A e \in Event : triggered'[e] => triggered[e], TriggerEvents(r) \subseteq Event
    PROVE  Passes(r)
BY DEF Passes, TriggerEvents

LEMMA CheckGroupMissed == ASSUME RulesInv, MissedInv, CheckGroup PROVE MissedInv'
<1>1. /\ turn # <<>> /\ turn[1].do = "check" /\ turn' = <<>> \o Tail(turn)
      /\ <<>> \in Seq(Calls) /\ watchers' = watchers /\ holds' = holds
    BY HeadIs DEF CheckGroup, page
<1>2. \A r \in Rule : Watching(r)'
    BY <1>1, KeepsWatching DEF RulesInv, MissedInv
<1>3. PICK g \in Group, ruleId \in Rule \cup {None} :
             /\ turn[1].do = "check" /\ turn[1].group = g
             /\ \/ Candidates(g, ruleId) = {} /\ UNCHANGED <<triggered, winner>>
                \/ \E r \in Candidates(g, ruleId) :
                     /\ r \in Rule /\ GroupOf[r] = g /\ Passes(r)
                     /\ ResetEvents(r)
                     /\ \A h \in Group : h # g => winner'[h] = winner[h]
                     /\ winner'[g] = [rule |-> r, ts |-> now,
                                      index |-> IF winner[g] = None THEN 0
                                                ELSE winner[g].index + 1]
                     /\ winner' \in [Group -> Status \cup {None}]
    BY Applies
<1>4. \A e \in Event : triggered'[e] => triggered[e]
    BY <1>3 DEF ResetEvents
<1>5. ASSUME NEW r \in Rule, winner'[GroupOf[r]] = None, TriggerOf[r] \in Watched, Passes(r)'
      PROVE  Checked(GroupOf[r])'
  <2>1. GroupOf[r] \in Group /\ TriggerEvents(r) \subseteq Event
    BY EventsAre
  <2>2. Passes(r)
    BY <1>1, <1>4, <1>5, <2>1, PassesStill
  <2>3. CASE GroupOf[r] = g
    <3>1. Candidates(g, ruleId) = {} /\ UNCHANGED <<triggered, winner>>
      <4>1. ASSUME NEW c \in Rule, winner'[g] = [rule |-> c, ts |-> now,
                                      index |-> IF winner[g] = None THEN 0
                                                ELSE winner[g].index + 1],
                   winner' \in [Group -> Status \cup {None}],
                   Passes(c), GroupOf[c] = g
            PROVE  winner'[g] # None
        <5>1. winner[g] = None \/ winner[g].index \in Nat
          BY <1>3 DEF RulesInv, TypeOK, Status
        <5>2. winner'[g] \in Status
          BY <4>1, <5>1 DEF Status, RulesInv, TypeOK
        <5> QED BY <5>2, NoneAssumption
      <4> QED BY <1>3, <1>5, <2>3, <4>1
    <3>2. winner[g] = None
      BY <1>5, <2>3, <3>1
    <3> QED BY <2>2, <2>3, <3>1, <3>2 DEF Candidates
  <2>4. CASE GroupOf[r] # g
    <3>1. winner[GroupOf[r]] = None
      BY <1>3, <1>5, <2>1, <2>4
    <3>2. Checked(GroupOf[r])
      BY <1>5, <2>2, <3>1 DEF MissedInv
    <3> QED BY <1>1, <1>3, <2>4, <3>2, KeepsChecked DEF RulesInv
  <2> QED BY <2>3, <2>4
<1> QED BY <1>2, <1>5 DEF MissedInv

\* Between turns no check is pending, so no rule of a waiting group passes.
LEMMA NoneWaits ==
    ASSUME MissedInv, turn = <<>>
    PROVE  \A r \in Rule :
             /\ \E i \in DOMAIN watchers[TriggerOf[r]] : watchers[TriggerOf[r]][i] = r
             /\ winner[GroupOf[r]] = None /\ TriggerOf[r] \in Watched => ~Passes(r)
BY DEF MissedInv, Watching, Checked

LEMMA BetweenMissed ==
    ASSUME RulesInv, MissedInv, turn = <<>>, UNCHANGED <<watchers, winner, holds>>,
           \A e \in Event : triggered'[e] => triggered[e]
    PROVE  MissedInv'
<1>1. \A r \in Rule : TriggerEvents(r) \subseteq Event
    BY EventsAre
<1>2. \A r \in Rule : Watching(r)'
    BY NoneWaits DEF Watching
<1>3. \A r \in Rule : Passes(r)' => Passes(r)
    BY <1>1, PassesStill
<1> QED BY <1>2, <1>3, NoneWaits DEF MissedInv

LEMMA ChangeMissed == ASSUME RulesInv, MissedInv, NEW t \in Trigger, Change(t) PROVE MissedInv'
<1>1. turn = <<>> /\ UNCHANGED <<watchers, winner, triggered>> /\ holds' = [holds EXCEPT ![t] = ~@]
    BY DEF Change, store
<1>2. \A r \in Rule : Watching(r)'
    BY <1>1, NoneWaits DEF Watching
<1>3. ASSUME NEW r \in Rule, winner'[GroupOf[r]] = None, TriggerOf[r] \in Watched, Passes(r)'
      PROVE  Checked(GroupOf[r])'
  <2>1. CASE TriggerOf[r] = t
    <3>1. watchers[t] # <<>>
      BY <1>1, <2>1, NoneWaits
    <3>2. 1 \in DOMAIN turn' /\ turn'[1].do = "dispatch"
      BY <1>3, <2>1, <3>1, Told DEF RulesInv
    <3> QED BY <3>2 DEF Checked
  <2>2. CASE TriggerOf[r] # t
    <3>1. holds'[TriggerOf[r]] = holds[TriggerOf[r]] /\ TriggerEvents(r) \subseteq Event
      BY <1>1, <2>2, EventsAre DEF RulesInv, TypeOK
    <3>2. Passes(r)
      BY <1>1, <1>3, <3>1, PassesStill
    <3> QED BY <1>1, <1>3, <3>2, NoneWaits
  <2> QED BY <2>1, <2>2
<1> QED BY <1>2, <1>3 DEF MissedInv

LEMMA InitMissed == ASSUME Init PROVE MissedInv
<1>1. /\ DOMAIN turn = 1 .. Rules + 1 /\ turn[Rules + 1].do = "dispatch"
      /\ \A r \in Rule : turn[r].do = "configure" /\ turn[r].rule = r
    BY InitTurn
<1>2. Rules \in Nat
    BY RuleAssumption
<1> QED BY <1>1, <1>2 DEF MissedInv, Watching, Checked, Rule

LEMMA NextMissed == ASSUME RulesInv, MissedInv, [Next]_vars PROVE MissedInv'
<1>1. CASE Turn
    BY <1>1, ConfigureMissed, CreateMissed, RegisterMissed, RaiseMissed, DispatchedMissed,
       CheckGroupMissed DEF Turn
<1>2. CASE \E e \in Event : Occur(e)
    BY <1>2, BetweenMissed DEF Occur, store
<1>3. CASE \E t \in Trigger : Change(t)
    BY <1>3, ChangeMissed
<1>4. CASE \E timer \in timers : Expire(timer)
  <2>1. PICK timer \in timers : Expire(timer)
    BY <1>4
  <2>2. \A e \in Event : triggered'[e] => triggered[e]
    BY <2>1 DEF Expire, RulesInv, TypeOK
  <2> QED BY <2>1, <2>2, BetweenMissed DEF Expire, page
<1>5. CASE Tick
    BY <1>5, BetweenMissed DEF Tick, store, page
<1>6. CASE UNCHANGED vars
    BY <1>6 DEF vars, store, page, MissedInv, Watching, Checked, Passes
<1> QED BY <1>1, <1>2, <1>3, <1>4, <1>5, <1>6 DEF Next

\* When a turn is over, no rule of a group that waits for its first one passes, as far as
\* the data the rule depends on announce their changes.
THEOREM NothingIsMissed == Spec => []NothingMissed
<1>1. Init => MissedInv
    BY InitMissed
<1>2. RulesInv /\ MissedInv /\ [Next]_vars => MissedInv'
    BY NextMissed
<1>3. MissedInv => NothingMissed
    BY NoneWaits DEF NothingMissed
<1> QED BY <1>1, <1>2, <1>3, RulesCorrect, PTL DEF Spec

-----------------------------------------------------------------------------
(* Events of one rule.                                                     *)

\* An event belongs to one trigger, so the rules that use it share it.
LEMMA OneTrigger ==
    ASSUME NEW r \in Rule, NEW o \in Rule, NEW e, e \in TriggerEvents(r), e \in TriggerEvents(o)
    PROVE  /\ TriggerOf[r] = TriggerOf[o]
           /\ OwnEvent(e) => r = o
           /\ Unshared(TriggerOf[r]) => OwnEvent(e)
<1>1. ASSUME NEW p \in Rule, NEW q \in Rule, e \in TriggerEvents(p), e \in TriggerEvents(q)
      PROVE  TriggerOf[p] = TriggerOf[q]
  <2>1. PICK i \in DOMAIN EventsOf[TriggerOf[p]] : EventsOf[TriggerOf[p]][i] = e
    BY <1>1 DEF TriggerEvents
  <2>2. PICK j \in DOMAIN EventsOf[TriggerOf[q]] : EventsOf[TriggerOf[q]][j] = e
    BY <1>1 DEF TriggerEvents
  <2>3. TriggerOf[p] \in Trigger /\ TriggerOf[q] \in Trigger
    BY EventsAre
  <2> QED BY <2>1, <2>2, <2>3, RuleAssumption
<1>2. TriggerOf[r] = TriggerOf[o]
    BY <1>1
<1>3. OwnEvent(e) => r = o
    BY <1>2 DEF OwnEvent, Unshared
<1>4. Unshared(TriggerOf[r]) => OwnEvent(e)
    BY <1>1 DEF OwnEvent
<1> QED BY <1>2, <1>3, <1>4

\* The calls a step adds that neither register an event nor raise it leave it heard once.
LEMMA KeepsHeard ==
    ASSUME TypeOK, turn # <<>>, NEW s \in Seq(Calls), turn' = s \o Tail(turn), NEW e,
           \A i \in DOMAIN s : ~Registers(s[i], e) /\ ~Raises(s[i], e),
           listeners'[e] = listeners[e], HeardOnce(e)
    PROVE  HeardOnce(e)'
<1> DEFINE n == Len(s)
<1>1. /\ turn \in Seq(Calls) /\ n \in Nat
      /\ \A i \in DOMAIN turn' :
            \/ i \in DOMAIN s /\ turn'[i] = s[i]
            \/ i - n + 1 \in DOMAIN turn /\ i - n + 1 >= 2 /\ turn'[i] = turn[i - n + 1]
      /\ DOMAIN turn' \subseteq Int
    BY Rest DEF TypeOK
<1> HIDE DEF n
<1>2. ASSUME NEW i \in DOMAIN turn', Registers(turn'[i], e) \/ Raises(turn'[i], e)
      PROVE  i \in Int /\ i - n + 1 \in DOMAIN turn /\ turn'[i] = turn[i - n + 1]
    BY <1>1, <1>2
<1>3. ASSUME NEW i \in DOMAIN turn', NEW j \in DOMAIN turn',
             \/ Registers(turn'[i], e) /\ Registers(turn'[j], e)
             \/ Raises(turn'[i], e) /\ Raises(turn'[j], e)
      PROVE  i = j
  <2>1. i - n + 1 = j - n + 1
    BY <1>2, <1>3 DEF HeardOnce
  <2> QED BY <1>1, <1>2, <1>3, <2>1
<1>4. ASSUME NEW i \in DOMAIN turn', Registers(turn'[i], e) PROVE listeners'[e] = <<>>
    BY <1>2, <1>4 DEF HeardOnce
<1> QED BY <1>3, <1>4 DEF HeardOnce, Registers, Raises

\* Where the step leaves the head's event alone.
LEMMA NothingPut ==
    ASSUME TypeOK, turn # <<>>, turn' = <<>> \o Tail(turn), NEW e, listeners'[e] = listeners[e],
           HeardOnce(e)
    PROVE  HeardOnce(e)'
<1>1. <<>> \in Seq(Calls) /\ \A i \in DOMAIN <<>> : ~Registers(<<>>[i], e) /\ ~Raises(<<>>[i], e)
    OBVIOUS
<1> QED BY <1>1, KeepsHeard

LEMMA ConfigureHeard ==
    ASSUME RulesInv, Configure, NEW e \in Event, OwnEvent(e), HeardOnce(e)
    PROVE  HeardOnce(e)'
<1> DEFINE q == turn[1].rule
<1> DEFINE s == Setup(q)
<1> DEFINE n == Len(s)
<1>1. /\ turn # <<>> /\ Head(turn) = turn[1] /\ turn[1].do = "configure" /\ Fitting(1)
      /\ 1 \in DOMAIN turn /\ turn \in Seq(Calls)
    BY HeadIs DEF Configure
<1>2. q \in Rule
    BY <1>1 DEF Fitting
<1>3. turn' = s \o Tail(turn) /\ listeners' = listeners
    BY <1>1 DEF Configure, Setup
<1>4. /\ s \in Seq(Calls)
      /\ \A i \in DOMAIN s : s[i].do \in {"create", "register"} /\ s[i].event \in TriggerEvents(q)
      /\ \A i, j \in DOMAIN s : /\ s[i].do = "register" /\ s[j].do = "register"
                               /\ s[i].event = s[j].event
                               => i = j
    BY <1>2, Setups
<1>5. Registers(turn[1], e) <=> e \in TriggerEvents(q)
    BY <1>1 DEF Registers
<1> HIDE DEF q, s
<1>6. CASE e \notin TriggerEvents(q)
  <2>1. \A i \in DOMAIN s : ~Registers(s[i], e) /\ ~Raises(s[i], e)
    BY <1>4, <1>6 DEF Registers, Raises
  <2> QED BY <1>1, <1>3, <1>4, <2>1, KeepsHeard DEF RulesInv
<1>7. CASE e \in TriggerEvents(q)
  <2>1. \A i \in DOMAIN turn : Registers(turn[i], e) => i = 1
    BY <1>1, <1>5, <1>7 DEF HeardOnce
  <2>2. listeners[e] = <<>>
    BY <1>1, <1>5, <1>7 DEF HeardOnce
  <2>3. /\ \A i \in DOMAIN turn' :
              \/ i \in DOMAIN s /\ turn'[i] = s[i]
              \/ i - n + 1 \in DOMAIN turn /\ i - n + 1 >= 2 /\ turn'[i] = turn[i - n + 1]
        /\ n \in Nat /\ DOMAIN turn' \subseteq Int
    BY <1>1, <1>3, <1>4, Rest
  <2> HIDE DEF n
  <2>4. ASSUME NEW i \in DOMAIN turn', NEW j \in DOMAIN turn',
               Registers(turn'[i], e), Registers(turn'[j], e)
        PROVE  i = j
    <3>1. i \in DOMAIN s /\ turn'[i] = s[i] /\ j \in DOMAIN s /\ turn'[j] = s[j]
      BY <2>1, <2>3, <2>4
    <3>2. s[i].do = "register" /\ s[j].do = "register" /\ s[i].event = e /\ s[j].event = e
      BY <1>4, <2>4, <3>1 DEF Registers
    <3> QED BY <1>4, <3>1, <3>2
  <2>5. ASSUME NEW i \in DOMAIN turn', NEW j \in DOMAIN turn',
               Raises(turn'[i], e), Raises(turn'[j], e)
        PROVE  i = j
    <3>1. \A k \in DOMAIN s : ~Raises(s[k], e)
      BY <1>4 DEF Raises
    <3>2. /\ i - n + 1 \in DOMAIN turn /\ turn'[i] = turn[i - n + 1]
          /\ j - n + 1 \in DOMAIN turn /\ turn'[j] = turn[j - n + 1]
      BY <2>3, <2>5, <3>1
    <3>3. i - n + 1 = j - n + 1
      BY <2>5, <3>2 DEF HeardOnce
    <3> QED BY <2>3, <3>3
  <2> QED BY <1>3, <2>2, <2>4, <2>5 DEF HeardOnce, Registers, Raises
<1> QED BY <1>6, <1>7

\* A firing event restarts its own timer and no other.
LEMMA FireTimers ==
    ASSUME TypeOK, NEW r \in Rule, NEW e \in Event, NEW from \in {"create", "register", "raise"},
           Fire(r, e, from)
    PROVE  /\ \A x \in Event : x # e => resetTimer'[x] = resetTimer[x]
           /\ \A timer \in timers' : timer \in timers \/ timer.event = e
           /\ listeners[e] # <<>> => \A timer \in timers' :
                  timer = resetTimer'[e] \/ (timer \in timers /\ timer # resetTimer[e])
           /\ \A x \in Event : triggered'[x] <=> triggered[x] \/ x = e
<1> DEFINE timer == ClearTimer(r, e, from)
<1>1. SetResetTimer(e, timer) /\ triggered' = [triggered EXCEPT ![e] = TRUE]
    BY DEF Fire
<1> HIDE DEF timer
<1>2. \A x \in timers' : x \in timers \/ x.event = e
    BY Fires
<1>3. \A x \in Event : x # e => resetTimer'[x] = resetTimer[x]
    BY <1>1 DEF SetResetTimer, TypeOK
<1>4. ASSUME listeners[e] # <<>>
      PROVE  \A x \in timers' : x = resetTimer'[e] \/ (x \in timers /\ x # resetTimer[e])
  <2>1. /\ timers' = (timers \ {resetTimer[e]}) \cup ({timer} \ {None})
        /\ resetTimer'[e] = timer
    BY <1>1, <1>4 DEF SetResetTimer, TypeOK
  <2> QED BY <2>1
<1>5. \A x \in Event : triggered'[x] <=> triggered[x] \/ x = e
    BY <1>1 DEF TypeOK
<1> QED BY <1>2, <1>3, <1>4, <1>5

LEMMA DispatchesPut ==
    ASSUME NEW r \in Rule \cup {None}, NEW n \in Nat, NEW e
    PROVE  /\ Dispatch(r, n) \in Seq(Calls)
           /\ \A i \in DOMAIN Dispatch(r, n) :
                ~Registers(Dispatch(r, n)[i], e) /\ ~Raises(Dispatch(r, n)[i], e)
<1> DEFINE s == Dispatch(r, n)
<1>1. s \in Seq(Calls) /\ \A i \in DOMAIN s : s[i].do = "dispatch"
    BY Dispatches
<1> HIDE DEF s
<1>2. \A i \in DOMAIN s : ~Registers(s[i], e) /\ ~Raises(s[i], e)
    BY <1>1 DEF Registers, Raises
<1> QED BY <1>1, <1>2 DEF s

LEMMA CreateOwn ==
    ASSUME RulesInv, OwnInv, Create, NEW e \in Event, OwnEvent(e)
    PROVE  HeardOnce(e)' /\ (e \notin Immediate => OneTimer(e)')
<1> DEFINE q == turn[1].rule
<1> DEFINE x == turn[1].event
<1>1. /\ turn # <<>> /\ Head(turn) = turn[1] /\ turn[1].do = "create" /\ Fitting(1)
      /\ turn' = Tail(turn) => turn' = <<>> \o Tail(turn)
    BY HeadIs DEF Create
<1>2. q \in Rule /\ x \in Event
    BY <1>1, EventsAre DEF Fitting
<1>3. listeners' = listeners /\ HeardOnce(e) /\ TypeOK
    BY DEF Create, OwnInv, RulesInv
<1>4. CASE x \in Immediate
  <2> DEFINE s == Dispatch(q, Len(listeners[x]))
  <2>1. Fire(q, x, "create")
    BY <1>1, <1>4 DEF Create
  <2>2. Len(listeners[x]) \in Nat
    BY <1>2 DEF RulesInv, TypeOK
  <2>3. /\ s \in Seq(Calls) /\ turn' = s \o Tail(turn)
        /\ \A i \in DOMAIN s : ~Registers(s[i], e) /\ ~Raises(s[i], e)
    BY <1>2, <2>1, <2>2, DispatchesPut DEF Fire
  <2> HIDE DEF s, q, x
  <2>4. HeardOnce(e)'
    BY <1>1, <1>3, <2>3, KeepsHeard
  <2>5. ASSUME e \notin Immediate PROVE OneTimer(e)'
    <3>1. resetTimer'[e] = resetTimer[e]
      BY <1>2, <1>3, <1>4, <2>1, <2>5, FireTimers
    <3>2. \A timer \in timers' : timer \in timers \/ timer.event = x
      BY <1>2, <1>3, <2>1, FireTimers
    <3> QED BY <1>3, <1>4, <2>5, <3>1, <3>2 DEF OwnInv, OneTimer
  <2> QED BY <2>4, <2>5
<1>5. CASE x \notin Immediate
  <2>1. turn' = <<>> \o Tail(turn) /\ UNCHANGED <<resetTimer, timers>>
    BY <1>1, <1>5 DEF Create, store
  <2>2. HeardOnce(e)'
    BY <1>1, <1>3, <2>1, NothingPut
  <2> QED BY <1>3, <2>1, <2>2 DEF OwnInv, OneTimer
<1> QED BY <1>4, <1>5

LEMMA RegisterOwn ==
    ASSUME RulesInv, OwnInv, Register, NEW e \in Event, OwnEvent(e)
    PROVE  HeardOnce(e)' /\ (e \notin Immediate => OneTimer(e)')
<1> DEFINE q == turn[1].rule
<1> DEFINE x == turn[1].event
<1> DEFINE timer == ClearTimer(q, x, "register")
<1>1. /\ turn # <<>> /\ Head(turn) = turn[1] /\ turn[1].do = "register" /\ Fitting(1)
      /\ turn' = <<>> \o Tail(turn) /\ 1 \in DOMAIN turn /\ turn \in Seq(Calls)
    BY HeadIs DEF Register
<1>2. q \in Rule /\ x \in Event
    BY <1>1, EventsAre DEF Fitting
<1>3. /\ resetTimer' = [resetTimer EXCEPT ![x] = timer]
      /\ timers' = timers \cup ({timer} \ {None})
      /\ listeners' = [listeners EXCEPT ![x] = Append(@, q)]
    BY <1>1 DEF Register
<1>4. timer # None => timer.event = x
    BY DEF ClearTimer
<1>5. HeardOnce(e) /\ TypeOK /\ (e \notin Immediate => OneTimer(e))
    BY DEF OwnInv, RulesInv
<1>6. Registers(turn[1], x)
    BY <1>1 DEF Registers
<1> HIDE DEF q, x, timer
<1>7. CASE x # e
  <2>1. listeners'[e] = listeners[e] /\ resetTimer'[e] = resetTimer[e]
    BY <1>2, <1>3, <1>5, <1>7 DEF TypeOK
  <2>2. HeardOnce(e)'
    BY <1>1, <1>5, <2>1, NothingPut
  <2>3. e \notin Immediate => OneTimer(e)'
    BY <1>3, <1>4, <1>5, <1>7, <2>1 DEF OneTimer
  <2> QED BY <2>2, <2>3
<1>8. CASE x = e
  <2>1. listeners[e] = <<>> /\ \A i \in DOMAIN turn : Registers(turn[i], e) => i = 1
    BY <1>1, <1>5, <1>6, <1>8 DEF HeardOnce
  <2>2. listeners'[e] = <<q>> /\ resetTimer'[e] = timer
    BY <1>2, <1>3, <1>5, <1>8, <2>1 DEF TypeOK
  <2>3. Len(listeners'[e]) <= 1 /\ listeners'[e] # <<>>
    BY <2>2
  <2>4. /\ \A i \in DOMAIN turn' : /\ i + 1 \in DOMAIN turn /\ i + 1 # 1 /\ i \in Int
                                  /\ turn'[i] = turn[i + 1]
    <3>1. turn' = Tail(turn)
      BY <1>1
    <3> QED BY <1>1, <3>1
  <2>5. HeardOnce(e)'
    <3>1. \A i \in DOMAIN turn' : ~Registers(turn'[i], e)
      BY <2>1, <2>4
    <3>2. ASSUME NEW i \in DOMAIN turn', NEW j \in DOMAIN turn',
                 Raises(turn'[i], e), Raises(turn'[j], e)
          PROVE  i = j
      <4>1. i + 1 = j + 1
        BY <1>5, <2>4, <3>2 DEF HeardOnce
      <4> QED BY <2>4, <4>1
    <3> QED BY <2>3, <3>1, <3>2 DEF HeardOnce, Registers, Raises
  <2>6. e \notin Immediate => OneTimer(e)'
    BY <1>3, <1>5, <2>1, <2>2, <2>3 DEF OneTimer
  <2> QED BY <2>5, <2>6
<1> QED BY <1>7, <1>8

LEMMA RaiseOwn ==
    ASSUME RulesInv, OwnInv, Raise, NEW e \in Event, OwnEvent(e)
    PROVE  HeardOnce(e)' /\ (e \notin Immediate => OneTimer(e)')
<1> DEFINE q == turn[1].rule
<1> DEFINE x == turn[1].event
<1> DEFINE s == Dispatch(q, Len(listeners[x]))
<1>1. /\ turn # <<>> /\ Head(turn) = turn[1] /\ turn[1].do = "raise" /\ Fitting(1)
    BY HeadIs DEF Raise
<1>2. q \in Rule /\ x \in Event /\ listeners[x] # <<>>
    BY <1>1, EventsAre DEF Fitting
<1>3. /\ listeners' = listeners /\ HeardOnce(e) /\ TypeOK
      /\ (e \notin Immediate => OneTimer(e))
    BY DEF Raise, OwnInv, RulesInv
<1>4. Fire(q, x, "raise")
    BY <1>1 DEF Raise
<1>5. Len(listeners[x]) \in Nat
    BY <1>2, <1>3 DEF TypeOK
<1>6. /\ s \in Seq(Calls) /\ turn' = s \o Tail(turn)
      /\ \A i \in DOMAIN s : ~Registers(s[i], e) /\ ~Raises(s[i], e)
    BY <1>2, <1>4, <1>5, DispatchesPut DEF Fire
<1> HIDE DEF s, q, x
<1>7. HeardOnce(e)'
    BY <1>1, <1>3, <1>6, KeepsHeard
<1>8. ASSUME e \notin Immediate, NEW timer \in timers', timer.event = e
      PROVE  listeners'[e] # <<>> /\ resetTimer'[e] = timer
  <2>1. CASE x = e
    <3>1. timer = resetTimer'[e] \/ (timer \in timers /\ timer # resetTimer[e])
      BY <1>2, <1>3, <1>4, <1>8, <2>1, FireTimers
    <3> QED BY <1>2, <1>3, <1>8, <2>1, <3>1 DEF OneTimer
  <2>2. CASE x # e
    <3>1. resetTimer'[e] = resetTimer[e] /\ timer \in timers
      BY <1>2, <1>3, <1>4, <1>8, <2>2, FireTimers
    <3> QED BY <1>3, <1>8, <3>1 DEF OneTimer
  <2> QED BY <2>1, <2>2
<1> QED BY <1>7, <1>8 DEF OneTimer

\* Timers that stay as they are, or stop.
LEMMA KeepsTimer ==
    ASSUME NEW e, OneTimer(e), timers' \subseteq timers, UNCHANGED <<listeners, resetTimer>>
    PROVE  OneTimer(e)'
BY DEF OneTimer

LEMMA ConfigureOwn ==
    ASSUME RulesInv, OwnInv, Configure, NEW e \in Event, OwnEvent(e)
    PROVE  HeardOnce(e)' /\ (e \notin Immediate => OneTimer(e)')
BY ConfigureHeard, KeepsTimer DEF OwnInv, Configure, store

LEMMA DispatchedOwn ==
    ASSUME RulesInv, OwnInv, Dispatched, NEW e \in Event, OwnEvent(e)
    PROVE  HeardOnce(e)' /\ (e \notin Immediate => OneTimer(e)')
<1> DEFINE s == Check(Head(turn).rule)
<1>1. /\ turn # <<>> /\ Head(turn) = turn[1] /\ turn[1] \in Calls
    BY HeadIs DEF Dispatched
<1>2. Head(turn).rule \in Rule \cup {None}
    BY <1>1 DEF Calls
<1>3. turn' = s \o Tail(turn) /\ UNCHANGED <<listeners, resetTimer, timers>>
    BY DEF Dispatched, store
<1>4. s \in Seq(Calls) /\ \A i \in DOMAIN s : s[i].do = "check"
    BY <1>2, Checks
<1> HIDE DEF s
<1>5. \A i \in DOMAIN s : ~Registers(s[i], e) /\ ~Raises(s[i], e)
    BY <1>4 DEF Registers, Raises
<1>6. HeardOnce(e)'
    BY <1>1, <1>3, <1>4, <1>5, KeepsHeard DEF RulesInv, OwnInv
<1> QED BY <1>3, <1>6, KeepsTimer DEF OwnInv

LEMMA CheckGroupOwn ==
    ASSUME RulesInv, OwnInv, CheckGroup, NEW e \in Event, OwnEvent(e)
    PROVE  HeardOnce(e)' /\ (e \notin Immediate => OneTimer(e)')
<1>1. turn # <<>> /\ turn' = <<>> \o Tail(turn)
    BY HeadIs DEF CheckGroup
<1>2. UNCHANGED <<listeners, resetTimer, timers>>
    BY DEF CheckGroup
<1>3. HeardOnce(e)'
    BY <1>1, <1>2, NothingPut DEF RulesInv, OwnInv
<1> QED BY <1>2, <1>3, KeepsTimer DEF OwnInv

\* A step between turns.
LEMMA BetweenOwn ==
    ASSUME RulesInv, OwnInv, NEW e \in Event, OwnEvent(e),
           \A i \in DOMAIN turn' : ~Registers(turn'[i], e),
           \A i, j \in DOMAIN turn' : Raises(turn'[i], e) /\ Raises(turn'[j], e) => i = j,
           timers' \subseteq timers, UNCHANGED <<listeners, resetTimer>>
    PROVE  HeardOnce(e)' /\ (e \notin Immediate => OneTimer(e)')
<1>1. HeardOnce(e) /\ Len(listeners'[e]) <= 1
    BY DEF OwnInv, HeardOnce
<1>2. HeardOnce(e)'
    BY <1>1 DEF HeardOnce, Registers, Raises
<1> QED BY <1>2, KeepsTimer DEF OwnInv

\* What an occurrence raises: the event, once per listener.
LEMMA OccurRaises ==
    ASSUME RulesInv, NEW x \in Event, Occur(x), NEW e
    PROVE  /\ \A i \in DOMAIN turn' : ~Registers(turn'[i], e)
           /\ \A i \in DOMAIN turn' : Raises(turn'[i], e) => x = e
           /\ DOMAIN turn' = DOMAIN listeners[x]
<1> DEFINE l == listeners[x]
<1>1. turn' = [i \in DOMAIN l |-> Call("raise", l[i], x, None)]
    BY DEF Occur
<1>2. \A i \in DOMAIN l : turn'[i].do = "raise" /\ turn'[i].event = x
    BY <1>1, CallIs
<1>3. DOMAIN turn' = DOMAIN l
    BY <1>1
<1> HIDE DEF l
<1> QED BY <1>2, <1>3 DEF Registers, Raises, l

LEMMA OccurOwn ==
    ASSUME RulesInv, OwnInv, NEW x \in Event, Occur(x), NEW e \in Event, OwnEvent(e)
    PROVE  HeardOnce(e)' /\ (e \notin Immediate => OneTimer(e)')
<1>1. UNCHANGED <<listeners, resetTimer, timers>>
    BY DEF Occur, store
<1>2. /\ \A i \in DOMAIN turn' : ~Registers(turn'[i], e)
      /\ \A i \in DOMAIN turn' : Raises(turn'[i], e) => x = e
      /\ DOMAIN turn' = DOMAIN listeners[x]
    BY OccurRaises
<1>3. listeners[e] \in Seq(Rule) /\ Len(listeners[e]) <= 1
    BY DEF RulesInv, TypeOK, OwnInv, HeardOnce
<1>4. \A i, j \in DOMAIN listeners[e] : i = j
    BY <1>3
<1>5. \A i, j \in DOMAIN turn' : Raises(turn'[i], e) /\ Raises(turn'[j], e) => i = j
    BY <1>2, <1>4
<1> QED BY <1>1, <1>2, <1>5, BetweenOwn

LEMMA OnlyDispatches ==
    ASSUME \A i \in DOMAIN turn' : turn'[i].do = "dispatch"
    PROVE  \A e : \A i \in DOMAIN turn' : ~Registers(turn'[i], e) /\ ~Raises(turn'[i], e)
BY DEF Registers, Raises

LEMMA ExpireDispatches ==
    ASSUME RulesInv, NEW timer \in timers, Expire(timer)
    PROVE  \A i \in DOMAIN turn' : turn'[i].do = "dispatch"
<1> DEFINE x == timer.event
<1> DEFINE n == Len(listeners[x])
<1>1. x \in Event /\ turn = <<>>
    BY DEF Expire, RulesInv, TypeOK, Timers
<1>2. listeners[x] # <<>> /\ listeners[x] \in Seq(Rule)
    BY <1>1 DEF RulesInv, TypeOK, Registering
<1>3. n \in Nat /\ listeners[x][n] \in Rule
    BY <1>2
<1>4. turn' = Dispatch(listeners[x][n], n)
    BY DEF Expire
<1> HIDE DEF x, n
<1> QED BY <1>3, <1>4, Dispatches

LEMMA NextOwn == ASSUME RulesInv, OwnInv, [Next]_vars PROVE OwnInv'
<1> SUFFICES ASSUME NEW e \in Event, OwnEvent(e)
             PROVE  HeardOnce(e)' /\ (e \notin Immediate => OneTimer(e)')
    BY DEF OwnInv, OwnEvent, TriggerEvents, Unshared
<1>1. CASE Turn
    BY <1>1, ConfigureOwn, CreateOwn, RegisterOwn, RaiseOwn, DispatchedOwn, CheckGroupOwn DEF Turn
<1>2. CASE \E x \in Event : Occur(x)
    BY <1>2, OccurOwn
<1>3. CASE \E t \in Trigger : Change(t)
  <2>1. PICK t \in Trigger : Change(t)
    BY <1>3
  <2>2. \A i \in DOMAIN turn' : turn'[i].do = "dispatch"
    BY <2>1, Told DEF RulesInv
  <2>3. UNCHANGED <<listeners, resetTimer, timers>>
    BY <2>1 DEF Change, store
  <2> QED BY <2>2, <2>3, OnlyDispatches, BetweenOwn
<1>4. CASE \E timer \in timers : Expire(timer)
  <2>1. PICK timer \in timers : Expire(timer)
    BY <1>4
  <2>2. \A i \in DOMAIN turn' : turn'[i].do = "dispatch"
    BY <2>1, ExpireDispatches
  <2>3. timers' \subseteq timers /\ UNCHANGED <<listeners, resetTimer>>
    BY <2>1 DEF Expire
  <2> QED BY <2>2, <2>3, OnlyDispatches, BetweenOwn
<1>5. CASE Tick
  <2>1. turn = <<>> /\ turn' = turn /\ UNCHANGED <<listeners, resetTimer, timers>>
    BY <1>5 DEF Tick, store
  <2>2. DOMAIN turn' = {}
    BY <2>1
  <2> QED BY <2>1, <2>2, BetweenOwn
<1>6. CASE UNCHANGED vars
  <2>1. HeardOnce(e)' /\ (e \notin Immediate => OneTimer(e)')
    BY <1>6 DEF vars, store, OwnInv, HeardOnce, OneTimer, Registers, Raises
  <2> QED BY <2>1
<1> QED BY <1>1, <1>2, <1>3, <1>4, <1>5, <1>6 DEF Next

LEMMA InitOwn == ASSUME Init PROVE OwnInv
<1> SUFFICES ASSUME NEW e \in Event, OwnEvent(e) PROVE HeardOnce(e) /\ OneTimer(e)
    BY DEF OwnInv
<1>1. /\ DOMAIN turn = 1 .. Rules + 1 /\ turn[Rules + 1].do = "dispatch" /\ Rules \in Nat
      /\ \A r \in Rule : turn[r].do = "configure" /\ turn[r].rule = r
    BY InitTurn, RuleAssumption
<1>2. \A i \in DOMAIN turn : ~Raises(turn[i], e)
    BY <1>1 DEF Raises, Rule
<1>3. \A i \in DOMAIN turn : Registers(turn[i], e) => i \in Rule /\ e \in TriggerEvents(i)
    BY <1>1 DEF Registers, Rule
<1>4. \A i, j \in DOMAIN turn : Registers(turn[i], e) /\ Registers(turn[j], e) => i = j
    BY <1>3, OneTrigger
<1>5. listeners[e] = <<>> /\ Len(listeners[e]) <= 1 /\ timers = {}
    BY DEF Init
<1> QED BY <1>2, <1>4, <1>5 DEF HeardOnce, OneTimer

LEMMA OwnCorrect == Spec => []OwnInv
<1>1. Init => OwnInv
    BY InitOwn
<1>2. RulesInv /\ OwnInv /\ [Next]_vars => OwnInv'
    BY NextOwn
<1> QED BY <1>1, <1>2, RulesCorrect, PTL DEF Spec

\* Who clears the state of an event.
LEMMA Clears ==
    ASSUME RulesInv, OwnInv, [Next]_vars, NEW e \in Event, OwnEvent(e), e \notin Immediate
    PROVE  ClearedInTime(e)
<1> SUFFICES ASSUME triggered[e], ~triggered'[e]
             PROVE  \/ \E g \in Group : winner'[g] # winner[g] /\ e \in TriggerEvents(winner'[g].rule)
                    \/ resetTimer[e] \in timers /\ resetTimer[e] \notin timers'
    BY DEF ClearedInTime
<1>1. ASSUME NEW r \in Rule, NEW x \in Event, NEW from \in {"create", "register", "raise"},
             Fire(r, x, from)
      PROVE  FALSE
    BY <1>1, FireTimers DEF RulesInv
<1>2. ~Create
  <2>1. SUFFICES ASSUME Create PROVE FALSE
    OBVIOUS
  <2>2. Head(turn) = turn[1] /\ turn[1].do = "create" /\ Fitting(1)
    BY <2>1, HeadIs DEF Create
  <2>3. turn[1].rule \in Rule /\ turn[1].event \in Event
    BY <2>2, EventsAre DEF Fitting
  <2> QED BY <1>1, <2>1, <2>2, <2>3 DEF Create, store
<1>3. ~Raise
  <2>1. SUFFICES ASSUME Raise PROVE FALSE
    OBVIOUS
  <2>2. Head(turn) = turn[1] /\ turn[1].do = "raise" /\ Fitting(1)
    BY <2>1, HeadIs DEF Raise
  <2>3. turn[1].rule \in Rule /\ turn[1].event \in Event
    BY <2>2, EventsAre DEF Fitting
  <2> QED BY <1>1, <2>1, <2>2, <2>3 DEF Raise
<1>4. CASE CheckGroup
  <2>1. PICK g \in Group, ruleId \in Rule \cup {None} :
             /\ turn[1].do = "check" /\ turn[1].group = g
             /\ \/ Candidates(g, ruleId) = {} /\ UNCHANGED <<triggered, winner>>
                \/ \E r \in Candidates(g, ruleId) :
                     /\ r \in Rule /\ GroupOf[r] = g /\ Passes(r)
                     /\ ResetEvents(r)
                     /\ \A h \in Group : h # g => winner'[h] = winner[h]
                     /\ winner'[g] = [rule |-> r, ts |-> now,
                                      index |-> IF winner[g] = None THEN 0
                                                ELSE winner[g].index + 1]
                     /\ winner' \in [Group -> Status \cup {None}]
    BY <1>4, Applies
  <2>2. PICK r \in Candidates(g, ruleId) :
          /\ r \in Rule
          /\ ResetEvents(r)
          /\ winner'[g] = [rule |-> r, ts |-> now,
                           index |-> IF winner[g] = None THEN 0 ELSE winner[g].index + 1]
    BY <2>1
  <2>3. e \in TriggerEvents(r) /\ winner'[g].rule = r
    <3>1. triggered'[e] = (triggered[e] /\ e \notin TriggerEvents(r))
      BY <2>2 DEF ResetEvents
    <3>2. winner'[g].rule = r
      BY <2>2
    <3> QED BY <3>1, <3>2
  <2>4. winner'[g] # winner[g]
    <3>1. CASE winner[g] = None
      <4>1. winner'[g] \in Status
        BY <2>2, <3>1 DEF Status, RulesInv, TypeOK
      <4> QED BY <3>1, <4>1, NoneAssumption
    <3>2. CASE winner[g] # None
      <4>1. winner'[g].index = winner[g].index + 1 /\ winner[g].index \in Nat
        BY <2>2, <3>2 DEF RulesInv, TypeOK, Status
      <4> QED BY <4>1
    <3> QED BY <3>1, <3>2
  <2> QED BY <2>3, <2>4
<1>5. CASE \E timer \in timers : Expire(timer)
  <2>1. PICK timer \in timers : Expire(timer)
    BY <1>5
  <2>2. timer.event = e /\ timers' = timers \ {timer}
    BY <2>1 DEF Expire, RulesInv, TypeOK
  <2> QED BY <2>1, <2>2 DEF OwnInv, OneTimer
<1>6. triggered' # triggered
    OBVIOUS
<1> QED BY <1>2, <1>3, <1>4, <1>5, <1>6 DEF Next, Turn, vars, store, Configure, Register, Dispatched,
       Occur, Change, Tick

\* The state of an event of one rule is cleared by a rule that uses it, or by the reset
\* timer that its last occurrence started, and by no earlier one (an event that its create
\* function triggers excepted: its first timer has no entry yet to be kept in).
THEOREM OwnEventsAreHeld == Spec => OwnHeldUntilCleared
<1>1. RulesInv /\ OwnInv /\ [Next]_vars =>
        [\A e \in Event : OwnEvent(e) /\ e \notin Immediate => ClearedInTime(e)]_vars
    BY Clears
<1> QED BY <1>1, RulesCorrect, OwnCorrect, PTL DEF Spec, OwnHeldUntilCleared

-----------------------------------------------------------------------------
(* An occurrence is used once.                                             *)

Raised(e) == \E i \in DOMAIN turn : Raises(turn[i], e)

\* What the inequality needs of a step that applies nothing of the rule.
LEMMA StaysUsed ==
    ASSUME NEW r, NEW e, Uses(r) + Unused(e) <= occurred[e], Uses(r) \in Nat,
           Uses(r)' <= Uses(r), Uses(r)' \in Nat, occurred[e] \in Nat, occurred'[e] \in Nat,
           occurred'[e] >= occurred[e], triggered'[e] => triggered[e], Raised(e)' => Raised(e)
    PROVE  (Uses(r) + Unused(e) <= occurred[e])'
<1>1. /\ Unused(e) = (IF triggered[e] THEN 1 ELSE 0) + (IF Raised(e) THEN 1 ELSE 0)
      /\ Unused(e)' = (IF triggered'[e] THEN 1 ELSE 0) + (IF Raised(e)' THEN 1 ELSE 0)
    BY DEF Unused, Raised
<1>2. Unused(e)' <= Unused(e) /\ Unused(e) \in Nat /\ Unused(e)' \in Nat
    BY <1>1
<1> QED BY <1>2

\* One more occurrence pays for one more event that is triggered or raised.
LEMMA PaysOne ==
    ASSUME NEW r, NEW e, Uses(r) + Unused(e) <= occurred[e], Uses(r) \in Nat,
           Uses(r)' = Uses(r), occurred[e] \in Nat, occurred'[e] = occurred[e] + 1,
           triggered'[e] /\ Raised(e)' => triggered[e] \/ Raised(e)
    PROVE  (Uses(r) + Unused(e) <= occurred[e])'
<1>1. /\ Unused(e) = (IF triggered[e] THEN 1 ELSE 0) + (IF Raised(e) THEN 1 ELSE 0)
      /\ Unused(e)' = (IF triggered'[e] THEN 1 ELSE 0) + (IF Raised(e)' THEN 1 ELSE 0)
    BY DEF Unused, Raised
<1>2. Unused(e)' <= Unused(e) + 1 /\ Unused(e) \in Nat /\ Unused(e)' \in Nat
    BY <1>1
<1> QED BY <1>2

LEMMA UsesAre ==
    ASSUME RulesInv, NEW r \in Rule
    PROVE  /\ Uses(r) \in Nat
           /\ winner' = winner => Uses(r)' = Uses(r)
<1>1. winner[GroupOf[r]] \in Status \cup {None}
    BY EventsAre DEF RulesInv, TypeOK
<1>2. Uses(r) \in Nat
    BY <1>1 DEF Uses, Status
<1>3. winner' = winner => Uses(r)' = Uses(r)
    BY DEF Uses
<1> QED BY <1>2, <1>3

\* An event is raised after a step that adds no raise only if another call raised it.
LEMMA RaisedBefore ==
    ASSUME TypeOK, turn # <<>>, NEW s \in Seq(Calls), turn' = s \o Tail(turn), NEW e,
           \A i \in DOMAIN s : ~Raises(s[i], e), Raised(e)'
    PROVE  \E i \in DOMAIN turn : i # 1 /\ Raises(turn[i], e)
<1>1. PICK i \in DOMAIN turn' : Raises(turn'[i], e)
    BY DEF Raised, Raises
<1>2. /\ i - Len(s) + 1 \in DOMAIN turn /\ i - Len(s) + 1 >= 2
      /\ turn'[i] = turn[i - Len(s) + 1]
    BY <1>1, Rest DEF TypeOK
<1>3. i - Len(s) + 1 # 1
    BY <1>2 DEF TypeOK
<1> QED BY <1>1, <1>2, <1>3

LEMMA NothingRaised ==
    ASSUME TypeOK, turn # <<>>, turn' = <<>> \o Tail(turn), NEW e, Raised(e)'
    PROVE  Raised(e)
<1>1. <<>> \in Seq(Calls) /\ \A i \in DOMAIN <<>> : ~Raises(<<>>[i], e)
    OBVIOUS
<1> QED BY <1>1, RaisedBefore DEF Raised

LEMMA FactsOfUse ==
    ASSUME RulesInv, OwnInv, UsedInv, NEW r \in Rule, Unshared(TriggerOf[r]),
           NEW e \in TriggerEvents(r)
    PROVE  /\ e \in Event /\ OwnEvent(e) /\ HeardOnce(e) /\ TypeOK
           /\ Uses(r) + Unused(e) <= occurred[e] /\ occurred[e] \in Nat
           /\ Uses(r) \in Nat /\ (winner' = winner => Uses(r)' = Uses(r))
<1>1. e \in Event /\ OwnEvent(e)
    BY EventsAre, OneTrigger
<1> QED BY <1>1, UsesAre DEF OwnInv, RulesInv, TypeOK, UsedInv

\* A step that applies, triggers and raises nothing.
LEMMA QuietUsed ==
    ASSUME RulesInv, OwnInv, UsedInv, NEW r \in Rule, Unshared(TriggerOf[r]),
           NEW e \in TriggerEvents(r), winner' = winner, triggered'[e] => triggered[e],
           occurred' = occurred, Raised(e)' => Raised(e)
    PROVE  (Uses(r) + Unused(e) <= occurred[e])'
BY FactsOfUse, StaysUsed

LEMMA ConfigureUsed ==
    ASSUME RulesInv, OwnInv, UsedInv, Configure, NEW r \in Rule, Unshared(TriggerOf[r]),
           NEW e \in TriggerEvents(r)
    PROVE  (Uses(r) + Unused(e) <= occurred[e])'
<1> DEFINE q == turn[1].rule
<1> DEFINE s == Setup(q)
<1>1. turn # <<>> /\ Head(turn) = turn[1] /\ turn[1].do = "configure" /\ Fitting(1)
    BY HeadIs DEF Configure
<1>2. q \in Rule
    BY <1>1 DEF Fitting
<1>3. turn' = s \o Tail(turn) /\ UNCHANGED <<winner, triggered, occurred>>
    BY <1>1 DEF Configure, Setup, store, page
<1>4. s \in Seq(Calls) /\ \A i \in DOMAIN s : s[i].do \in {"create", "register"}
    BY <1>2, Setups
<1> HIDE DEF s, q
<1>5. \A i \in DOMAIN s : ~Raises(s[i], e)
    BY <1>4 DEF Raises
<1>6. Raised(e)' => Raised(e)
    BY <1>1, <1>3, <1>4, <1>5, RaisedBefore DEF RulesInv, Raised
<1> QED BY <1>3, <1>6, QuietUsed

LEMMA CreateUsed ==
    ASSUME RulesInv, OwnInv, UsedInv, Create, NEW r \in Rule, Unshared(TriggerOf[r]),
           NEW e \in TriggerEvents(r)
    PROVE  (Uses(r) + Unused(e) <= occurred[e])'
<1> DEFINE q == turn[1].rule
<1> DEFINE x == turn[1].event
<1>1. /\ turn # <<>> /\ Head(turn) = turn[1] /\ turn[1].do = "create" /\ Fitting(1)
      /\ turn' = Tail(turn) => turn' = <<>> \o Tail(turn)
    BY HeadIs DEF Create
<1>2. q \in Rule /\ x \in Event
    BY <1>1, EventsAre DEF Fitting
<1>3. winner' = winner
    BY DEF Create
<1>4. /\ e \in Event /\ TypeOK
      /\ Uses(r) + Unused(e) <= occurred[e] /\ occurred[e] \in Nat
      /\ Uses(r) \in Nat /\ Uses(r)' = Uses(r)
    BY <1>3, FactsOfUse
<1>5. CASE x \in Immediate
  <2> DEFINE s == Dispatch(q, Len(listeners[x]))
  <2>1. Fire(q, x, "create") /\ occurred' = [occurred EXCEPT ![x] = @ + 1]
    BY <1>1, <1>5 DEF Create
  <2>2. Len(listeners[x]) \in Nat
    BY <1>2, <1>4 DEF TypeOK
  <2>3. /\ s \in Seq(Calls) /\ turn' = s \o Tail(turn)
        /\ \A i \in DOMAIN s : ~Raises(s[i], e)
    BY <1>2, <2>1, <2>2, DispatchesPut DEF Fire
  <2> HIDE DEF s, q, x
  <2>4. Raised(e)' => Raised(e)
    BY <1>1, <1>4, <2>3, RaisedBefore DEF Raised
  <2>5. CASE x = e
    <3>1. occurred'[e] = occurred[e] + 1
      BY <1>4, <2>1, <2>5 DEF TypeOK
    <3> QED BY <1>4, <2>4, <3>1, PaysOne
  <2>6. CASE x # e
    <3>1. occurred'[e] = occurred[e]
      BY <1>4, <2>1, <2>6 DEF TypeOK
    <3>2. triggered'[e] => triggered[e]
      BY <1>2, <1>4, <2>1, <2>6, FireTimers
    <3> QED BY <1>4, <2>4, <3>1, <3>2, StaysUsed
  <2> QED BY <2>5, <2>6
<1>6. CASE x \notin Immediate
  <2>1. turn' = <<>> \o Tail(turn) /\ UNCHANGED <<triggered, occurred>>
    BY <1>1, <1>6 DEF Create, store
  <2>2. Raised(e)' => Raised(e)
    BY <1>1, <1>4, <2>1, NothingRaised
  <2> QED BY <1>3, <2>1, <2>2, QuietUsed
<1> QED BY <1>5, <1>6

LEMMA RegisterUsed ==
    ASSUME RulesInv, OwnInv, UsedInv, Register, NEW r \in Rule, Unshared(TriggerOf[r]),
           NEW e \in TriggerEvents(r)
    PROVE  (Uses(r) + Unused(e) <= occurred[e])'
<1>1. turn # <<>> /\ turn' = <<>> \o Tail(turn)
    BY HeadIs DEF Register
<1>2. Raised(e)' => Raised(e)
    BY <1>1, NothingRaised DEF RulesInv
<1> QED BY <1>2, QuietUsed DEF Register, page

LEMMA RaiseUsed ==
    ASSUME RulesInv, OwnInv, UsedInv, Raise, NEW r \in Rule, Unshared(TriggerOf[r]),
           NEW e \in TriggerEvents(r)
    PROVE  (Uses(r) + Unused(e) <= occurred[e])'
<1> DEFINE q == turn[1].rule
<1> DEFINE x == turn[1].event
<1> DEFINE s == Dispatch(q, Len(listeners[x]))
<1>1. /\ turn # <<>> /\ Head(turn) = turn[1] /\ turn[1].do = "raise" /\ Fitting(1)
      /\ 1 \in DOMAIN turn
    BY HeadIs DEF Raise
<1>2. q \in Rule /\ x \in Event
    BY <1>1, EventsAre DEF Fitting
<1>3. winner' = winner /\ occurred' = occurred
    BY DEF Raise, page
<1>4. /\ e \in Event /\ HeardOnce(e) /\ TypeOK
      /\ Uses(r) + Unused(e) <= occurred[e] /\ occurred[e] \in Nat
      /\ Uses(r) \in Nat /\ Uses(r)' = Uses(r)
    BY <1>3, FactsOfUse
<1>5. Fire(q, x, "raise")
    BY <1>1 DEF Raise
<1>6. Len(listeners[x]) \in Nat
    BY <1>2, <1>4 DEF TypeOK
<1>7. /\ s \in Seq(Calls) /\ turn' = s \o Tail(turn)
      /\ \A i \in DOMAIN s : ~Raises(s[i], e)
    BY <1>2, <1>5, <1>6, DispatchesPut DEF Fire
<1>8. Raises(turn[1], x)
    BY <1>1 DEF Raises
<1> HIDE DEF s, q, x
<1>9. CASE x = e
  <2>1. Raised(e) /\ ~Raised(e)'
    BY <1>1, <1>4, <1>7, <1>8, <1>9, RaisedBefore DEF HeardOnce, Raised
  <2>2. /\ Unused(e) = (IF triggered[e] THEN 1 ELSE 0) + (IF Raised(e) THEN 1 ELSE 0)
        /\ Unused(e)' = (IF triggered'[e] THEN 1 ELSE 0) + (IF Raised(e)' THEN 1 ELSE 0)
    BY DEF Unused, Raised
  <2>3. Unused(e)' <= Unused(e) /\ Unused(e) \in Nat /\ Unused(e)' \in Nat
    BY <2>1, <2>2
  <2> QED BY <1>3, <1>4, <2>3
<1>10. CASE x # e
  <2>1. Raised(e)' => Raised(e)
    BY <1>1, <1>4, <1>7, RaisedBefore DEF Raised
  <2>2. triggered'[e] => triggered[e]
    BY <1>2, <1>4, <1>5, <1>10, FireTimers
  <2> QED BY <1>3, <2>1, <2>2, QuietUsed
<1> QED BY <1>9, <1>10

LEMMA DispatchedUsed ==
    ASSUME RulesInv, OwnInv, UsedInv, Dispatched, NEW r \in Rule, Unshared(TriggerOf[r]),
           NEW e \in TriggerEvents(r)
    PROVE  (Uses(r) + Unused(e) <= occurred[e])'
<1> DEFINE s == Check(Head(turn).rule)
<1>1. turn # <<>> /\ Head(turn) = turn[1] /\ turn[1] \in Calls
    BY HeadIs DEF Dispatched
<1>2. Head(turn).rule \in Rule \cup {None}
    BY <1>1 DEF Calls
<1>3. turn' = s \o Tail(turn) /\ UNCHANGED <<winner, triggered, occurred>>
    BY DEF Dispatched, store, page
<1>4. s \in Seq(Calls) /\ \A i \in DOMAIN s : s[i].do = "check"
    BY <1>2, Checks
<1> HIDE DEF s
<1>5. \A i \in DOMAIN s : ~Raises(s[i], e)
    BY <1>4 DEF Raises
<1>6. Raised(e)' => Raised(e)
    BY <1>1, <1>3, <1>4, <1>5, RaisedBefore DEF RulesInv, Raised
<1> QED BY <1>3, <1>6, QuietUsed

\* What is applied uses its events up.
LEMMA CheckGroupUsed ==
    ASSUME RulesInv, OwnInv, UsedInv, CheckGroup, NEW r \in Rule, Unshared(TriggerOf[r]),
           NEW e \in TriggerEvents(r)
    PROVE  (Uses(r) + Unused(e) <= occurred[e])'
<1>1. turn # <<>> /\ turn' = <<>> \o Tail(turn)
    BY HeadIs DEF CheckGroup
<1>2. Raised(e)' => Raised(e)
    BY <1>1, NothingRaised DEF RulesInv
<1>3. occurred' = occurred
    BY DEF CheckGroup, page
<1>4. /\ e \in Event /\ TypeOK
      /\ Uses(r) + Unused(e) <= occurred[e] /\ occurred[e] \in Nat
      /\ Uses(r) \in Nat /\ (winner' = winner => Uses(r)' = Uses(r))
    BY FactsOfUse
<1>5. PICK g \in Group, ruleId \in Rule \cup {None} :
             /\ turn[1].do = "check" /\ turn[1].group = g
             /\ \/ Candidates(g, ruleId) = {} /\ UNCHANGED <<triggered, winner>>
                \/ \E q \in Candidates(g, ruleId) :
                     /\ q \in Rule /\ GroupOf[q] = g /\ Passes(q)
                     /\ ResetEvents(q)
                     /\ \A h \in Group : h # g => winner'[h] = winner[h]
                     /\ winner'[g] = [rule |-> q, ts |-> now,
                                      index |-> IF winner[g] = None THEN 0
                                                ELSE winner[g].index + 1]
                     /\ winner' \in [Group -> Status \cup {None}]
    BY Applies
<1>6. CASE UNCHANGED <<triggered, winner>>
    BY <1>2, <1>3, <1>6, QuietUsed
<1>7. ASSUME NEW q \in Candidates(g, ruleId),
             q \in Rule, GroupOf[q] = g, Passes(q), ResetEvents(q),
             \A h \in Group : h # g => winner'[h] = winner[h],
             winner'[g] = [rule |-> q, ts |-> now,
                           index |-> IF winner[g] = None THEN 0 ELSE winner[g].index + 1],
             winner' \in [Group -> Status \cup {None}]
      PROVE  (Uses(r) + Unused(e) <= occurred[e])'
  <2>1. winner[g] # None => winner[g].rule = q
    BY <1>7 DEF Candidates
  <2>2. winner'[g] # None /\ winner'[g].rule = q
    <3>1. winner'[g].rule = q /\ now \in 0 .. MaxTime
      BY <1>4, <1>7 DEF TypeOK
    <3>2. winner[g] = None \/ winner[g].index \in Nat
      BY <1>4 DEF TypeOK, Status
    <3>3. winner'[g] \in Status
      BY <1>7, <3>1, <3>2 DEF Status
    <3> QED BY <3>1, <3>3, NoneAssumption
  <2>3. winner'[g].index = IF winner[g] = None THEN 0 ELSE winner[g].index + 1
    BY <1>7
  <2>4. triggered'[e] => triggered[e] /\ e \notin TriggerEvents(q)
    BY <1>4, <1>7 DEF ResetEvents
  <2>5. GroupOf[r] \in Group
    BY EventsAre
  <2>6. CASE q = r
    <3>1. triggered[e] /\ ~triggered'[e]
      BY <1>7, <2>4, <2>6 DEF Passes
    <3>2. Uses(r)' = Uses(r) + 1
      BY <1>4, <1>7, <2>1, <2>2, <2>3, <2>6 DEF Uses, TypeOK, Status
    <3>3. /\ Unused(e) = (IF triggered[e] THEN 1 ELSE 0) + (IF Raised(e) THEN 1 ELSE 0)
          /\ Unused(e)' = (IF triggered'[e] THEN 1 ELSE 0) + (IF Raised(e)' THEN 1 ELSE 0)
      BY DEF Unused, Raised
    <3>4. Unused(e)' + 1 <= Unused(e) /\ Unused(e) \in Nat /\ Unused(e)' \in Nat
      BY <1>2, <3>1, <3>3
    <3> QED BY <1>3, <1>4, <3>2, <3>4
  <2>7. CASE q # r
    <3>1. CASE GroupOf[r] = g
      <4>1. Uses(r)' = 0
        BY <2>2, <2>7, <3>1 DEF Uses
      <4> QED BY <1>2, <1>3, <1>4, <2>4, <4>1, StaysUsed
    <3>2. CASE GroupOf[r] # g
      <4>1. Uses(r)' = Uses(r)
        BY <1>7, <2>5, <3>2 DEF Uses
      <4> QED BY <1>2, <1>3, <1>4, <2>4, <4>1, StaysUsed
    <3> QED BY <3>1, <3>2
  <2> QED BY <2>6, <2>7
<1> QED BY <1>5, <1>6, <1>7

LEMMA OccurUsed ==
    ASSUME RulesInv, OwnInv, UsedInv, NEW x \in Event, Occur(x), NEW r \in Rule,
           Unshared(TriggerOf[r]), NEW e \in TriggerEvents(r)
    PROVE  (Uses(r) + Unused(e) <= occurred[e])'
<1>1. /\ turn = <<>> /\ UNCHANGED <<winner, triggered>>
      /\ occurred' = [occurred EXCEPT ![x] = @ + 1]
    BY DEF Occur, store
<1>2. /\ e \in Event /\ TypeOK
      /\ Uses(r) + Unused(e) <= occurred[e] /\ occurred[e] \in Nat
      /\ Uses(r) \in Nat /\ Uses(r)' = Uses(r)
    BY <1>1, FactsOfUse
<1>3. CASE x = e
  <2>1. occurred'[e] = occurred[e] + 1
    BY <1>1, <1>2, <1>3 DEF TypeOK
  <2> QED BY <1>1, <1>2, <2>1, PaysOne
<1>4. CASE x # e
  <2>1. ~Raised(e)'
    BY <1>4, OccurRaises DEF Raised, Raises
  <2>2. occurred'[e] = occurred[e]
    BY <1>1, <1>2, <1>4 DEF TypeOK
  <2> QED BY <1>1, <1>2, <2>1, <2>2, StaysUsed
<1> QED BY <1>3, <1>4

LEMMA NextUsed == ASSUME RulesInv, OwnInv, UsedInv, [Next]_vars PROVE UsedInv'
<1> SUFFICES ASSUME NEW r \in Rule, Unshared(TriggerOf[r]), NEW e \in TriggerEvents(r)
             PROVE  (Uses(r) + Unused(e) <= occurred[e])'
    BY DEF UsedInv, TriggerEvents, Unshared
<1>1. CASE Turn
    BY <1>1, ConfigureUsed, CreateUsed, RegisterUsed, RaiseUsed, DispatchedUsed, CheckGroupUsed
    DEF Turn
<1>2. CASE \E x \in Event : Occur(x)
    BY <1>2, OccurUsed
<1>3. CASE \E t \in Trigger : Change(t)
  <2>1. PICK t \in Trigger : Change(t)
    BY <1>3
  <2>2. \A i \in DOMAIN turn' : turn'[i].do = "dispatch"
    BY <2>1, Told DEF RulesInv
  <2>3. ~Raised(e)'
    BY <2>2 DEF Raised, Raises
  <2>4. UNCHANGED <<winner, triggered, occurred>>
    BY <2>1 DEF Change, store
  <2> QED BY <2>3, <2>4, QuietUsed
<1>4. CASE \E timer \in timers : Expire(timer)
  <2>1. PICK timer \in timers : Expire(timer)
    BY <1>4
  <2>2. \A i \in DOMAIN turn' : turn'[i].do = "dispatch"
    BY <2>1, ExpireDispatches
  <2>3. ~Raised(e)'
    BY <2>2 DEF Raised, Raises
  <2>4. UNCHANGED <<winner, occurred>>
    BY <2>1 DEF Expire, page
  <2>5. triggered'[e] => triggered[e]
    BY <2>1, FactsOfUse DEF Expire, TypeOK
  <2> QED BY <2>3, <2>4, <2>5, QuietUsed
<1>5. CASE Tick
    BY <1>5, QuietUsed DEF Tick, store, page, Raised
<1>6. CASE UNCHANGED vars
    BY <1>6, QuietUsed DEF vars, store, page, Raised
<1> QED BY <1>1, <1>2, <1>3, <1>4, <1>5, <1>6 DEF Next

LEMMA InitUsed == ASSUME Init PROVE UsedInv
<1> SUFFICES ASSUME NEW r \in Rule, NEW e \in TriggerEvents(r)
             PROVE  Uses(r) + Unused(e) <= occurred[e]
    BY DEF UsedInv
<1>1. /\ DOMAIN turn = 1 .. Rules + 1 /\ turn[Rules + 1].do = "dispatch" /\ Rules \in Nat
      /\ \A q \in Rule : turn[q].do = "configure"
    BY InitTurn, RuleAssumption
<1>2. ~\E i \in DOMAIN turn : Raises(turn[i], e)
    BY <1>1 DEF Raises, Rule
<1>3. e \in Event /\ GroupOf[r] \in Group
    BY EventsAre
<1>4. winner[GroupOf[r]] = None /\ ~triggered[e] /\ occurred[e] = 0
    BY <1>3 DEF Init
<1> QED BY <1>2, <1>4 DEF Uses, Unused

\* One occurrence of an event applies the rule it is for at most once, however many
\* listeners, checks and timers run because of it.
THEOREM AppliedOnce == Spec => []AppliedPerOccurrence
<1>1. Init => UsedInv
    BY InitUsed
<1>2. RulesInv /\ OwnInv /\ UsedInv /\ [Next]_vars => UsedInv'
    BY NextUsed
<1>3. RulesInv /\ UsedInv => AppliedPerOccurrence
  <2> SUFFICES ASSUME RulesInv, UsedInv, NEW g \in Group, winner[g] # None,
                      Unshared(TriggerOf[winner[g].rule]),
                      NEW e \in TriggerEvents(winner[g].rule)
               PROVE  winner[g].index < occurred[e]
    BY DEF AppliedPerOccurrence
  <2> DEFINE r == winner[g].rule
  <2>1. r \in Rule /\ GroupOf[r] = g /\ winner[g].index \in Nat
    BY DEF RulesInv, TypeOK, Status
  <2>2. Uses(r) = winner[g].index + 1
    BY <2>1 DEF Uses
  <2>3. Unused(e) \in Nat
    BY DEF Unused
  <2>4. e \in Event /\ occurred[e] \in Nat
    BY <2>1, EventsAre DEF RulesInv, TypeOK
  <2>5. Uses(r) + Unused(e) <= occurred[e]
    BY <2>1 DEF UsedInv
  <2> HIDE DEF r
  <2> QED BY <2>1, <2>2, <2>3, <2>4, <2>5
<1> QED BY <1>1, <1>2, <1>3, RulesCorrect, OwnCorrect, PTL DEF Spec

=============================================================================
