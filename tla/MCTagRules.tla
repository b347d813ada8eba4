----------------------------- MODULE MCTagRules -----------------------------
(***************************************************************************)
(* Small instances of the rule engine: three rules in two groups.          *)
(***************************************************************************)
EXTENDS TagRulesProps, TLC

\* Rules 1 and 2 compete in the first group, rule 3 is alone in the second.
MCGroupOf == <<1, 1, 2>>

\* Rule 1 has a trigger of its own, which waits for two events; rules 2 and 3 use
\* the same global trigger.
TwoTriggers == <<"t1", "t2", "t2">>
TwoEvents   == [t \in {"t1", "t2"} |->
                   CASE t = "t1" -> <<"click", "scroll">>
                     [] t = "t2" -> <<"load">>]

\* A global trigger used by all the rules.
GlobalTrigger == <<"t1", "t1", "t1">>
GlobalEvents  == [t \in {"t1"} |-> <<"click">>]

\* The rules repeat after a while, at once, never.
MCInterval == <<1, 0, -1>>

ClearAll  == [e \in Event |-> 1]
ClearSome == [e \in Event |-> IF e = "scroll" THEN -1 ELSE 1]
=============================================================================
