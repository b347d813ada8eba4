------------------------------ MODULE Selection ------------------------------
(***************************************************************************)
(* The shares of the action groups of a distribution: how the web          *)
(* application divides a whole of `Total` among them, and how the browser  *)
(* picks one.  Pure operators; a group is a record with the fields id,     *)
(* share and locked, and the groups of a distribution are a sequence.      *)
(***************************************************************************)
EXTENDS Integers, FiniteSets, Sequences, FiniteSetsExt, SequencesExt

CONSTANTS
  Total, \* 1000
  None   \* undefined
ASSUME TotalAssumption == Total \in Nat \ {0}

Unset == -1

\* The shares of the groups at some of the places of gs, summed up to each place.
SharesUpTo(gs, at) ==
  LET sum[i \in 0 .. Len(gs)] ==
        IF i = 0 THEN 0 ELSE sum[i - 1] + (IF i \in at THEN gs[i].share ELSE 0)
  IN  sum
SumAt(gs, at) == SharesUpTo(gs, at)[Len(gs)]
SumOf(gs) == SumAt(gs, DOMAIN gs)
Locked(gs) == {i \in DOMAIN gs : gs[i].locked}
Open(gs) == DOMAIN gs \ Locked(gs)
AllLocked(gs) == Open(gs) = {}

NeedsBalance(gs) == (\E i \in DOMAIN gs : gs[i].share = Unset) \/ SumOf(gs) # Total

-----------------------------------------------------------------------------
(* The web application.                                                    *)

\* `whole` divided among the groups at some places, the remainder going to the first
\* of them; the others keep their shares.
Divide(gs, at, whole) ==
  LET n == Cardinality(at)
      Part(i) == (whole \div n) + (IF i = Min(at) THEN whole % n ELSE 0)
  IN  [i \in DOMAIN gs |-> IF i \in at THEN [gs[i] EXCEPT !.share = Part(i)] ELSE gs[i]]

\* Locked groups keep their shares if that leaves one part at least for each other.
LocksFit(gs) == SumAt(gs, Locked(gs)) + Cardinality(Open(gs)) <= Total
Balanced(gs) ==
  IF LocksFit(gs) THEN Divide(gs, Open(gs), Total - SumAt(gs, Locked(gs)))
                  ELSE Divide(gs, DOMAIN gs, Total)

\* setDistributionValue: the open groups other than the one set share what is left.
\* (Mutant: need not be left anything.)
Settable_Whole(gs, i, v) ==
  /\ v >= 1 /\ i \in Open(gs) /\ Cardinality(Open(gs)) > 1
  /\ v <= Total - SumAt(gs, Locked(gs))
Settable(gs, i, v) ==
  /\ v >= 1 /\ i \in Open(gs) /\ Cardinality(Open(gs)) > 1
  /\ v <= Total - SumAt(gs, Locked(gs)) - (Cardinality(Open(gs)) - 1)
WithShare(gs, i, v) ==
  Divide([gs EXCEPT ![i].share = v], Open(gs) \ {i}, Total - SumAt(gs, Locked(gs)) - v)

-----------------------------------------------------------------------------
(* The browser: ranges of numbers, one after the other.                    *)

Before(gs, i) == SumAt(gs, 1 .. i - 1)
InRange(gs, first, i, v) == v >= first + Before(gs, i) /\ v <= first + Before(gs, i) + gs[i].share - 1
\* The first group in whose range v is; 0 when there is none, and the code throws.
Pick(gs, first, v) ==
  LET hit == {i \in DOMAIN gs : InRange(gs, first, i, v)}
  IN  IF Len(gs) = 1 THEN 1 ELSE IF hit = {} THEN 0 ELSE Min(hit)

\* selectActionGroupForSession, by the value the edge gave the page: 0 .. Total - 1.
\* (Mutant: ranges from 1 on.)
PickForSession_One(gs, v) == Pick(gs, 1, v)
PickForSession(gs, v) == Pick(gs, 0, v)
SessionValue == 0 .. Total - 1

\* selectActionGroupAtRandom, by Random.numberBetween(1, SumOf(gs)).
PickAtRandom(gs, v) == Pick(gs, 1, v)
\* (Mutant: from 0 on.)
RandomValue_Zero(gs) == IF SumOf(gs) >= 0 THEN 0 .. SumOf(gs) ELSE (SumOf(gs) + 1) .. 0
RandomValue(gs) == IF SumOf(gs) >= 1 THEN 1 .. SumOf(gs) ELSE (SumOf(gs) + 1) .. 1
=============================================================================
