---------------------------- MODULE IngestorCalm ----------------------------
(***************************************************************************)
(* What becomes of an accepted payload.  The code has no lock that would   *)
(* keep its threads apart: astray records the payloads that a race of two  *)
(* of them takes out of the sight of push, calm whether the schedule has   *)
(* kept the threads out of each other's way until now.                     *)
(***************************************************************************)
EXTENDS IngestorProps

VARIABLES
    calm,   \* no call of add has overlapped another one, a scan or a new window
    astray  \* payloads that one of the races below put into an unlinked queue

InAdd(p) == add[p].pc \notin {"new", "accepted", "failed"}
Undisturbed ==
    /\ (\E p \in Payload : InAdd(p)) =>
           \/ \E p \in Payload : Adding(p)
           \/ \E q \in Payload : Working(q)
           \/ Crash
    /\ (\E p \in Payload, s \in Settings : Receive(p, s)) => push.pc \in {"idle", "await"}

\* The queue in slot w of map m holds p.
Holds(m, w, p) == \E q \in Payload : timeWindowMap[m][w] = q /\ p \in queue[q]

\* A call of add saw no queue for the window, and by now there is one: its put
\* replaces it, with all that other calls have filed in it.
Replaced(p) ==
    \E o \in Payload :
        Enqueue(o) /\ add[o].queue = None /\ Holds(add[o].map, add[o].window, p)

\* add files its payload in a queue, or a map, that push has unlinked since add
\* read it, or that another add has replaced.
LateAdd(p) ==
    /\ Enqueue(p)
    /\ IF add[p].queue = None THEN ~LinkedMap(add[p].map) ELSE ~LinkedQueue(add[p].queue)

\* push unlinks the window, or the revision, that it found empty, and by now it is
\* not: a call of add came in between.
LateRemove(p) ==
    LET m == revisionData[push.revision]
    IN  \/ DropWindow /\ Holds(m, push.slot, p)
        \/ DropRevision /\ \E w \in Window : Holds(m, w, p)

\* The payloads that a race takes out of sight in this step.
LeadsAstray == {p \in Payload : Replaced(p) \/ LateAdd(p) \/ LateRemove(p)}

CalmSpec ==
    /\ Init /\ calm = TRUE /\ astray = {}
    /\ [][/\ Next
          /\ calm' = (calm /\ Undisturbed)
          /\ astray' = astray \cup LeadsAstray]_<<vars, calm, astray>>

\* An accepted payload is always accounted for: it waits where push will find it,
\* or a worker has it or its queue, or it was stored, or given up with an error;
\* or it went the way of one of two silent losses, a restart or a race of two
\* threads (put over a queue just linked, a payload filed in what push has unlinked,
\* push unlinking what has just been filled).  No race happens as long as no call of
\* add overlaps another one, a scan or a new window (Ingestor.add and push).
NoneForgotten ==
    /\ \A p \in Payload : Accepted(p) =>
           \/ \E q \in Payload : p \in queue[q] /\ (LinkedQueue(q) \/ q \in Unfinished)
           \/ \E q \in Payload : p \in job[q].batch
           \/ stored[p] # <<>> \/ p \in dropped
           \/ p \in lost \/ p \in astray
    /\ calm => astray = {}
    /\ crashes = 0 => lost = {}
=============================================================================
