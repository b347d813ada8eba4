------------------------------ MODULE Delivery ------------------------------
(***************************************************************************)
(* What the ingest edge promises about an event, whatever its internals:   *)
(* it is accepted once, and afterwards it is stored once, or given up with *)
(* an error, or a restart of the edge loses it, and none of these is ever  *)
(* undone. It does not promise that the event is settled at all.           *)
(***************************************************************************)
CONSTANTS
    Payload,    \* the events offered to the edge
    Settings,   \* the ingest configurations an event can be stored under
    None        \* stands for "not stored"

VARIABLES
    status,     \* [Payload -> Status]
    destination \* [Payload -> Settings \cup {None}], what it was stored under

vars == <<status, destination>>

Status == {"offered", "accepted", "stored", "dropped", "lost"}

Init ==
    /\ status = [p \in Payload |-> "offered"]
    /\ destination = [p \in Payload |-> None]

Accept(p) ==
    /\ status[p] = "offered"
    /\ status' = [status EXCEPT ![p] = "accepted"]
    /\ UNCHANGED destination

\* The events of kept, and no others, reach a store.
Store(kept) ==
    /\ \A p \in kept : status[p] = "accepted" /\ destination'[p] \in Settings
    /\ \A p \in Payload \ kept : destination'[p] = destination[p]
    /\ destination' \in [Payload -> Settings \cup {None}]

\* Some accepted events leave the edge together: those of kept reach a store,
\* those of failed are given up with an error.
Settle(kept, failed) ==
    /\ \A p \in failed : status[p] = "accepted"
    /\ kept \cap failed = {}
    /\ Store(kept)
    /\ status' = [p \in Payload |-> IF p \in kept THEN "stored"
                                    ELSE IF p \in failed THEN "dropped"
                                    ELSE status[p]]

\* The edge restarts: writes on their way reach a store, the rest of what was
\* accepted is lost.
Restart(kept) ==
    /\ Store(kept)
    /\ status' = [p \in Payload |-> IF p \in kept THEN "stored"
                                    ELSE IF status[p] = "accepted" THEN "lost"
                                    ELSE status[p]]

Next ==
    \/ \E p \in Payload : Accept(p)
    \/ \E kept, failed \in SUBSET Payload : Settle(kept, failed)
    \/ \E kept \in SUBSET Payload : Restart(kept)

Spec == Init /\ [][Next]_vars
=============================================================================
