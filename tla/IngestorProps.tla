--------------------------- MODULE IngestorProps ---------------------------
(***************************************************************************)
(* The properties of the ingest buffer.                                    *)
(***************************************************************************)
EXTENDS Ingestor

Accepted(p) == add[p].pc = "accepted"

\* The map m is reachable from revisionData, the queue q from a reachable map.
LinkedMap(m)   == \E r \in Revision : revisionData[r] = m
LinkedQueue(q) == \E m \in Payload, w \in Window :
                      LinkedMap(m) /\ timeWindowMap[m][w] = q

\* Each payload is in at most one place: one queue, or one batch, or stored once,
\* or given up with an error, or lost in a restart.  With threads that poll, add,
\* fail and time out concurrently this is what makes delivery at most once
\* (Ingestor.add, push, the push methods of the storage providers).
Settled(p) == stored[p] # <<>> \/ p \in dropped \/ p \in lost

WaitsOnce == \A p, q, r \in Payload :
    /\ p \in queue[q] /\ p \in queue[r] => q = r
    /\ p \in job[q].batch /\ p \in job[r].batch => q = r
    /\ ~(p \in queue[q] /\ p \in job[r].batch)
SettledOnce == \A p \in Payload :
    /\ Len(stored[p]) <= 1
    /\ ~(stored[p] # <<>> /\ p \in dropped \cup lost)
    /\ p \notin dropped \cap lost
    /\ Settled(p) => \A q \in Payload : p \notin queue[q] /\ p \notin job[q].batch
OnlyAccepted == \A p, q \in Payload :
    p \in queue[q] \/ p \in job[q].batch \/ Settled(p) => Accepted(p)

OnePlace == WaitsOnce /\ SettledOnce /\ OnlyAccepted

\* Delivery at most once, as a refinement: the buffer with its threads implements
\* the abstract edge of module Delivery.
Status(p) == IF stored[p] # <<>> THEN "stored"
             ELSE IF p \in dropped THEN "dropped"
             ELSE IF p \in lost THEN "lost"
             ELSE IF Accepted(p) THEN "accepted" ELSE "offered"
D == INSTANCE Delivery WITH
        status <- [p \in Payload |-> Status(p)],
        destination <- [p \in Payload |-> IF stored[p] = <<>> THEN None
                                          ELSE Head(stored[p])]
AtMostOnceDelivery == D!Spec

\* A payload is stored under settings that some call of add brought, and these
\* belong to an environment that some call, possibly another one, named together
\* with the very revision the payload was validated against.  That is as far as
\* revisionToEnvironment sends it astray: never to an environment that has nothing
\* to do with its revision.  It is not said that the settings are the payload's
\* own, nor that they name its revision: putIfAbsent keeps the first settings of an
\* environment, also when later requests bring newer ones (Ingestor.add).
RoutedWithinRevision ==
    \A p \in Payload : stored[p] # <<>> =>
        LET s == Head(stored[p])
        IN  /\ \E o \in Payload : add[o].settings = s
            /\ \E o \in Payload :
                   /\ add[o].settings # None
                   /\ RevOf[add[o].settings] = RevOf[add[p].settings]
                   /\ EnvOf[add[o].settings] = EnvOf[s]

\* A payload is stored by the environment it was sent to ("the storage provider to
\* be used by the IngestEndpointEnvironment to store ingested data").
StoredWhereSent ==
    \A p \in Payload : stored[p] # <<>> =>
        EnvOf[Head(stored[p])] = EnvOf[add[p].settings]

-----------------------------------------------------------------------------
(* Liveness, under FairSpec.                                               *)

\* The queue q is linked under a window that ends within the bound.
EndingQueue(q) ==
    \E m \in Payload, w \in 0 .. MaxWindow - 1 :
        LinkedMap(m) /\ timeWindowMap[m][w] = q

\* The pool was stopped while a job of this push still waited for a thread.
\* shutdownNow discards that job, its Future never completes, and the get() of push
\* on it does not return: only a restart helps.
Starved == shutdown /\ \E q \in Payload : job[q].pc = "listed"

\* No call of a storage provider hangs for ever.
ProviderReturns ==
    \A q \in Payload : []<>(job[q].pc \notin {"prepare", "send"})

\* Every push ends, so that the job is scheduled again (fixedDelay counts from the
\* end of the run before), as long as every call of a provider returns: unless the
\* pool was stopped with jobs that had no thread, nothing else keeps push waiting.
PushEnds == ProviderReturns => (push.pc # "idle" ~> (push.pc = "idle" \/ Starved))

\* A provider that fails before it takes anything is tried again by a later push;
\* it does not fail for ever.
ProviderRecovers ==
    \A q \in Payload : []<>(job[q].pc = "prepare") => []<>(job[q].pc = "drain")

\* A queue does not stay in the buffer for ever: however many tries it takes, it is
\* drained and unlinked (Ingestor.push), or push ends up waiting for a discarded job.
\* (For one environment: the settings of one of two can be lost in the unsynchronised
\* map, and its jobs fail for want of them until another payload of it comes.)
QueueReclaimed ==
    ProviderReturns /\ ProviderRecovers =>
        \A q \in Payload : EndingQueue(q) ~> (~EndingQueue(q) \/ Starved)
=============================================================================
