------------------------------ MODULE Ingestor ------------------------------
(***************************************************************************)
(* The ingest buffer of the edge server (edge/.../ingest).  Request threads*)
(* call Ingestor.add, which files the payload under its revision and the   *)
(* current time window; a scheduled job calls Ingestor.push, which scans   *)
(* the buffer, hands every complete window to a pool of storage workers    *)
(* and discards the windows and revisions it finds empty.  Nothing locks   *)
(* the structure as a whole: each step below is one atomic operation of the*)
(* concurrent collections, and add, push and workers interleave freely.    *)
(*                                                                         *)
(* A revision's window map and a window's queue are heap objects that a    *)
(* thread may hold after they were unlinked.  Each is created by one call  *)
(* of add, and is named here by the payload of that call.                  *)
(***************************************************************************)
EXTENDS Naturals, Sequences, FiniteSets

CONSTANTS
    Payload,      \* the events offered, one call of add each
    Environment,  \* ingest endpoint environments
    Revision,     \* ingest endpoint revisions
    Settings,     \* the IngestSettings that the edge may read for a request
    EnvOf,        \* [Settings -> Environment]
    RevOf,        \* [Settings -> Revision]
    ProviderOf,   \* [Settings -> Provider]
    MaxThreads,   \* MAX_THREADS of the worker pool
    MaxWindow,    \* bound: the last time window of a behaviour
    MaxCrash,     \* bound: the restarts of the process in a behaviour
    None          \* null

Provider == {"MONGODB", "GC_BIGQUERY_STREAM", "AWS_S3", "LOG"}
Window   == 0 .. MaxWindow

ASSUME ConfigAssumption ==
    /\ EnvOf \in [Settings -> Environment]
    /\ RevOf \in [Settings -> Revision]
    /\ ProviderOf \in [Settings -> Provider]

ASSUME BoundAssumption ==
    MaxThreads \in Nat \ {0} /\ MaxWindow \in Nat /\ MaxCrash \in Nat

ASSUME NoneAssumption ==
    /\ None \notin Payload
    /\ None \notin Environment
    /\ None \notin Revision
    /\ None \notin Settings

VARIABLES
    window,                     \* getCurrentWritableWindow(), the clock
    environmentIngestSettings,  \* [Environment -> Settings or None]
    revisionToEnvironment,      \* [Revision -> Environment or None]
    revisionData,               \* [Revision -> map name or None]
    timeWindowMap,              \* [map name -> [Window -> queue name or None]]
    queue,                      \* [queue name -> payloads waiting in it]
    add,                        \* [Payload -> the call of add for it]
    push,                       \* the thread of the scheduled job
    job,                        \* [queue name -> the job of this push for it]
    shutdown,                   \* the pool was stopped by shutdownNow
    stored,                     \* [Payload -> settings it was written under]
    dropped,                    \* payloads the edge gave up with an error
    lost,                       \* payloads a restart took with it, unreported
    crashes                     \* restarts so far

buffer == <<environmentIngestSettings, revisionToEnvironment, revisionData,
            timeWindowMap, queue>>
outcome == <<stored, dropped, lost>>
vars == <<window, buffer, add, push, job, shutdown, outcome, crashes>>

AddPc  == {"new", "settings", "environment", "putMap", "getMap", "window",
           "getQueue", "enqueue", "accepted", "failed"}
PushPc == {"idle", "scan", "dropRevision", "windows", "dropWindow", "await"}
JobPc  == {"none", "listed", "prepare", "drain", "send", "finished"}

\* A call of add and its local variables.
AddCall == [pc       : AddPc,
            settings : Settings \cup {None},
            map      : Payload \cup {None},
            window   : Window,
            queue    : Payload \cup {None}]

PushState == [pc        : PushPc,
              window    : Window,          \* currentWindow of this push
              revisions : SUBSET Revision, \* still to visit
              revision  : Revision \cup {None},
              windows   : SUBSET Window,   \* of revision, still to visit
              slot      : Window]          \* the window found empty

JobState == [pc       : JobPc,
             settings : Settings \cup {None},
             batch    : SUBSET Payload]    \* polled from the queue, not yet written

TypeOK ==
    /\ window \in Window
    /\ environmentIngestSettings \in [Environment -> Settings \cup {None}]
    /\ revisionToEnvironment \in [Revision -> Environment \cup {None}]
    /\ revisionData \in [Revision -> Payload \cup {None}]
    /\ timeWindowMap \in [Payload -> [Window -> Payload \cup {None}]]
    /\ queue \in [Payload -> SUBSET Payload]
    /\ add \in [Payload -> AddCall]
    /\ push \in PushState
    /\ job \in [Payload -> JobState]
    /\ shutdown \in BOOLEAN
    /\ stored \in [Payload -> Seq(Settings)]
    /\ dropped \in SUBSET Payload
    /\ lost \in SUBSET Payload
    /\ crashes \in 0 .. MaxCrash

NoCall == [pc |-> "new", settings |-> None, map |-> None, window |-> 0,
           queue |-> None]
NoJob  == [pc |-> "none", settings |-> None, batch |-> {}]
NoPush == [pc |-> "idle", window |-> 0, revisions |-> {}, revision |-> None,
           windows |-> {}, slot |-> 0]

NoSlots == [w \in Window |-> None]

Init ==
    /\ window = 0
    /\ environmentIngestSettings = [e \in Environment |-> None]
    /\ revisionToEnvironment = [r \in Revision |-> None]
    /\ revisionData = [r \in Revision |-> None]
    /\ timeWindowMap = [m \in Payload |-> NoSlots]
    /\ queue = [q \in Payload |-> {}]
    /\ add = [p \in Payload |-> NoCall]
    /\ push = NoPush
    /\ job = [q \in Payload |-> NoJob]
    /\ shutdown = FALSE
    /\ stored = [p \in Payload |-> <<>>]
    /\ dropped = {}
    /\ lost = {}
    /\ crashes = 0

-----------------------------------------------------------------------------
(* Ingestor.add, on the request thread of payload p.                       *)
(*                                                                         *)
(* A definition named X_... is X with a mistake in it: a run in which it   *)
(* stands for X violates the property the mistake is about.                *)

CurrentWindow_RoundedUp == window + 1
CurrentWindow == window

Goto(p, pc) == add' = [add EXCEPT ![p].pc = pc]

\* Another thread is at the same put of the same unsynchronised HashMap.
Racing(p) == \E o \in Payload \ {p} : add[o].pc = add[p].pc

\* HashMap.put and putIfAbsent of a key that is absent.  Two threads that fill the
\* same bucket at once leave one of the two entries; two that grow the map at once
\* share its old entries out between two tables, of which one is kept.
InsertInto(map, p, key, value) ==
    LET full == [map EXCEPT ![key] = value]
    IN  IF Racing(p)
        THEN {[k \in DOMAIN map |-> IF k \in kept THEN full[k] ELSE None] :
                 kept \in SUBSET DOMAIN map}
        ELSE {full}

\* IngestEntity read settings s (from its cache) and calls add(payload, s).
Receive(p, s) ==
    /\ add[p].pc = "new"
    /\ add' = [add EXCEPT ![p].pc = "settings", ![p].settings = s]
    /\ UNCHANGED <<window, buffer, push, job, shutdown, outcome, crashes>>

PutSettings(p) ==
    LET s == add[p].settings
        e == EnvOf[s]
    IN  /\ add[p].pc = "settings"
        /\ Goto(p, "environment")
        /\ environmentIngestSettings' \in
               IF environmentIngestSettings[e] # None
               THEN {environmentIngestSettings}
               ELSE InsertInto(environmentIngestSettings, p, e, s)
        /\ UNCHANGED <<window, revisionToEnvironment, revisionData,
                       timeWindowMap, queue, push, job, shutdown, outcome, crashes>>

PutEnvironment(p) ==
    LET r == RevOf[add[p].settings]
        e == EnvOf[add[p].settings]
    IN  /\ add[p].pc = "environment"
        /\ Goto(p, "putMap")
        /\ revisionToEnvironment' \in
               IF revisionToEnvironment[r] # None
               THEN {[revisionToEnvironment EXCEPT ![r] = e]}
               ELSE InsertInto(revisionToEnvironment, p, r, e)
        /\ UNCHANGED <<window, environmentIngestSettings, revisionData,
                       timeWindowMap, queue, push, job, shutdown, outcome, crashes>>

PutMap(p) ==
    LET r == RevOf[add[p].settings]
    IN  /\ add[p].pc = "putMap"
        /\ Goto(p, "getMap")
        /\ revisionData' = [revisionData EXCEPT ![r] = IF @ = None THEN p ELSE @]
        /\ UNCHANGED <<window, environmentIngestSettings, revisionToEnvironment,
                       timeWindowMap, queue, push, job, shutdown, outcome, crashes>>

GetMap(p) ==
    /\ add[p].pc = "getMap"
    /\ add' = [add EXCEPT ![p].pc = "window",
                          ![p].map = revisionData[RevOf[add[p].settings]]]
    /\ UNCHANGED <<window, buffer, push, job, shutdown, outcome, crashes>>

ReadWindow(p) ==
    /\ add[p].pc = "window"
    /\ add' = [add EXCEPT ![p].pc = "getQueue", ![p].window = CurrentWindow]
    /\ UNCHANGED <<window, buffer, push, job, shutdown, outcome, crashes>>

\* The map may be null by now (push removed the revision in between): the
\* request fails with a NullPointerException.
GetQueue(p) ==
    /\ add[p].pc = "getQueue"
    /\ IF add[p].map = None
       THEN Goto(p, "failed")
       ELSE add' = [add EXCEPT ![p].pc = "enqueue",
                               ![p].queue = timeWindowMap[add[p].map][add[p].window]]
    /\ UNCHANGED <<window, buffer, push, job, shutdown, outcome, crashes>>

\* Without a queue a new one, named p, is filled and linked; otherwise the
\* payload joins the queue read before, linked or not.
Enqueue_NotPut(p) ==
    /\ add[p].pc = "enqueue"
    /\ Goto(p, "accepted")
    /\ queue' = [queue EXCEPT ![IF add[p].queue = None THEN p ELSE add[p].queue] = @ \cup {p}]
    /\ UNCHANGED <<window, environmentIngestSettings, revisionToEnvironment,
                   revisionData, timeWindowMap, push, job, shutdown, outcome, crashes>>
Enqueue(p) ==
    LET c == add[p]
        q == IF c.queue = None THEN p ELSE c.queue
    IN  /\ c.pc = "enqueue"
        /\ Goto(p, "accepted")
        /\ queue' = [queue EXCEPT ![q] = @ \cup {p}]
        /\ timeWindowMap' = IF c.queue = None
                            THEN [timeWindowMap EXCEPT ![c.map][c.window] = p]
                            ELSE timeWindowMap
        /\ UNCHANGED <<window, environmentIngestSettings, revisionToEnvironment,
                       revisionData, push, job, shutdown, outcome, crashes>>

Adding(p) ==
    \/ PutSettings(p) \/ PutEnvironment(p) \/ PutMap(p) \/ GetMap(p)
    \/ ReadWindow(p) \/ GetQueue(p) \/ Enqueue(p)

-----------------------------------------------------------------------------
(* Ingestor.push, on the thread of IngestJob.exec.  The scan visits the    *)
(* keys present when its iterator was made and reads each value when it    *)
(* comes to it; a key inserted later is left to the next push.             *)

PushStart ==
    /\ push.pc = "idle"
    /\ push' = [NoPush EXCEPT !.pc = "scan", !.window = CurrentWindow,
                              !.revisions = {r \in Revision : revisionData[r] # None}]
    /\ shutdown' = FALSE
    /\ UNCHANGED <<window, buffer, add, job, outcome, crashes>>

ScanRevision(r) ==
    LET slots == timeWindowMap[revisionData[r]]
        used  == {w \in Window : slots[w] # None}
    IN  /\ push.pc = "scan"
        /\ r \in push.revisions
        /\ push' = [push EXCEPT !.pc = IF used = {} THEN "dropRevision" ELSE "windows",
                                !.revisions = @ \ {r},
                                !.revision = r,
                                !.windows = used]
        /\ UNCHANGED <<window, buffer, add, job, shutdown, outcome, crashes>>

DropRevision ==
    /\ push.pc = "dropRevision"
    /\ push' = [push EXCEPT !.pc = "scan"]
    /\ revisionData' = [revisionData EXCEPT ![push.revision] = None]
    /\ UNCHANGED <<window, environmentIngestSettings, revisionToEnvironment,
                   timeWindowMap, queue, add, job, shutdown, outcome, crashes>>

\* The window takes no more entries, by the clock of this push.
Complete(w) == w < push.window

\* What the scan may read as the settings of revision r: a HashMap that another
\* thread is growing can also answer null.
SettingsFor_AnyEnvironment(r) == {environmentIngestSettings[e] : e \in Environment}
SettingsFor(r) ==
    LET e == revisionToEnvironment[r]
    IN  {IF e = None THEN None ELSE environmentIngestSettings[e]}
        \cup {None : p \in {o \in Payload : add[o].pc \in {"settings", "environment"}}}

ScanWindow(w) ==
    LET q == timeWindowMap[revisionData[push.revision]][w]
    IN  /\ push.pc = "windows"
        /\ w \in push.windows
        /\ IF Complete(w) /\ queue[q] = {}
           THEN /\ push' = [push EXCEPT !.pc = "dropWindow", !.windows = @ \ {w},
                                        !.slot = w]
                /\ UNCHANGED job
           ELSE /\ push' = [push EXCEPT !.windows = @ \ {w}]
                /\ IF Complete(w)
                   THEN \E s \in SettingsFor(push.revision) :
                            job' = [job EXCEPT ![q] = [pc |-> "listed", settings |-> s,
                                                       batch |-> {}]]
                   ELSE UNCHANGED job
        /\ UNCHANGED <<window, buffer, add, shutdown, outcome, crashes>>

DropWindow_Keeps ==
    /\ push.pc = "dropWindow"
    /\ push' = [push EXCEPT !.pc = "windows"]
    /\ UNCHANGED <<window, buffer, add, job, shutdown, outcome, crashes>>
DropWindow ==
    LET m == revisionData[push.revision]
    IN  /\ push.pc = "dropWindow"
        /\ push' = [push EXCEPT !.pc = "windows"]
        /\ timeWindowMap' = [timeWindowMap EXCEPT ![m][push.slot] = None]
        /\ UNCHANGED <<window, environmentIngestSettings, revisionToEnvironment,
                       revisionData, queue, add, job, shutdown, outcome, crashes>>

EndWindows ==
    /\ push.pc = "windows"
    /\ push.windows = {}
    /\ push' = [push EXCEPT !.pc = "scan"]
    /\ UNCHANGED <<window, buffer, add, job, shutdown, outcome, crashes>>

\* Every listed job is submitted, the pool is shut down, push waits.
EndScan ==
    /\ push.pc = "scan"
    /\ push.revisions = {}
    /\ push' = [push EXCEPT !.pc = "await"]
    /\ UNCHANGED <<window, buffer, add, job, shutdown, outcome, crashes>>

Unfinished_Forever == {q \in Payload : job[q].pc # "none"}
Unfinished == {q \in Payload : job[q].pc \notin {"none", "finished"}}
Running    == {q \in Unfinished : job[q].pc # "listed"}

\* awaitTermination gave up: shutdownNow discards the jobs not yet started.  A
\* job for which the pool has a thread starts well within the timeout.
Timeout ==
    /\ push.pc = "await"
    /\ ~shutdown
    /\ Unfinished # {}
    /\ Cardinality(Running) = MaxThreads \/ Unfinished = Running
    /\ shutdown' = TRUE
    /\ UNCHANGED <<window, buffer, add, push, job, outcome, crashes>>

\* runningJob.get() has returned for every job.
PushReturn ==
    /\ push.pc = "await"
    /\ Unfinished = {}
    /\ push' = NoPush
    /\ job' = [q \in Payload |-> NoJob]
    /\ UNCHANGED <<window, buffer, add, shutdown, outcome, crashes>>

Pushing ==
    \/ PushStart \/ DropRevision \/ DropWindow \/ EndWindows \/ EndScan
    \/ PushReturn
    \/ \E r \in Revision : ScanRevision(r)
    \/ \E w \in Window : ScanWindow(w)

-----------------------------------------------------------------------------
(* The storage workers: one job per listed queue.                          *)

ProviderFor(q) == ProviderOf[job[q].settings]

\* Without settings the job ends in a NullPointerException before it reads q.
StartJob(q) ==
    /\ push.pc = "await"
    /\ ~shutdown
    /\ job[q].pc = "listed"
    /\ Cardinality(Running) < MaxThreads
    /\ job' = [job EXCEPT ![q].pc =
                   IF job[q].settings = None THEN "finished"
                   ELSE IF ProviderFor(q) \in {"GC_BIGQUERY_STREAM", "AWS_S3"}
                   THEN "prepare"
                   ELSE "drain"]
    /\ UNCHANGED <<window, buffer, add, push, shutdown, outcome, crashes>>

\* StreamToBigQuery builds its client and the missing table, PushToS3 its client,
\* before they take anything from q; when that fails q keeps its payloads.
Prepare(q) ==
    /\ job[q].pc = "prepare"
    /\ \E pc \in {"drain", "finished"} : job' = [job EXCEPT ![q].pc = pc]
    /\ UNCHANGED <<window, buffer, add, push, shutdown, outcome, crashes>>

\* getNextBatch polls until q is empty; what arrives meanwhile is polled or stays.
Poll_Peeks(q) == queue' = queue
Poll(q) == queue' = [queue EXCEPT ![q] = {}]

\* One turn of while (!q.isEmpty()) { ... getNextBatch(q) ... }.
Drain(q) ==
    LET s3 == ProviderFor(q) = "AWS_S3"
    IN  /\ job[q].pc = "drain"
        /\ Poll(q)
        /\ IF ProviderFor(q) = "LOG" /\ queue[q] # {}
           THEN /\ dropped' = dropped \cup queue[q]
                /\ UNCHANGED job
           ELSE /\ UNCHANGED dropped
                /\ job' = [job EXCEPT
                      ![q].batch = @ \cup queue[q],
                      ![q].pc = IF queue[q] = {}
                                THEN IF job[q].batch = {} THEN "finished" ELSE "send"
                                ELSE IF s3 THEN "drain" ELSE "send"]
        /\ UNCHANGED <<window, environmentIngestSettings, revisionToEnvironment,
                       revisionData, timeWindowMap, add, push, shutdown, stored,
                       lost, crashes>>

\* The payloads of kept reach the store under settings s.
Write(kept, s) ==
    stored' = [p \in Payload |-> IF p \in kept THEN Append(stored[p], s) ELSE stored[p]]

SendOk(q) ==
    /\ job[q].pc = "send"
    /\ Write(job[q].batch, job[q].settings)
    /\ job' = [job EXCEPT ![q].batch = {},
                          ![q].pc = IF ProviderFor(q) = "AWS_S3" THEN "finished"
                                                                 ELSE "drain"]
    /\ UNCHANGED <<window, buffer, add, push, shutdown, dropped, lost, crashes>>

\* The write is refused, or its answer is lost: what the store kept is a part of
\* the batch (all or nothing for an S3 object).  An exception ends the job, row
\* errors of a BigQuery response do not; the batch is not put back.
SendFail(q) ==
    /\ job[q].pc = "send"
    /\ \E kept \in IF ProviderFor(q) = "AWS_S3" THEN {{}, job[q].batch}
                                                ELSE SUBSET job[q].batch :
          /\ Write(kept, job[q].settings)
          /\ dropped' = dropped \cup (job[q].batch \ kept)
    /\ \E pc \in IF ProviderFor(q) = "GC_BIGQUERY_STREAM" THEN {"drain", "finished"}
                                                          ELSE {"finished"} :
          job' = [job EXCEPT ![q].batch = {}, ![q].pc = pc]
    /\ UNCHANGED <<window, buffer, add, push, shutdown, lost, crashes>>

Working(q) == StartJob(q) \/ Prepare(q) \/ Drain(q) \/ SendOk(q) \/ SendFail(q)

-----------------------------------------------------------------------------
Tick ==
    /\ window < MaxWindow
    /\ window' = window + 1
    /\ UNCHANGED <<buffer, add, push, job, shutdown, outcome, crashes>>

\* The process restarts: the buffer is gone, calls of add in progress fail, and
\* a write on its way to a store may or may not have happened.  Whatever was
\* accepted and is not settled by then is lost, and nothing reports it.
Crash ==
    LET sending(p) == {q \in Payload : job[q].pc = "send" /\ p \in job[q].batch}
        unsettled  == {p \in Payload : add[p].pc = "accepted"} \ dropped
    IN  /\ crashes < MaxCrash
        /\ crashes' = crashes + 1
        /\ environmentIngestSettings' = [e \in Environment |-> None]
        /\ revisionToEnvironment' = [r \in Revision |-> None]
        /\ revisionData' = [r \in Revision |-> None]
        /\ timeWindowMap' = [m \in Payload |-> NoSlots]
        /\ queue' = [q \in Payload |-> {}]
        /\ add' = [p \in Payload |-> IF add[p].pc \in {"new", "accepted"} THEN add[p]
                                     ELSE [NoCall EXCEPT !.pc = "failed",
                                                         !.settings = add[p].settings]]
        /\ push' = NoPush
        /\ job' = [q \in Payload |-> NoJob]
        /\ shutdown' = FALSE
        /\ \E kept \in SUBSET {p \in Payload : sending(p) # {}} :
               stored' = [p \in Payload |->
                             IF p \in kept
                             THEN Append(stored[p], job[CHOOSE q \in sending(p) : TRUE].settings)
                             ELSE stored[p]]
        /\ lost' = lost \cup {p \in unsettled : stored'[p] = <<>>}
        /\ UNCHANGED <<window, dropped>>

Next ==
    \/ \E p \in Payload, s \in Settings : Receive(p, s)
    \/ \E p \in Payload : Adding(p)
    \/ Pushing
    \/ Timeout
    \/ \E q \in Payload : Working(q)
    \/ Tick
    \/ Crash

Spec == Init /\ [][Next]_vars

\* The request threads, the scheduled job and the pool's threads run; nothing
\* forces a storage provider to answer, a timeout or a crash.  The clock advances.
Fairness ==
    /\ \A p \in Payload : WF_vars(Adding(p))
    /\ WF_vars(Pushing)
    /\ \A q \in Payload : WF_vars(StartJob(q) \/ Drain(q))
    /\ WF_vars(Tick)

FairSpec == Spec /\ Fairness
=============================================================================
