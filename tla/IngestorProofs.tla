--------------------------- MODULE IngestorProofs ---------------------------
(***************************************************************************)
(* Theorems about the ingest buffer, for any payloads, configurations,     *)
(* number of pool threads, windows and restarts.                           *)
(***************************************************************************)
EXTENDS IngestorCalm, TLAPS

\* What the references of the threads point to: only push unlinks a map or a
\* slot, so what its scan noted is still there when it comes to it.
ScanRefs ==
    /\ \A r \in push.revisions : revisionData[r] # None
    /\ push.pc \in {"dropRevision", "windows", "dropWindow"} =>
           /\ push.revision # None
           /\ revisionData[push.revision] # None
           /\ push.revision \notin push.revisions
    /\ push.pc \in {"windows", "dropWindow"} =>
           \A w \in push.windows : timeWindowMap[revisionData[push.revision]][w] # None
    /\ push.pc = "dropWindow" => push.slot \notin push.windows

AddRefs ==
    \A p \in Payload :
        /\ add[p].pc \notin {"new", "failed"} => add[p].settings # None
        /\ add[p].pc = "enqueue" => add[p].map # None

JobRefs ==
    \A q \in Payload :
        job[q].pc \in {"prepare", "drain", "send"} => job[q].settings # None

Refs == ScanRefs /\ AddRefs /\ JobRefs

TypeInv == TypeOK /\ Refs

\* The values that a thread, a job or a map starts with have their types.
LEMMA InitialValues ==
    /\ 0 \in Window
    /\ NoSlots \in [Window -> Payload \cup {None}]
    /\ NoCall \in AddCall
    /\ NoPush \in PushState
    /\ NoJob \in JobState
<1>1. 0 \in Window
  BY BoundAssumption DEF Window
<1>2. NoCall \in AddCall
  BY <1>1 DEF NoCall, AddCall, AddPc
<1>3. NoPush \in PushState
  BY <1>1 DEF NoPush, PushState, PushPc
<1>4. NoJob \in JobState
  BY DEF NoJob, JobState, JobPc
<1>5. QED
  BY <1>1, <1>2, <1>3, <1>4 DEF NoSlots

\* Before the first event and the first push the buffer is empty, and no thread
\* holds a reference.
LEMMA InitTypeInv == Init => TypeInv
<1> SUFFICES ASSUME Init PROVE TypeInv
  OBVIOUS
<1> USE DEF Init
<1>1. TypeOK
  <2>1. crashes \in 0 .. MaxCrash
    BY BoundAssumption
  <2>2. stored \in [Payload -> Seq(Settings)]
    OBVIOUS
  <2>3. timeWindowMap \in [Payload -> [Window -> Payload \cup {None}]]
    BY InitialValues
  <2>4. QED
    BY InitialValues, <2>1, <2>2, <2>3 DEF TypeOK
<1>2. Refs
  BY DEF Refs, ScanRefs, AddRefs, JobRefs, NoCall, NoPush, NoJob
<1>3. QED
  BY <1>1, <1>2 DEF TypeInv

\* IngestEntity hands a payload to add: what add reads next, its settings, is there.
LEMMA ReceiveType == ASSUME TypeInv, NEW p \in Payload, NEW s \in Settings, Receive(p, s) PROVE TypeInv'
<1> USE DEF TypeInv, Refs
<1>1. TypeOK'
  <2>1. add[p] \in AddCall
    BY DEF TypeOK
  <2>2. [add[p] EXCEPT !.pc = "settings", !.settings = s] \in AddCall
    BY <2>1 DEF AddCall, AddPc
  <2>3. add' \in [Payload -> AddCall]
    BY <2>2 DEF TypeOK, Receive
  <2>4. QED
    BY <2>1, <2>2, <2>3 DEF TypeOK, Receive, buffer, outcome
<1>2. ScanRefs'
  BY NoneAssumption DEF ScanRefs, TypeOK, PushState, PushPc, Receive, buffer, outcome
<1>3. AddRefs'
  BY NoneAssumption DEF AddRefs, TypeOK, AddCall, Receive, buffer, outcome
<1>4. JobRefs'
  BY NoneAssumption DEF JobRefs, TypeOK, JobState, Receive, buffer, outcome
<1>5. QED
  BY <1>1, <1>2, <1>3, <1>4

\* putIfAbsent of the settings leaves the other maps and every reference alone.
LEMMA PutSettingsType == ASSUME TypeInv, NEW p \in Payload, PutSettings(p) PROVE TypeInv'
<1> USE DEF TypeInv, Refs
<1>1. TypeOK'
  <2>1. add[p] \in AddCall
    BY DEF TypeOK
  <2>2. [add[p] EXCEPT !.pc = "environment"] \in AddCall
    BY <2>1 DEF AddCall, AddPc
  <2>3. add' \in [Payload -> AddCall]
    BY <2>2 DEF TypeOK, PutSettings, Goto
  <2>4. add[p].settings \in Settings /\ EnvOf[add[p].settings] \in Environment
    BY <2>1, ConfigAssumption DEF AddRefs, AddCall, PutSettings
  <2>5. environmentIngestSettings' \in [Environment -> Settings \cup {None}]
    BY <2>4 DEF TypeOK, PutSettings, InsertInto
  <2>6. QED
    BY <2>1, <2>2, <2>3, <2>4, <2>5 DEF TypeOK, PutSettings, Goto, buffer, outcome
<1>2. ScanRefs'
  BY NoneAssumption DEF ScanRefs, TypeOK, PushState, PushPc, PutSettings, Goto, buffer, outcome
<1>3. AddRefs'
  BY NoneAssumption DEF AddRefs, TypeOK, AddCall, PutSettings, Goto, buffer, outcome
<1>4. JobRefs'
  BY NoneAssumption DEF JobRefs, TypeOK, JobState, PutSettings, Goto, buffer, outcome
<1>5. QED
  BY <1>1, <1>2, <1>3, <1>4

\* put of the revision's environment leaves the other maps and references alone.
LEMMA PutEnvironmentType == ASSUME TypeInv, NEW p \in Payload, PutEnvironment(p) PROVE TypeInv'
<1> USE DEF TypeInv, Refs
<1>1. TypeOK'
  <2>1. add[p] \in AddCall
    BY DEF TypeOK
  <2>2. [add[p] EXCEPT !.pc = "putMap"] \in AddCall
    BY <2>1 DEF AddCall, AddPc
  <2>3. add' \in [Payload -> AddCall]
    BY <2>2 DEF TypeOK, PutEnvironment, Goto
  <2>4. add[p].settings \in Settings /\ EnvOf[add[p].settings] \in Environment
    BY <2>1, ConfigAssumption DEF AddRefs, AddCall, PutEnvironment
  <2>5. revisionToEnvironment' \in [Revision -> Environment \cup {None}]
    BY <2>4 DEF TypeOK, PutEnvironment, InsertInto
  <2>6. QED
    BY <2>1, <2>2, <2>3, <2>4, <2>5 DEF TypeOK, PutEnvironment, Goto, buffer, outcome
<1>2. ScanRefs'
  BY NoneAssumption DEF ScanRefs, TypeOK, PushState, PushPc, PutEnvironment, Goto, buffer, outcome
<1>3. AddRefs'
  BY NoneAssumption DEF AddRefs, TypeOK, AddCall, PutEnvironment, Goto, buffer, outcome
<1>4. JobRefs'
  BY NoneAssumption DEF JobRefs, TypeOK, JobState, PutEnvironment, Goto, buffer, outcome
<1>5. QED
  BY <1>1, <1>2, <1>3, <1>4

\* putIfAbsent of a window map never takes away the map that push is scanning.
LEMMA PutMapType == ASSUME TypeInv, NEW p \in Payload, PutMap(p) PROVE TypeInv'
<1> USE DEF TypeInv, Refs
<1>1. TypeOK'
  <2>1. add[p] \in AddCall
    BY DEF TypeOK
  <2>2. [add[p] EXCEPT !.pc = "getMap"] \in AddCall
    BY <2>1 DEF AddCall, AddPc
  <2>3. add' \in [Payload -> AddCall]
    BY <2>2 DEF TypeOK, PutMap, Goto
  <2>4. revisionData' \in [Revision -> Payload \cup {None}]
    BY DEF TypeOK, PutMap
  <2>5. QED
    BY <2>1, <2>2, <2>3, <2>4 DEF TypeOK, PutMap, Goto, buffer, outcome
<1>2. ScanRefs'
  BY NoneAssumption DEF ScanRefs, TypeOK, PushState, PushPc, PutMap, Goto, buffer, outcome
<1>3. AddRefs'
  BY NoneAssumption DEF AddRefs, TypeOK, AddCall, PutMap, Goto, buffer, outcome
<1>4. JobRefs'
  BY NoneAssumption DEF JobRefs, TypeOK, JobState, PutMap, Goto, buffer, outcome
<1>5. QED
  BY <1>1, <1>2, <1>3, <1>4

\* get of the window map: what add remembers is a map, or null.
LEMMA GetMapType == ASSUME TypeInv, NEW p \in Payload, GetMap(p) PROVE TypeInv'
<1> USE DEF TypeInv, Refs
<1>1. TypeOK'
  <2>1. add[p] \in AddCall
    BY DEF TypeOK
  <2>2. revisionData[RevOf[add[p].settings]] \in Payload \cup {None}
    BY <2>1, ConfigAssumption DEF TypeOK, AddRefs, AddCall, GetMap
  <2>3. [add[p] EXCEPT !.pc = "window", !.map = revisionData[RevOf[add[p].settings]]] \in AddCall
    BY <2>1, <2>2 DEF AddCall, AddPc
  <2>4. add' \in [Payload -> AddCall]
    BY <2>3 DEF TypeOK, GetMap
  <2>5. QED
    BY <2>1, <2>2, <2>3, <2>4 DEF TypeOK, GetMap, buffer, outcome
<1>2. ScanRefs'
  BY NoneAssumption DEF ScanRefs, TypeOK, PushState, PushPc, GetMap, buffer, outcome
<1>3. AddRefs'
  BY NoneAssumption DEF AddRefs, TypeOK, AddCall, GetMap, buffer, outcome
<1>4. JobRefs'
  BY NoneAssumption DEF JobRefs, TypeOK, JobState, GetMap, buffer, outcome
<1>5. QED
  BY <1>1, <1>2, <1>3, <1>4

\* The window that add remembers is the one of the clock.
LEMMA ReadWindowType == ASSUME TypeInv, NEW p \in Payload, ReadWindow(p) PROVE TypeInv'
<1> USE DEF TypeInv, Refs
<1>1. TypeOK'
  <2>1. add[p] \in AddCall
    BY DEF TypeOK
  <2>2. [add[p] EXCEPT !.pc = "getQueue", !.window = CurrentWindow] \in AddCall
    BY <2>1 DEF AddCall, AddPc, TypeOK, CurrentWindow
  <2>3. add' \in [Payload -> AddCall]
    BY <2>2 DEF TypeOK, ReadWindow
  <2>4. QED
    BY <2>1, <2>2, <2>3 DEF TypeOK, ReadWindow, buffer, outcome
<1>2. ScanRefs'
  BY NoneAssumption DEF ScanRefs, TypeOK, PushState, PushPc, ReadWindow, buffer, outcome
<1>3. AddRefs'
  BY NoneAssumption DEF AddRefs, TypeOK, AddCall, ReadWindow, buffer, outcome
<1>4. JobRefs'
  BY NoneAssumption DEF JobRefs, TypeOK, JobState, ReadWindow, buffer, outcome
<1>5. QED
  BY <1>1, <1>2, <1>3, <1>4

\* get of the queue: only a call that has a window map goes on to enqueue.
LEMMA GetQueueType == ASSUME TypeInv, NEW p \in Payload, GetQueue(p) PROVE TypeInv'
<1> USE DEF TypeInv, Refs
<1>1. TypeOK'
  <2>1. add[p] \in AddCall
    BY DEF TypeOK
  <2>2. [add[p] EXCEPT !.pc = "failed"] \in AddCall
    BY <2>1 DEF AddCall, AddPc
  <2>3. add[p].map # None => timeWindowMap[add[p].map][add[p].window] \in Payload \cup {None}
    BY <2>1 DEF TypeOK, AddCall
  <2>4. add[p].map # None => [add[p] EXCEPT !.pc = "enqueue", !.queue = timeWindowMap[add[p].map][add[p].window]] \in AddCall
    BY <2>1, <2>3 DEF AddCall, AddPc
  <2>5. add' \in [Payload -> AddCall]
    BY <2>2, <2>4 DEF TypeOK, GetQueue, Goto
  <2>6. QED
    BY <2>1, <2>2, <2>3, <2>4, <2>5 DEF TypeOK, GetQueue, Goto, buffer, outcome
<1>2. ScanRefs'
  BY NoneAssumption DEF ScanRefs, TypeOK, PushState, PushPc, GetQueue, Goto, buffer, outcome
<1>3. AddRefs'
  <2>1. \A o \in Payload \ {p} : add'[o] = add[o]
    BY DEF GetQueue, Goto, TypeOK
  <2>2. add[p].settings # None
    BY DEF GetQueue, AddRefs
  <2>3. CASE add[p].map = None
    <3>1. add'[p] = [add[p] EXCEPT !.pc = "failed"]
      BY <2>3 DEF GetQueue, Goto, TypeOK
    <3>2. add[p] \in AddCall
      BY DEF TypeOK
    <3>3. add'[p].pc = "failed"
      BY <3>1, <3>2 DEF AddCall
    <3>4. QED
      BY <2>1, <3>3 DEF AddRefs
  <2>4. CASE add[p].map # None
    <3>1. add'[p] = [add[p] EXCEPT !.pc = "enqueue",
                                   !.queue = timeWindowMap[add[p].map][add[p].window]]
      BY <2>4 DEF GetQueue, TypeOK
    <3>2. add[p] \in AddCall
      BY DEF TypeOK
    <3>3. add'[p].map = add[p].map /\ add'[p].settings = add[p].settings
      BY <3>1, <3>2 DEF AddCall
    <3>4. QED
      BY <2>1, <2>2, <2>4, <3>3 DEF AddRefs
  <2>5. QED
    BY <2>3, <2>4
<1>4. JobRefs'
  BY NoneAssumption DEF JobRefs, TypeOK, JobState, GetQueue, Goto, buffer, outcome
<1>5. QED
  BY <1>1, <1>2, <1>3, <1>4

\* Filling a queue, or linking a new one, empties no slot that push has noted.
LEMMA EnqueueType == ASSUME TypeInv, NEW p \in Payload, Enqueue(p) PROVE TypeInv'
<1> USE DEF TypeInv, Refs
<1>1. TypeOK'
  <2>1. add[p] \in AddCall
    BY DEF TypeOK
  <2>2. [add[p] EXCEPT !.pc = "accepted"] \in AddCall
    BY <2>1 DEF AddCall, AddPc
  <2>3. add' \in [Payload -> AddCall]
    BY <2>2 DEF TypeOK, Enqueue, Goto
  <2>4. add[p].map \in Payload /\ add[p].window \in Window
    BY <2>1 DEF AddRefs, AddCall, Enqueue
  <2>5. [timeWindowMap[add[p].map] EXCEPT ![add[p].window] = p] \in [Window -> Payload \cup {None}]
    BY <2>4 DEF TypeOK
  <2>6. timeWindowMap' \in [Payload -> [Window -> Payload \cup {None}]]
    BY <2>4, <2>5 DEF TypeOK, Enqueue
  <2>7. queue' \in [Payload -> SUBSET Payload]
    BY DEF TypeOK, Enqueue
  <2>8. QED
    BY <2>1, <2>2, <2>3, <2>4, <2>5, <2>6, <2>7 DEF TypeOK, Enqueue, Goto, buffer, outcome
<1>2. ScanRefs'
  BY NoneAssumption DEF ScanRefs, TypeOK, PushState, PushPc, Enqueue, Goto, buffer, outcome
<1>3. AddRefs'
  BY NoneAssumption DEF AddRefs, TypeOK, AddCall, Enqueue, Goto, buffer, outcome
<1>4. JobRefs'
  BY NoneAssumption DEF JobRefs, TypeOK, JobState, Enqueue, Goto, buffer, outcome
<1>5. QED
  BY <1>1, <1>2, <1>3, <1>4

\* push notes revisions that have a window map.
LEMMA PushStartType == ASSUME TypeInv, PushStart PROVE TypeInv'
<1> USE DEF TypeInv, Refs
<1>1. TypeOK'
  <2>1. push' \in PushState
    BY InitialValues DEF TypeOK, PushState, PushPc, PushStart, CurrentWindow
  <2>2. QED
    BY <2>1 DEF TypeOK, PushStart, NoPush, buffer, outcome
<1>2. ScanRefs'
  BY NoneAssumption DEF ScanRefs, TypeOK, PushState, PushPc, PushStart, NoPush, buffer, outcome
<1>3. AddRefs'
  BY NoneAssumption DEF AddRefs, TypeOK, AddCall, PushStart, NoPush, buffer, outcome
<1>4. JobRefs'
  BY NoneAssumption DEF JobRefs, TypeOK, JobState, PushStart, NoPush, buffer, outcome
<1>5. QED
  BY <1>1, <1>2, <1>3, <1>4

\* Of a revision that has a window map, push notes windows that have a queue.
LEMMA ScanRevisionType == ASSUME TypeInv, NEW r \in Revision, ScanRevision(r) PROVE TypeInv'
<1> USE DEF TypeInv, Refs
<1>1. TypeOK'
  <2>1. push' \in PushState
    BY BoundAssumption DEF TypeOK, PushState, PushPc, Window, ScanRevision
  <2>2. QED
    BY <2>1 DEF TypeOK, ScanRevision, buffer, outcome
<1>2. ScanRefs'
  BY NoneAssumption DEF ScanRefs, TypeOK, PushState, PushPc, ScanRevision, buffer, outcome
<1>3. AddRefs'
  BY NoneAssumption DEF AddRefs, TypeOK, AddCall, ScanRevision, buffer, outcome
<1>4. JobRefs'
  BY NoneAssumption DEF JobRefs, TypeOK, JobState, ScanRevision, buffer, outcome
<1>5. QED
  BY <1>1, <1>2, <1>3, <1>4

\* push removes a revision that it has visited, never one that it has yet to visit.
LEMMA DropRevisionType == ASSUME TypeInv, DropRevision PROVE TypeInv'
<1> USE DEF TypeInv, Refs
<1>1. TypeOK'
  <2>1. push' \in PushState
    BY BoundAssumption DEF TypeOK, PushState, PushPc, Window, DropRevision
  <2>2. revisionData' \in [Revision -> Payload \cup {None}]
    BY DEF TypeOK, DropRevision
  <2>3. QED
    BY <2>1, <2>2 DEF TypeOK, DropRevision, buffer, outcome
<1>2. ScanRefs'
  BY NoneAssumption DEF ScanRefs, TypeOK, PushState, PushPc, DropRevision, buffer, outcome
<1>3. AddRefs'
  BY NoneAssumption DEF AddRefs, TypeOK, AddCall, DropRevision, buffer, outcome
<1>4. JobRefs'
  BY NoneAssumption DEF JobRefs, TypeOK, JobState, DropRevision, buffer, outcome
<1>5. QED
  BY <1>1, <1>2, <1>3, <1>4

\* push lists the queue of a window it has noted: the queue is still there.
LEMMA ScanWindowType == ASSUME TypeInv, NEW w \in Window, ScanWindow(w) PROVE TypeInv'
<1> DEFINE q == timeWindowMap[revisionData[push.revision]][w]
<1> USE DEF TypeInv, Refs
<1>1. q \in Payload
  <2>1. revisionData[push.revision] \in Payload
    BY DEF TypeOK, ScanRefs, PushState, ScanWindow
  <2>2. QED
    BY <2>1 DEF TypeOK, ScanRefs, ScanWindow
<1>2. \A s \in SettingsFor(push.revision) :
          [pc |-> "listed", settings |-> s, batch |-> {}] \in JobState
  <2>1. SettingsFor(push.revision) \subseteq Settings \cup {None}
    BY DEF TypeOK, ScanRefs, PushState, ScanWindow, SettingsFor
  <2>2. QED
    BY <2>1 DEF JobState, JobPc
\* The step with the job it lists, if any.
<1>3. /\ \/ job' = job
         \/ \E s \in SettingsFor(push.revision) :
              job' = [job EXCEPT ![q] = [pc |-> "listed", settings |-> s, batch |-> {}]]
      /\ \/ push' = [push EXCEPT !.pc = "dropWindow", !.windows = @ \ {w}, !.slot = w]
         \/ push' = [push EXCEPT !.windows = @ \ {w}]
      /\ push.pc = "windows" /\ w \in push.windows
      /\ UNCHANGED <<window, buffer, add, shutdown, outcome, crashes>>
  BY DEF ScanWindow
<1> HIDE DEF q
<1>4. TypeOK'
  <2>1. push' \in PushState
    <3>1. CASE push' = [push EXCEPT !.windows = @ \ {w}]
      BY <3>1 DEF TypeOK, PushState
    <3>2. CASE push' = [push EXCEPT !.pc = "dropWindow", !.windows = @ \ {w}, !.slot = w]
      BY <3>2 DEF TypeOK, PushState, PushPc
    <3>3. QED
      BY <1>3, <3>1, <3>2
  <2>2. job' \in [Payload -> JobState]
    <3>1. job \in [Payload -> JobState]
      BY DEF TypeOK
    <3>2. CASE job' = job
      BY <3>1, <3>2
    <3>3. CASE job' # job
      <4>1. PICK s \in SettingsFor(push.revision) :
                job' = [job EXCEPT ![q] = [pc |-> "listed", settings |-> s, batch |-> {}]]
        BY <1>3, <3>3
      <4>2. [pc |-> "listed", settings |-> s, batch |-> {}] \in JobState
        BY <1>2
      <4>3. QED
        BY <1>1, <3>1, <4>1, <4>2
    <3>4. QED
      BY <3>2, <3>3
  <2>3. QED
    BY <1>3, <2>1, <2>2 DEF TypeOK, buffer, outcome
<1>5. ScanRefs'
  <2>1. CASE push' = [push EXCEPT !.windows = @ \ {w}]
    BY <1>3, <2>1 DEF ScanRefs, TypeOK, PushState, buffer
  <2>2. CASE push' = [push EXCEPT !.pc = "dropWindow", !.windows = @ \ {w}, !.slot = w]
    BY <1>3, <2>2 DEF ScanRefs, TypeOK, PushState, buffer
  <2>3. QED
    BY <1>3, <2>1, <2>2
<1>6. AddRefs'
  BY <1>3 DEF AddRefs
<1>7. JobRefs'
  <2>1. job \in [Payload -> JobState]
    BY DEF TypeOK
  <2>2. CASE job' = job
    BY <2>2 DEF JobRefs
  <2>3. CASE job' # job
    <3>1. PICK s \in SettingsFor(push.revision) :
              job' = [job EXCEPT ![q] = [pc |-> "listed", settings |-> s, batch |-> {}]]
      BY <1>3, <2>3
    <3>2. job'[q].pc = "listed" /\ \A o \in Payload \ {q} : job'[o] = job[o]
      BY <1>1, <2>1, <3>1
    <3>3. QED
      BY <3>2 DEF JobRefs
  <2>4. QED
    BY <2>2, <2>3
<1>8. QED
  BY <1>4, <1>5, <1>6, <1>7

\* push removes the slot it found empty, never one that it has yet to visit.
LEMMA DropWindowType == ASSUME TypeInv, DropWindow PROVE TypeInv'
<1> USE DEF TypeInv, Refs
<1>1. TypeOK'
  <2>1. push' \in PushState
    BY BoundAssumption DEF TypeOK, PushState, PushPc, Window, DropWindow
  <2>2. push.slot \in Window
    BY DEF TypeOK, PushState
  <2>3. [timeWindowMap[revisionData[push.revision]] EXCEPT ![push.slot] = None] \in [Window -> Payload \cup {None}]
    BY DEF TypeOK, ScanRefs, PushState, DropWindow
  <2>4. timeWindowMap' \in [Payload -> [Window -> Payload \cup {None}]]
    BY <2>3 DEF TypeOK, DropWindow
  <2>5. QED
    BY <2>1, <2>2, <2>3, <2>4 DEF TypeOK, DropWindow, buffer, outcome
<1>2. ScanRefs'
  BY NoneAssumption DEF ScanRefs, TypeOK, PushState, PushPc, DropWindow, buffer, outcome
<1>3. AddRefs'
  BY NoneAssumption DEF AddRefs, TypeOK, AddCall, DropWindow, buffer, outcome
<1>4. JobRefs'
  BY NoneAssumption DEF JobRefs, TypeOK, JobState, DropWindow, buffer, outcome
<1>5. QED
  BY <1>1, <1>2, <1>3, <1>4

\* The windows of a revision are done: push returns to its revisions.
LEMMA EndWindowsType == ASSUME TypeInv, EndWindows PROVE TypeInv'
<1> USE DEF TypeInv, Refs
<1>1. TypeOK'
  <2>1. push' \in PushState
    BY BoundAssumption DEF TypeOK, PushState, PushPc, Window, EndWindows
  <2>2. QED
    BY <2>1 DEF TypeOK, EndWindows, buffer, outcome
<1>2. ScanRefs'
  BY NoneAssumption DEF ScanRefs, TypeOK, PushState, PushPc, EndWindows, buffer, outcome
<1>3. AddRefs'
  BY NoneAssumption DEF AddRefs, TypeOK, AddCall, EndWindows, buffer, outcome
<1>4. JobRefs'
  BY NoneAssumption DEF JobRefs, TypeOK, JobState, EndWindows, buffer, outcome
<1>5. QED
  BY <1>1, <1>2, <1>3, <1>4

\* The revisions are done: push waits for its jobs.
LEMMA EndScanType == ASSUME TypeInv, EndScan PROVE TypeInv'
<1> USE DEF TypeInv, Refs
<1>1. TypeOK'
  <2>1. push' \in PushState
    BY BoundAssumption DEF TypeOK, PushState, PushPc, Window, EndScan
  <2>2. QED
    BY <2>1 DEF TypeOK, EndScan, buffer, outcome
<1>2. ScanRefs'
  BY NoneAssumption DEF ScanRefs, TypeOK, PushState, PushPc, EndScan, buffer, outcome
<1>3. AddRefs'
  BY NoneAssumption DEF AddRefs, TypeOK, AddCall, EndScan, buffer, outcome
<1>4. JobRefs'
  BY NoneAssumption DEF JobRefs, TypeOK, JobState, EndScan, buffer, outcome
<1>5. QED
  BY <1>1, <1>2, <1>3, <1>4

\* A timeout changes no reference.
LEMMA TimeoutType == ASSUME TypeInv, Timeout PROVE TypeInv'
<1> USE DEF TypeInv, Refs
<1>1. TypeOK'
  <2>1. QED
    BY DEF TypeOK, Timeout, buffer, outcome
<1>2. ScanRefs'
  BY NoneAssumption DEF ScanRefs, TypeOK, PushState, PushPc, Timeout, buffer, outcome
<1>3. AddRefs'
  BY NoneAssumption DEF AddRefs, TypeOK, AddCall, Timeout, buffer, outcome
<1>4. JobRefs'
  BY NoneAssumption DEF JobRefs, TypeOK, JobState, Timeout, buffer, outcome
<1>5. QED
  BY <1>1, <1>2, <1>3, <1>4

\* push ends with no job and no note left.
LEMMA PushReturnType == ASSUME TypeInv, PushReturn PROVE TypeInv'
<1> USE DEF TypeInv, Refs
<1>1. TypeOK'
  <2>1. push' \in PushState
    BY BoundAssumption DEF TypeOK, PushState, PushPc, Window, PushReturn, NoPush
  <2>2. job' \in [Payload -> JobState]
    BY DEF TypeOK, JobState, JobPc, PushReturn, NoJob
  <2>3. QED
    BY <2>1, <2>2 DEF TypeOK, PushReturn, NoPush, NoJob, buffer, outcome
<1>2. ScanRefs'
  BY NoneAssumption DEF ScanRefs, TypeOK, PushState, PushPc, PushReturn, NoPush, NoJob, buffer, outcome
<1>3. AddRefs'
  BY NoneAssumption DEF AddRefs, TypeOK, AddCall, PushReturn, NoPush, NoJob, buffer, outcome
<1>4. JobRefs'
  BY NoneAssumption DEF JobRefs, TypeOK, JobState, PushReturn, NoPush, NoJob, buffer, outcome
<1>5. QED
  BY <1>1, <1>2, <1>3, <1>4

\* A job that lacks its settings ends before it uses them.
LEMMA StartJobType == ASSUME TypeInv, NEW q \in Payload, StartJob(q) PROVE TypeInv'
<1> USE DEF TypeInv, Refs
<1>1. TypeOK'
  <2>1. job[q] \in JobState
    BY DEF TypeOK
  <2>2. \A pc \in {"drain", "prepare", "finished"} : [job[q] EXCEPT !.pc = pc] \in JobState
    BY <2>1 DEF JobState, JobPc
  <2>3. job' \in [Payload -> JobState]
    BY <2>2 DEF TypeOK, StartJob
  <2>4. QED
    BY <2>1, <2>2, <2>3 DEF TypeOK, StartJob, buffer, outcome
<1>2. ScanRefs'
  BY NoneAssumption DEF ScanRefs, TypeOK, PushState, PushPc, StartJob, buffer, outcome
<1>3. AddRefs'
  BY NoneAssumption DEF AddRefs, TypeOK, AddCall, StartJob, buffer, outcome
<1>4. JobRefs'
  BY NoneAssumption DEF JobRefs, TypeOK, JobState, StartJob, buffer, outcome
<1>5. QED
  BY <1>1, <1>2, <1>3, <1>4

\* The client of a provider is built, or is not: the job has its settings either way.
LEMMA PrepareType == ASSUME TypeInv, NEW q \in Payload, Prepare(q) PROVE TypeInv'
<1> USE DEF TypeInv, Refs
<1>1. TypeOK'
  <2>1. job[q] \in JobState
    BY DEF TypeOK
  <2>2. \A pc \in {"drain", "prepare", "finished"} : [job[q] EXCEPT !.pc = pc] \in JobState
    BY <2>1 DEF JobState, JobPc
  <2>3. job' \in [Payload -> JobState]
    BY <2>2, ZenonT(30) DEF TypeOK, Prepare
  <2>4. QED
    BY <2>1, <2>2, <2>3 DEF TypeOK, Prepare, buffer, outcome
<1>2. ScanRefs'
  BY NoneAssumption DEF ScanRefs, TypeOK, PushState, PushPc, Prepare, buffer, outcome
<1>3. AddRefs'
  BY NoneAssumption DEF AddRefs, TypeOK, AddCall, Prepare, buffer, outcome
<1>4. JobRefs'
  BY NoneAssumption DEF JobRefs, TypeOK, JobState, Prepare, buffer, outcome
<1>5. QED
  BY <1>1, <1>2, <1>3, <1>4

\* Polling a queue gives a batch of payloads.
LEMMA DrainType == ASSUME TypeInv, NEW q \in Payload, Drain(q) PROVE TypeInv'
<1> USE DEF TypeInv, Refs
<1>1. TypeOK'
  <2>1. job[q] \in JobState /\ queue[q] \in SUBSET Payload
    BY DEF TypeOK
  <2>2. \A pc \in {"drain", "send", "finished"} : [job[q] EXCEPT !.batch = @ \cup queue[q], !.pc = pc] \in JobState
    BY <2>1 DEF JobState, JobPc
  <2>3. job' \in [Payload -> JobState]
    BY <2>2 DEF TypeOK, Drain
  <2>4. queue' \in [Payload -> SUBSET Payload]
    BY DEF TypeOK, Drain, Poll
  <2>5. QED
    BY <2>1, <2>2, <2>3, <2>4 DEF TypeOK, Drain, buffer, outcome
<1>2. ScanRefs'
  BY NoneAssumption DEF ScanRefs, TypeOK, PushState, PushPc, Drain, buffer, outcome
<1>3. AddRefs'
  BY NoneAssumption DEF AddRefs, TypeOK, AddCall, Drain, buffer, outcome
<1>4. JobRefs'
  <2>1. job \in [Payload -> JobState] /\ job[q].settings # None
    BY DEF TypeOK, JobRefs, Drain
  <2>2. job' = job \/ \E pc \in JobPc :
            job' = [job EXCEPT ![q].batch = @ \cup queue[q], ![q].pc = pc]
    BY DEF Drain, JobPc
  <2>3. \A o \in Payload : job'[o].settings = job[o].settings
    BY <2>1, <2>2 DEF JobState
  <2>4. \A o \in Payload \ {q} : job'[o].pc = job[o].pc
    BY <2>1, <2>2 DEF JobState
  <2>5. QED
    BY <2>1, <2>3, <2>4 DEF JobRefs
<1>5. QED
  BY <1>1, <1>2, <1>3, <1>4

\* A write that succeeds appends settings to what is stored.
LEMMA SendOkType == ASSUME TypeInv, NEW q \in Payload, SendOk(q) PROVE TypeInv'
<1> USE DEF TypeInv, Refs
<1>1. TypeOK'
  <2>1. job[q] \in JobState /\ job[q].settings \in Settings
    BY DEF TypeOK, JobState, JobRefs, SendOk
  <2>2. \A pc \in {"drain", "finished"} : [job[q] EXCEPT !.batch = {}, !.pc = pc] \in JobState
    BY <2>1 DEF JobState, JobPc
  <2>3. job' \in [Payload -> JobState]
    BY <2>2 DEF TypeOK, SendOk
  <2>4. stored' \in [Payload -> Seq(Settings)]
    BY <2>1 DEF TypeOK, Write, SendOk
  <2>5. QED
    BY <2>1, <2>2, <2>3, <2>4 DEF TypeOK, SendOk, buffer, outcome
<1>2. ScanRefs'
  BY NoneAssumption DEF ScanRefs, TypeOK, PushState, PushPc, SendOk, buffer, outcome
<1>3. AddRefs'
  BY NoneAssumption DEF AddRefs, TypeOK, AddCall, SendOk, buffer, outcome
<1>4. JobRefs'
  BY NoneAssumption DEF JobRefs, TypeOK, JobState, SendOk, buffer, outcome
<1>5. QED
  BY <1>1, <1>2, <1>3, <1>4

\* A write that fails appends settings for the part that the store kept.
LEMMA SendFailType == ASSUME TypeInv, NEW q \in Payload, SendFail(q) PROVE TypeInv'
<1> USE DEF TypeInv, Refs
<1>1. TypeOK'
  <2>1. job[q] \in JobState /\ job[q].settings \in Settings
    BY DEF TypeOK, JobState, JobRefs, SendFail
  <2>2. \A pc \in {"drain", "finished"} : [job[q] EXCEPT !.batch = {}, !.pc = pc] \in JobState
    BY <2>1 DEF JobState, JobPc
  <2>3. job' \in [Payload -> JobState]
    <3>1. PICK pc \in {"drain", "finished"} :
              job' = [job EXCEPT ![q].batch = {}, ![q].pc = pc]
      BY DEF SendFail
    <3>2. QED
      BY <2>2, <3>1 DEF TypeOK
  <2>4. stored' \in [Payload -> Seq(Settings)]
    BY <2>1 DEF TypeOK, Write, SendFail
  <2>5. dropped' \in SUBSET Payload
    BY <2>1 DEF TypeOK, JobState, SendFail
  <2>6. QED
    BY <2>1, <2>2, <2>3, <2>4, <2>5 DEF TypeOK, SendFail, buffer, outcome
<1>2. ScanRefs'
  BY NoneAssumption DEF ScanRefs, TypeOK, PushState, PushPc, SendFail, buffer, outcome
<1>3. AddRefs'
  BY NoneAssumption DEF AddRefs, TypeOK, AddCall, SendFail, buffer, outcome
<1>4. JobRefs'
  BY NoneAssumption DEF JobRefs, TypeOK, JobState, SendFail, buffer, outcome
<1>5. QED
  BY <1>1, <1>2, <1>3, <1>4

\* The clock changes no reference.
LEMMA TickType == ASSUME TypeInv, Tick PROVE TypeInv'
<1> USE DEF TypeInv, Refs
<1>1. TypeOK'
  <2>1. window' \in Window
    BY BoundAssumption DEF TypeOK, Window, Tick
  <2>2. QED
    BY <2>1 DEF TypeOK, Tick, buffer, outcome
<1>2. ScanRefs'
  BY NoneAssumption DEF ScanRefs, TypeOK, PushState, PushPc, Tick, buffer, outcome
<1>3. AddRefs'
  BY NoneAssumption DEF AddRefs, TypeOK, AddCall, Tick, buffer, outcome
<1>4. JobRefs'
  BY NoneAssumption DEF JobRefs, TypeOK, JobState, Tick, buffer, outcome
<1>5. QED
  BY <1>1, <1>2, <1>3, <1>4

\* A restart leaves no map, no reference and no job.
LEMMA CrashType == ASSUME TypeInv, Crash PROVE TypeInv'
<1> USE DEF TypeInv, Refs
<1>1. TypeOK'
  <2>1. push' \in PushState
    BY InitialValues DEF Crash
  <2>2. job' \in [Payload -> JobState]
    BY InitialValues DEF Crash
  <2>3. \A p \in Payload : [NoCall EXCEPT !.pc = "failed", !.settings = add[p].settings] \in AddCall
    BY InitialValues DEF TypeOK, AddCall, AddPc
  <2>4. add' \in [Payload -> AddCall]
    BY <2>3 DEF TypeOK, Crash
  <2>5. stored' \in [Payload -> Seq(Settings)]
    <3>1. \A p, q \in Payload : job[q].pc = "send" => job[q].settings \in Settings
      BY DEF TypeOK, JobRefs, JobState
    <3> DEFINE sending(p) == {q \in Payload : job[q].pc = "send" /\ p \in job[q].batch}
    <3>2. PICK kept \in SUBSET {p \in Payload : sending(p) # {}} :
             stored' = [p \in Payload |->
                           IF p \in kept
                           THEN Append(stored[p], job[CHOOSE q \in sending(p) : TRUE].settings)
                           ELSE stored[p]]
      BY DEF Crash
    <3>3. \A p \in kept : job[CHOOSE q \in sending(p) : TRUE].settings \in Settings
      BY <3>1
    <3>4. \A p \in Payload : stored[p] \in Seq(Settings)
      BY DEF TypeOK
    <3> HIDE DEF sending
    <3>5. QED
      BY <3>2, <3>3, <3>4
  <2>6. crashes' \in 0 .. MaxCrash
    <3>1. crashes \in 0 .. MaxCrash
      BY DEF TypeOK
    <3>2. crashes < MaxCrash /\ crashes' = crashes + 1
      BY DEF Crash
    <3>3. QED
      BY <3>1, <3>2, BoundAssumption
  <2>7. timeWindowMap' \in [Payload -> [Window -> Payload \cup {None}]]
    BY DEF Crash, NoSlots
  <2>8. QED
    BY <2>1, <2>2, <2>3, <2>4, <2>5, <2>6, <2>7 DEF TypeOK, Crash, NoPush, NoJob, NoCall, NoSlots, buffer, outcome
<1>2. ScanRefs'
  BY NoneAssumption DEF ScanRefs, TypeOK, PushState, PushPc, Crash, NoPush, NoJob, NoCall, NoSlots, buffer, outcome
<1>3. AddRefs'
  BY NoneAssumption DEF AddRefs, TypeOK, AddCall, Crash, NoPush, NoJob, NoCall, NoSlots, buffer, outcome
<1>4. JobRefs'
  BY NoneAssumption DEF JobRefs, TypeOK, JobState, Crash, NoPush, NoJob, NoCall, NoSlots, buffer, outcome
<1>5. QED
  BY <1>1, <1>2, <1>3, <1>4

\* No step of the buffer breaks its types or follows a reference that is not there:
\* one case for each action of Next.
LEMMA StepTypeInv == TypeInv /\ [Next]_vars => TypeInv'
<1> SUFFICES ASSUME TypeInv, [Next]_vars PROVE TypeInv'
  OBVIOUS
<1>1. CASE Next
  <2>1. ASSUME NEW p \in Payload, Adding(p) PROVE TypeInv'
    BY <2>1, PutSettingsType, PutEnvironmentType, PutMapType, GetMapType,
       ReadWindowType, GetQueueType, EnqueueType DEF Adding
  <2>2. CASE Pushing
    BY <2>2, PushStartType, ScanRevisionType, DropRevisionType, ScanWindowType,
       DropWindowType, EndWindowsType, EndScanType, PushReturnType DEF Pushing
  <2>3. ASSUME NEW q \in Payload, Working(q) PROVE TypeInv'
    BY <2>3, StartJobType, PrepareType, DrainType, SendOkType, SendFailType DEF Working
  <2>4. QED
    BY <1>1, <2>1, <2>2, <2>3, ReceiveType, TimeoutType, TickType, CrashType DEF Next
<1>2. CASE UNCHANGED vars
  <2>1. TypeOK'
    BY <1>2 DEF TypeInv, TypeOK, vars, buffer, outcome
  <2>2. Refs'
    BY <1>2 DEF TypeInv, Refs, ScanRefs, AddRefs, JobRefs, vars, buffer, outcome
  <2>3. QED
    BY <2>1, <2>2 DEF TypeInv
<1>3. QED
  BY <1>1, <1>2

\* Every reference a thread of the buffer follows is there: a step of Spec never
\* dereferences null except where the model sends the call to "failed".
THEOREM TypeCorrect == Spec => []TypeInv
<1>1. QED
  BY InitTypeInv, StepTypeInv, PTL DEF Spec

\* The types of the buffer's state, TypeOK, for every instance.
THEOREM TypeSafety == Spec => []TypeOK
<1>1. TypeInv => TypeOK
  BY DEF TypeInv
<1>2. QED
  BY <1>1, TypeCorrect, PTL

-----------------------------------------------------------------------------
(* At most once.  Most steps move no payload; the others are Enqueue, Drain,*)
(* SendOk, SendFail and Crash.                                             *)

Quiet ==
    /\ UNCHANGED <<queue, stored, dropped, lost>>
    /\ \A q \in Payload : job'[q].batch \subseteq job[q].batch
    /\ \A p \in Payload : Accepted(p)' = Accepted(p)

\* A step that moves no payload keeps every payload in one place.
LEMMA QuietOnePlace == OnePlace /\ Quiet => OnePlace'
  BY DEF OnePlace, WaitsOnce, SettledOnce, OnlyAccepted, Settled, Quiet

\* The steps that move no payload: all of push, the timeout, the clock, and the parts
\* of add and of a job that only read or note something.
LEMMA QuietSteps ==
  ASSUME TypeInv,
         \/ UNCHANGED vars \/ Tick \/ Timeout
         \/ \E p \in Payload, s \in Settings : Receive(p, s)
         \/ \E p \in Payload : \/ PutSettings(p) \/ PutEnvironment(p) \/ PutMap(p)
                               \/ GetMap(p) \/ ReadWindow(p) \/ GetQueue(p)
         \/ Pushing
         \/ \E q \in Payload : StartJob(q) \/ Prepare(q)
  PROVE  Quiet
<1> USE DEF TypeInv, buffer, outcome
<1>0. /\ add \in [Payload -> AddCall]
      /\ job \in [Payload -> JobState]
  BY DEF TypeOK
<1>1. CASE UNCHANGED vars \/ Tick \/ Timeout
  BY <1>1 DEF Quiet, Accepted, vars, Tick, Timeout
<1>2. ASSUME NEW p \in Payload, NEW s \in Settings, Receive(p, s) PROVE Quiet
  BY <1>0, <1>2 DEF Receive, Quiet, Accepted, AddCall
<1>3. ASSUME NEW p \in Payload,
             \/ PutSettings(p) \/ PutEnvironment(p) \/ PutMap(p)
             \/ GetMap(p) \/ ReadWindow(p) \/ GetQueue(p)
      PROVE  Quiet
  <2>1. /\ UNCHANGED <<queue, stored, dropped, lost, job>>
        /\ add[p].pc # "accepted"
    BY <1>3 DEF PutSettings, PutEnvironment, PutMap, GetMap, ReadWindow, GetQueue
  <2>2. add'[p].pc # "accepted" /\ \A o \in Payload \ {p} : add'[o] = add[o]
    <3>1. CASE PutSettings(p) \/ PutEnvironment(p) \/ PutMap(p)
      BY <1>0, <3>1, ZenonT(30) DEF PutSettings, PutEnvironment, PutMap, Goto, AddCall
    <3>2. CASE GetMap(p) \/ ReadWindow(p)
      BY <1>0, <3>2 DEF GetMap, ReadWindow, AddCall
    <3>3. CASE GetQueue(p)
      BY <1>0, <3>3 DEF GetQueue, Goto, AddCall
    <3>4. QED
      BY <1>3, <3>1, <3>2, <3>3
  <2>3. QED
    BY <2>1, <2>2 DEF Quiet, Accepted
<1>4. CASE Pushing
  <2>1. UNCHANGED <<queue, stored, dropped, lost, add>>
    BY <1>4 DEF Pushing, PushStart, DropRevision, DropWindow, EndWindows, EndScan,
                PushReturn, ScanRevision, ScanWindow
  <2>2. \A q \in Payload : job'[q].batch \subseteq job[q].batch
    <3>1. CASE PushReturn
      BY <3>1 DEF PushReturn, NoJob
    <3>2. ASSUME NEW w \in Window, ScanWindow(w)
          PROVE  \A q \in Payload : job'[q].batch \subseteq job[q].batch
      <4>1. CASE job' = job
        BY <4>1
      <4>2. CASE job' # job
        <5>1. PICK s \in SettingsFor(push.revision) :
                  job' = [job EXCEPT ![timeWindowMap[revisionData[push.revision]][w]] =
                             [pc |-> "listed", settings |-> s, batch |-> {}]]
          BY <3>2, <4>2 DEF ScanWindow
        <5>2. QED
          BY <1>0, <5>1
      <4>3. QED
        BY <4>1, <4>2
    <3>3. CASE UNCHANGED job
      BY <3>3
    <3>4. QED
      BY <1>4, <3>1, <3>2, <3>3 DEF Pushing, PushStart, DropRevision, DropWindow,
                                    EndWindows, EndScan, ScanRevision
  <2>3. QED
    BY <2>1, <2>2 DEF Quiet, Accepted
<1>5. ASSUME NEW q \in Payload, StartJob(q) \/ Prepare(q) PROVE Quiet
  <2>1. UNCHANGED <<queue, stored, dropped, lost, add>>
    BY <1>5 DEF StartJob, Prepare
  <2>2. \E pc \in JobPc : job' = [job EXCEPT ![q].pc = pc]
    BY <1>5 DEF StartJob, Prepare, JobPc
  <2>3. \A o \in Payload : job'[o].batch = job[o].batch
    BY <1>0, <2>2 DEF JobState
  <2>4. QED
    BY <2>1, <2>3 DEF Quiet, Accepted
<1>6. QED
  BY <1>1, <1>2, <1>3, <1>4, <1>5

\* The settling steps, as one: the payloads of kept are written, those of failed given
\* up, those of gone lost, and all leave the batch (the queue) they were in.
Settles(kept, failed, gone) ==
    /\ kept \cap failed = {} /\ kept \cap gone = {} /\ failed \cap gone = {}
    /\ \A p \in kept \cup failed \cup gone : Accepted(p) /\ ~Settled(p)
    /\ \A p \in kept : \E s \in Settings : stored'[p] = Append(stored[p], s)
    /\ \A p \in Payload \ kept : stored'[p] = stored[p]
    /\ dropped' = dropped \cup failed
    /\ lost' = lost \cup gone
    /\ \A p \in Payload : Accepted(p)' = Accepted(p)
    /\ \A p \in kept \cup failed \cup gone, q \in Payload :
           p \notin queue'[q] /\ p \notin job'[q].batch
    /\ \A q \in Payload : queue'[q] \subseteq queue[q] /\ job'[q].batch \subseteq job[q].batch

\* What becomes of a payload when some are settled.
LEMMA SettlesEach ==
  ASSUME TypeOK, NEW kept \in SUBSET Payload, NEW failed \in SUBSET Payload,
         NEW gone \in SUBSET Payload, Settles(kept, failed, gone), NEW p \in Payload
  PROVE  /\ p \in kept => /\ stored[p] = <<>> /\ Len(stored'[p]) = 1
                           /\ stored'[p] # <<>> /\ Head(stored'[p]) \in Settings
                           /\ p \notin dropped' /\ p \notin lost'
         /\ p \notin kept => stored'[p] = stored[p]
         /\ p \in failed \cup gone => stored'[p] = <<>>
         /\ p \in failed => p \in dropped' /\ p \notin lost'
         /\ p \in gone => p \in lost' /\ p \notin dropped'
         /\ p \notin failed => (p \in dropped' <=> p \in dropped)
         /\ p \notin gone => (p \in lost' <=> p \in lost)
<1>1. CASE p \in kept
  <2>1. stored[p] = <<>> /\ p \notin dropped' /\ p \notin lost' /\ p \notin failed /\ p \notin gone
    BY <1>1 DEF Settles, Settled
  <2>2. PICK s \in Settings : stored'[p] = Append(<<>>, s)
    BY <1>1, <2>1 DEF Settles
  <2>3. Len(stored'[p]) = 1 /\ stored'[p] # <<>> /\ Head(stored'[p]) \in Settings
    BY <2>2
  <2>4. QED
    BY <1>1, <2>1, <2>3 DEF Settles
<1>2. CASE p \notin kept
  BY <1>2 DEF Settles, Settled
<1>3. QED
  BY <1>1, <1>2

\* Payloads that are written, given up or lost leave every queue and batch at the same
\* time, so that they are still in one place.
LEMMA SettlesOnePlace ==
  ASSUME TypeOK, OnePlace, NEW kept \in SUBSET Payload, NEW failed \in SUBSET Payload,
         NEW gone \in SUBSET Payload, Settles(kept, failed, gone)
  PROVE  OnePlace'
<1> DEFINE moved == kept \cup failed \cup gone
<1>1. \A p \in Payload : Settled(p)' => p \in moved \/ Settled(p)
  <2> SUFFICES ASSUME NEW p \in Payload, p \notin moved, Settled(p)' PROVE Settled(p)
    OBVIOUS
  <2> QED BY SettlesEach DEF Settled
<1>2. WaitsOnce'
  BY DEF Settles, OnePlace, WaitsOnce
<1>3. SettledOnce'
  <2>1. ASSUME NEW p \in Payload
        PROVE  /\ Len(stored'[p]) <= 1
               /\ ~(stored'[p] # <<>> /\ p \in dropped' \cup lost')
               /\ p \notin dropped' \cap lost'
    <3>1. CASE p \in kept
      <4>1. Len(stored'[p]) = 1 /\ p \notin dropped' /\ p \notin lost'
        BY <3>1, SettlesEach
      <4> QED BY <4>1
    <3>2. CASE p \notin kept /\ p \in failed \cup gone
      <4>1. stored'[p] = <<>> /\ Len(<<>>) = 0
        BY <3>2, SettlesEach
      <4>2. p \notin dropped' \cap lost'
        BY <3>2, SettlesEach
      <4> QED BY <4>1, <4>2
    <3>3. CASE p \notin moved
      <4>1. /\ stored'[p] = stored[p]
            /\ p \in dropped' <=> p \in dropped
            /\ p \in lost' <=> p \in lost
        BY <3>3, SettlesEach
      <4> QED BY <4>1 DEF OnePlace, SettledOnce
    <3> QED BY <3>1, <3>2, <3>3
  <2>2. ASSUME NEW p \in Payload, Settled(p)', NEW q \in Payload
        PROVE  p \notin queue'[q] /\ p \notin job'[q].batch
    BY <1>1, <2>2 DEF Settles, OnePlace, SettledOnce
  <2>3. QED
    BY <2>1, <2>2 DEF SettledOnce
<1>4. OnlyAccepted'
  <2>1. ASSUME NEW p \in Payload, Settled(p)' PROVE Accepted(p)'
    BY <1>1, <2>1 DEF Settles, OnePlace, OnlyAccepted
  <2>2. ASSUME NEW p \in Payload, NEW q \in Payload, p \in queue'[q] \/ p \in job'[q].batch
        PROVE  Accepted(p)'
    BY <2>2 DEF Settles, OnePlace, OnlyAccepted
  <2>3. QED
    BY <2>1, <2>2 DEF OnlyAccepted
<1>5. QED
  BY <1>2, <1>3, <1>4 DEF OnePlace

\* How the abstract edge sees it.
LEMMA SettlesStatus ==
  ASSUME TypeOK, NEW kept \in SUBSET Payload, NEW failed \in SUBSET Payload,
         NEW gone \in SUBSET Payload, Settles(kept, failed, gone)
  PROVE  /\ \A p \in kept \cup failed \cup gone : Status(p) = "accepted"
         /\ \A p \in Payload : Status(p)' = IF p \in kept THEN "stored"
                                             ELSE IF p \in failed THEN "dropped"
                                             ELSE IF p \in gone THEN "lost"
                                             ELSE Status(p)
<1>1. \A p \in kept \cup failed \cup gone : Status(p) = "accepted"
  BY DEF Settles, Settled, Status
<1>2. ASSUME NEW p \in Payload, p \in kept PROVE Status(p)' = "stored"
  BY <1>2, SettlesEach DEF Status
<1>3. ASSUME NEW p \in Payload, p \notin kept, p \in failed PROVE Status(p)' = "dropped"
  BY <1>3, SettlesEach DEF Status
<1>4. ASSUME NEW p \in Payload, p \notin kept, p \notin failed, p \in gone
      PROVE  Status(p)' = "lost"
  BY <1>4, SettlesEach DEF Status
<1>5. ASSUME NEW p \in Payload, p \notin kept, p \notin failed, p \notin gone
      PROVE  Status(p)' = Status(p)
  <2>1. /\ stored'[p] = stored[p]
        /\ p \in dropped' <=> p \in dropped
        /\ p \in lost' <=> p \in lost
    BY <1>5, SettlesEach
  <2>2. Accepted(p)' = Accepted(p)
    BY DEF Settles
  <2> QED BY <2>1, <2>2 DEF Status
<1>6. QED
  BY <1>1, <1>2, <1>3, <1>4, <1>5

\* What the abstract edge sees of the stores.
LEMMA SettlesStore ==
  ASSUME TypeOK, TypeOK', NEW kept \in SUBSET Payload, NEW failed \in SUBSET Payload,
         NEW gone \in SUBSET Payload, Settles(kept, failed, gone)
  PROVE  D!Store(kept)
<1> DEFINE dest(p) == IF stored[p] = <<>> THEN None ELSE Head(stored[p])
<1>1. \A p \in Payload : stored'[p] \in Seq(Settings)
  BY DEF TypeOK
<1>2. \A p \in kept : dest(p)' \in Settings
  BY SettlesEach
<1>3. \A p \in Payload \ kept : dest(p)' = dest(p)
  BY SettlesEach
<1>4. \A p \in Payload : dest(p)' \in Settings \cup {None}
  BY <1>1
<1>5. \A p \in kept : Status(p) = "accepted"
  BY SettlesStatus
<1> HIDE DEF dest
<1>6. [p \in Payload |-> dest(p)]' \in [Payload -> Settings \cup {None}]
  BY <1>4
<1>7. /\ \A p \in kept : [o \in Payload |-> dest(o)]'[p] \in Settings
      /\ \A p \in Payload \ kept : [o \in Payload |-> dest(o)]'[p] = [o \in Payload |-> dest(o)][p]
  BY <1>2, <1>3
<1>8. \A p \in kept : [o \in Payload |-> Status(o)][p] = "accepted"
  BY <1>5
<1>9. QED
  BY <1>6, <1>7, <1>8 DEF D!Store, dest

\* Writing or giving up payloads is the step Settle of the abstract edge.
LEMMA SettlesStep ==
  ASSUME TypeOK, TypeOK', NEW kept \in SUBSET Payload, NEW failed \in SUBSET Payload,
         Settles(kept, failed, {})
  PROVE  D!Settle(kept, failed)
<1>1. D!Store(kept)
  BY SettlesStore
<1>2. kept \cap failed = {}
  BY DEF Settles
<1>3. /\ \A p \in failed : [o \in Payload |-> Status(o)][p] = "accepted"
      /\ [p \in Payload |-> Status(p)]' = [p \in Payload |-> IF p \in kept THEN "stored"
                                      ELSE IF p \in failed THEN "dropped"
                                      ELSE [o \in Payload |-> Status(o)][p]]
  <2>1. /\ \A p \in failed : Status(p) = "accepted"
        /\ \A p \in Payload : Status(p)' = IF p \in kept THEN "stored"
                                            ELSE IF p \in failed THEN "dropped"
                                            ELSE Status(p)
    BY SettlesStatus
  <2> QED BY <2>1
<1>4. QED
  BY <1>1, <1>2, <1>3 DEF D!Settle

\* Losing all that is not settled is the step Restart of the abstract edge.
LEMMA RestartStep ==
  ASSUME TypeOK, TypeOK', NEW kept \in SUBSET Payload, NEW gone \in SUBSET Payload,
         Settles(kept, {}, gone),
         \A p \in Payload : Accepted(p) /\ ~Settled(p) => p \in kept \cup gone
  PROVE  D!Restart(kept)
<1>1. D!Store(kept)
  BY SettlesStore
<1>2. \A p \in Payload : Status(p)' = IF p \in kept THEN "stored"
                                      ELSE IF Status(p) = "accepted" THEN "lost"
                                      ELSE Status(p)
  <2>1. \A p \in kept \cup gone : Status(p) = "accepted"
    BY SettlesStatus
  <2>2. \A p \in Payload : Status(p)' = IF p \in kept THEN "stored"
                                        ELSE IF p \in gone THEN "lost"
                                        ELSE Status(p)
    BY SettlesStatus
  <2>3. \A p \in Payload : Status(p) = "accepted" => p \in kept \cup gone
    BY DEF Status, Settled
  <2> QED BY <2>1, <2>2, <2>3
<1>3. [p \in Payload |-> Status(p)]' = [p \in Payload |-> IF p \in kept THEN "stored"
                                      ELSE IF [o \in Payload |-> Status(o)][p] = "accepted" THEN "lost"
                                      ELSE [o \in Payload |-> Status(o)][p]]
  BY <1>2
<1>4. QED
  BY <1>1, <1>3 DEF D!Restart

\* Enqueue puts a payload into its first place, and is the step Accept of the
\* abstract edge.
LEMMA EnqueueAccepts ==
  ASSUME TypeInv, OnePlace, NEW p \in Payload, Enqueue(p)
  PROVE  OnePlace' /\ D!Accept(p)
<1> DEFINE target == IF add[p].queue = None THEN p ELSE add[p].queue
<1>1. /\ add \in [Payload -> AddCall] /\ queue \in [Payload -> SUBSET Payload]
      /\ target \in Payload
  BY DEF TypeInv, TypeOK, AddCall
<1>2. /\ queue' = [queue EXCEPT ![target] = @ \cup {p}]
      /\ UNCHANGED <<stored, dropped, lost, job>>
      /\ add[p].pc = "enqueue"
      /\ add' = [add EXCEPT ![p].pc = "accepted"]
  BY DEF Enqueue, Goto, outcome
<1> HIDE DEF target
<1>3. Accepted(p)' /\ \A o \in Payload \ {p} : Accepted(o)' = Accepted(o)
  BY <1>1, <1>2 DEF Accepted, AddCall
<1>4. ~Accepted(p)
  BY <1>2 DEF Accepted
<1>5. ~Settled(p) /\ \A q \in Payload : p \notin queue[q] /\ p \notin job[q].batch
  BY <1>4 DEF OnePlace, OnlyAccepted
<1>6. \A o, q \in Payload : o \in queue'[q] <=> (o \in queue[q] \/ (o = p /\ q = target))
  BY <1>1, <1>2
<1>7. OnePlace'
  <2>1. WaitsOnce'
    BY <1>2, <1>5, <1>6 DEF OnePlace, WaitsOnce
  <2>2. SettledOnce'
    BY <1>2, <1>5, <1>6 DEF OnePlace, SettledOnce, Settled
  <2>3. OnlyAccepted'
    BY <1>2, <1>3, <1>6 DEF OnePlace, OnlyAccepted, Settled
  <2>4. QED
    BY <2>1, <2>2, <2>3 DEF OnePlace
<1>8. Status(p) = "offered" /\ Status(p)' = "accepted"
  BY <1>2, <1>3, <1>4, <1>5 DEF Status, Settled
<1>9. \A o \in Payload \ {p} : Status(o)' = Status(o)
  BY <1>2, <1>3 DEF Status
<1>10. D!Accept(p)
  <2>1. [o \in Payload |-> Status(o)]' = [[o \in Payload |-> Status(o)] EXCEPT ![p] = "accepted"]
    BY <1>8, <1>9
  <2>2. QED
    BY <1>2, <1>8, <2>1 DEF D!Accept
<1>11. QED
  BY <1>7, <1>10

\* A write, whether it succeeds or fails, settles the whole batch of its job.
LEMMA SendSettles ==
  ASSUME TypeInv, OnePlace, NEW q \in Payload, SendOk(q) \/ SendFail(q)
  PROVE  \E kept, failed \in SUBSET Payload : Settles(kept, failed, {})
<1> DEFINE batch == job[q].batch
<1>1. /\ job \in [Payload -> JobState] /\ job[q].settings \in Settings
      /\ batch \in SUBSET Payload /\ dropped \in SUBSET Payload
      /\ stored \in [Payload -> Seq(Settings)]
  BY DEF TypeInv, Refs, JobRefs, TypeOK, JobState, SendOk, SendFail
<1>2. PICK kept \in SUBSET batch :
          /\ Write(kept, job[q].settings) /\ UNCHANGED lost
          /\ dropped' = dropped \cup (batch \ kept)
  <2>1. CASE SendOk(q)
    BY <2>1, <1>1 DEF SendOk
  <2>2. CASE SendFail(q)
    BY <2>2 DEF SendFail
  <2>3. QED
    BY <2>1, <2>2
<1>3. UNCHANGED <<queue, add>>
  BY DEF SendOk, SendFail, buffer
<1>4. \E pc \in JobPc : job' = [job EXCEPT ![q].batch = {}, ![q].pc = pc]
  BY DEF SendOk, SendFail, JobPc
<1>5. job'[q].batch = {} /\ \A o \in Payload \ {q} : job'[o] = job[o]
  BY <1>1, <1>4 DEF JobState
<1>6. Settles(kept, batch \ kept, {})
  <2>1. \A p \in batch : Accepted(p) /\ ~Settled(p)
    BY <1>1 DEF OnePlace, SettledOnce, OnlyAccepted
  <2>2. \A p \in batch, o \in Payload : p \notin queue'[o] /\ p \notin job'[o].batch
    BY <1>1, <1>3, <1>5 DEF OnePlace, WaitsOnce
  <2>3. /\ \A p \in kept : \E s \in Settings : stored'[p] = Append(stored[p], s)
        /\ \A p \in Payload \ kept : stored'[p] = stored[p]
    BY <1>1, <1>2 DEF Write
  <2>4. \A p \in Payload : Accepted(p)' = Accepted(p)
    BY <1>3 DEF Accepted
  <2>5. QED
    BY <1>2, <1>3, <1>5, <2>1, <2>2, <2>3, <2>4 DEF Settles
<1>7. QED
  BY <1>1, <1>6

\* A restart settles every accepted payload that is not settled yet: a write on its way
\* may store it, else it is lost.
LEMMA CrashSettles ==
  ASSUME TypeInv, OnePlace, Crash
  PROVE  \E kept, gone \in SUBSET Payload :
             /\ Settles(kept, {}, gone)
             /\ \A p \in Payload : Accepted(p) /\ ~Settled(p) => p \in kept \cup gone
<1> DEFINE sending(p) == {q \in Payload : job[q].pc = "send" /\ p \in job[q].batch}
           gone == {p \in Payload : Accepted(p) /\ p \notin dropped /\ p \notin lost /\ stored'[p] = <<>>}
<1>1. /\ stored \in [Payload -> Seq(Settings)]
      /\ add \in [Payload -> AddCall]
      /\ \A q \in Payload : job[q].pc = "send" => job[q].settings \in Settings
  BY DEF TypeInv, Refs, JobRefs, TypeOK, JobState
<1>2. PICK kept \in SUBSET {p \in Payload : sending(p) # {}} :
         stored' = [p \in Payload |->
                       IF p \in kept
                       THEN Append(stored[p], job[CHOOSE q \in sending(p) : TRUE].settings)
                       ELSE stored[p]]
  BY DEF Crash
<1>3. lost' = lost \cup gone /\ UNCHANGED dropped
  BY DEF Crash, Accepted
<1>4. \A p \in Payload : Accepted(p)' = Accepted(p)
  BY <1>1 DEF Crash, Accepted, AddCall, NoCall
<1>5. \A q \in Payload : queue'[q] = {} /\ job'[q].batch = {}
  BY DEF Crash, NoJob
<1>6. \A p \in kept : job[CHOOSE q \in sending(p) : TRUE].settings \in Settings
  BY <1>1
<1>7. \A p \in kept : Accepted(p) /\ ~Settled(p)
  BY DEF OnePlace, SettledOnce, OnlyAccepted
<1> HIDE DEF sending
<1>8. /\ \A p \in kept : \E s \in Settings : stored'[p] = Append(stored[p], s)
      /\ \A p \in Payload \ kept : stored'[p] = stored[p]
  BY <1>1, <1>2, <1>6
<1>9. \A p \in kept : stored'[p] # <<>>
  BY <1>1, <1>8
<1>10. \A p \in gone : Accepted(p) /\ ~Settled(p) /\ p \notin kept
  BY <1>8, <1>9 DEF Settled
<1>11. \A p \in Payload : Accepted(p) /\ ~Settled(p) => p \in kept \cup gone
  BY <1>8 DEF Settled
<1> HIDE DEF gone
<1>12. Settles(kept, {}, gone)
  BY <1>3, <1>4, <1>5, <1>7, <1>8, <1>10 DEF Settles
<1>13. gone \in SUBSET Payload
  BY DEF gone
<1>14. QED
  BY <1>11, <1>12, <1>13

\* A worker's batch takes over what its queue held; the log provider gives it up.
LEMMA DrainMoves ==
  ASSUME TypeInv, OnePlace, NEW q \in Payload, Drain(q)
  PROVE  \/ Settles({}, queue[q], {})
         \/ OnePlace' /\ UNCHANGED <<stored, dropped, lost, add>>
<1>1. /\ job \in [Payload -> JobState] /\ queue \in [Payload -> SUBSET Payload]
      /\ dropped \in SUBSET Payload
  BY DEF TypeInv, TypeOK
<1>2. queue' = [queue EXCEPT ![q] = {}] /\ UNCHANGED <<stored, lost, add>>
  BY DEF Drain, Poll
<1>3. CASE ProviderFor(q) = "LOG" /\ queue[q] # {}
  <2>1. UNCHANGED job /\ dropped' = dropped \cup queue[q]
    BY <1>3 DEF Drain
  <2>2. \A p \in queue[q] : Accepted(p) /\ ~Settled(p)
    BY <1>1 DEF OnePlace, SettledOnce, OnlyAccepted
  <2>3. \A p \in queue[q], o \in Payload : p \notin queue'[o] /\ p \notin job'[o].batch
    BY <1>1, <1>2, <2>1 DEF OnePlace, WaitsOnce
  <2>4. Settles({}, queue[q], {})
    BY <1>1, <1>2, <2>1, <2>2, <2>3 DEF Settles, Accepted
  <2>5. QED
    BY <2>4
<1>4. CASE ~(ProviderFor(q) = "LOG" /\ queue[q] # {})
  <2>1. /\ UNCHANGED dropped
        /\ \E pc \in JobPc : job' = [job EXCEPT ![q].batch = @ \cup queue[q], ![q].pc = pc]
    BY <1>4 DEF Drain, JobPc
  <2>2. \A p, o \in Payload :
            p \in job'[o].batch <=> p \in job[o].batch \/ (o = q /\ p \in queue[q])
    BY <1>1, <2>1 DEF JobState
  <2>3. \A p, o \in Payload : p \in queue'[o] <=> p \in queue[o] /\ o # q
    BY <1>1, <1>2
  <2>4. OnePlace'
    <3>1. WaitsOnce'
      BY <2>2, <2>3 DEF OnePlace, WaitsOnce
    <3>2. SettledOnce'
      BY <1>2, <2>1, <2>2, <2>3 DEF OnePlace, SettledOnce, Settled
    <3>3. OnlyAccepted'
      BY <1>2, <2>1, <2>2, <2>3 DEF OnePlace, OnlyAccepted, Settled, Accepted
    <3>4. QED
      BY <3>1, <3>2, <3>3 DEF OnePlace
  <2>5. QED
    BY <1>2, <2>1, <2>4
<1>5. QED
  BY <1>3, <1>4

\* Every step either moves nothing the abstract edge sees, or is one of its steps.
LEMMA StepOnePlace ==
  ASSUME TypeInv, OnePlace, [Next]_vars
  PROVE  OnePlace' /\ [D!Next]_D!vars
<1>1. TypeOK /\ TypeOK'
  BY StepTypeInv DEF TypeInv
<1>2. ASSUME NEW kept \in SUBSET Payload, NEW failed \in SUBSET Payload,
             Settles(kept, failed, {})
      PROVE  OnePlace' /\ [D!Next]_D!vars
  BY <1>1, <1>2, SettlesOnePlace, SettlesStep DEF D!Next
<1>3. UNCHANGED <<stored, dropped, lost>> /\ (\A p \in Payload : Accepted(p)' = Accepted(p))
          => UNCHANGED D!vars
  BY DEF D!vars, Status
<1>4. CASE Quiet
  BY <1>3, <1>4, QuietOnePlace DEF Quiet
<1>5. ASSUME NEW p \in Payload, Enqueue(p) PROVE OnePlace' /\ [D!Next]_D!vars
  BY <1>5, EnqueueAccepts DEF D!Next
<1>6. ASSUME NEW q \in Payload, Drain(q) PROVE OnePlace' /\ [D!Next]_D!vars
  <2>1. CASE Settles({}, queue[q], {})
    BY <1>1, <1>2, <2>1 DEF TypeOK
  <2>2. CASE OnePlace' /\ UNCHANGED <<stored, dropped, lost, add>>
    BY <1>3, <2>2 DEF Accepted
  <2>3. QED
    BY <1>6, <2>1, <2>2, DrainMoves
<1>7. ASSUME NEW q \in Payload, SendOk(q) \/ SendFail(q) PROVE OnePlace' /\ [D!Next]_D!vars
  BY <1>2, <1>7, SendSettles
<1>8. CASE Crash
  <2>1. PICK kept \in SUBSET Payload, gone \in SUBSET Payload :
             /\ Settles(kept, {}, gone)
             /\ \A p \in Payload : Accepted(p) /\ ~Settled(p) => p \in kept \cup gone
    BY <1>8, CrashSettles
  <2>2. OnePlace'
    BY <1>1, <2>1, SettlesOnePlace
  <2>3. D!Restart(kept)
    BY <1>1, <2>1, RestartStep
  <2> QED BY <2>2, <2>3 DEF D!Next
<1>9. \/ Quiet \/ Crash
      \/ \E p \in Payload : Enqueue(p)
      \/ \E q \in Payload : Drain(q) \/ SendOk(q) \/ SendFail(q)
  <2>1. ASSUME NEW p \in Payload, Adding(p) PROVE Quiet \/ Enqueue(p)
    BY <2>1, QuietSteps DEF Adding
  <2>2. ASSUME NEW q \in Payload, Working(q)
        PROVE  Quiet \/ Drain(q) \/ SendOk(q) \/ SendFail(q)
    BY <2>2, QuietSteps DEF Working
  <2>3. QED
    BY <2>1, <2>2, QuietSteps DEF Next
<1>10. QED
  BY <1>4, <1>5, <1>6, <1>7, <1>8, <1>9

\* At first no payload is anywhere, and the abstract edge has none either.
LEMMA InitOnePlace == Init => OnePlace /\ D!Init
<1>1. Init => OnePlace
  BY DEF Init, OnePlace, WaitsOnce, SettledOnce, OnlyAccepted, Settled, NoJob
<1>2. Init => D!Init
  BY DEF Init, D!Init, Status, Accepted, NoCall
<1>3. QED
  BY <1>1, <1>2

\* No payload is ever in two places, whatever the interleaving of request threads,
\* scan, workers, timeouts and restarts: none is lost twice or written twice.
THEOREM PlaceCorrect == Spec => []OnePlace
<1>1. TypeInv /\ OnePlace /\ [Next]_vars => OnePlace'
  BY StepOnePlace
<1>2. Init => OnePlace
  BY InitOnePlace
<1>3. QED
  BY <1>1, <1>2, TypeCorrect, PTL DEF Spec

\* The ingest buffer implements at-most-once delivery.
THEOREM DeliversAtMostOnce == Spec => AtMostOnceDelivery
<1>1. TypeInv /\ OnePlace /\ [Next]_vars => [D!Next]_D!vars
  BY StepOnePlace
<1>2. Init => D!Init
  BY InitOnePlace
<1>3. QED
  BY <1>1, <1>2, TypeCorrect, PlaceCorrect, PTL DEF Spec, D!Spec, AtMostOnceDelivery

-----------------------------------------------------------------------------
(* The route of a payload never leaves its revision.                       *)

\* The revision of a call of add, and of the map and the queue that bear its name.
Known(p) == add[p].settings # None
RevisionOf(p) == RevOf[add[p].settings]
Same(p, q) == Known(p) /\ Known(q) /\ RevisionOf(p) = RevisionOf(q)
Served(r, e) ==
    \E o \in Payload : Known(o) /\ RevisionOf(o) = r /\ EnvOf[add[o].settings] = e

\* No map, queue or batch mixes revisions, ...
MapsInv ==
    /\ \A e \in Environment :
           environmentIngestSettings[e] # None => EnvOf[environmentIngestSettings[e]] = e
    /\ \A r \in Revision :
           revisionToEnvironment[r] # None => Served(r, revisionToEnvironment[r])
    /\ \A r \in Revision :
           revisionData[r] # None => Known(revisionData[r]) /\ RevisionOf(revisionData[r]) = r
    /\ \A m \in Payload, w \in Window :
           timeWindowMap[m][w] # None => Same(m, timeWindowMap[m][w])
QueuesInv == \A p, q \in Payload : p \in queue[q] => Same(p, q)
CallsInv ==
    \A p \in Payload :
        /\ add[p].pc = "new" => ~Known(p)
        /\ add[p].map # None => Same(p, add[p].map)
        /\ add[p].queue # None => Same(p, add[p].queue)
\* ... and a job writes under settings of its queue's revision.
JobsInv ==
    \A q \in Payload :
        /\ job[q].settings # None =>
               Known(q) /\ Served(RevisionOf(q), EnvOf[job[q].settings])
        /\ \A p \in job[q].batch : Same(p, q)
StoredInv ==
    \A p \in Payload : stored[p] # <<>> =>
        Known(p) /\ Served(RevisionOf(p), EnvOf[Head(stored[p])])
RouteInv == MapsInv /\ QueuesInv /\ CallsInv /\ JobsInv /\ StoredInv

\* Whose settings are known keeps them.
Stable == \A o \in Payload : Known(o) => add'[o].settings = add[o].settings

LEMMA Lasting ==
  ASSUME Stable
  PROVE  /\ \A p \in Payload : Known(p) => Known(p)' /\ RevisionOf(p)' = RevisionOf(p)
         /\ \A p, q \in Payload : Same(p, q) => Same(p, q)'
         /\ \A r, e : Served(r, e) => Served(r, e)'
BY DEF Stable, Known, RevisionOf, Same, Served

LEMMA StableSteps ==
  ASSUME TypeInv, RouteInv, [Next]_vars PROVE Stable
<1>1. add \in [Payload -> AddCall]
  BY DEF TypeInv, TypeOK
<1>2. CASE add' = add
  BY <1>2 DEF Stable
<1>3. ASSUME NEW p \in Payload, NEW s \in Settings, Receive(p, s) PROVE Stable
  <2>1. ~Known(p)
    BY <1>3 DEF Receive, RouteInv, CallsInv
  <2>2. \A o \in Payload \ {p} : add'[o] = add[o]
    BY <1>1, <1>3 DEF Receive
  <2> QED BY <2>1, <2>2 DEF Stable
<1>4. ASSUME NEW p \in Payload, Adding(p) PROVE Stable
  <2>1. \A o \in Payload \ {p} : add'[o] = add[o]
    BY <1>1, <1>4 DEF Adding, PutSettings, PutEnvironment, PutMap, GetMap, ReadWindow,
                      GetQueue, Enqueue, Goto
  <2>2. add'[p].settings = add[p].settings
    BY <1>1, <1>4 DEF Adding, PutSettings, PutEnvironment, PutMap, GetMap, ReadWindow,
                      GetQueue, Enqueue, Goto, AddCall
  <2> QED BY <2>1, <2>2 DEF Stable
<1>5. CASE Crash
  BY <1>5 DEF Crash, Stable, NoCall
<1>6. CASE Pushing \/ Timeout \/ Tick \/ UNCHANGED vars \/ \E q \in Payload : Working(q)
  <2>1. add' = add
    BY <1>6 DEF Pushing, PushStart, DropRevision, DropWindow, EndWindows, EndScan, PushReturn,
                ScanRevision, ScanWindow, Timeout, Tick, vars, Working, StartJob, Prepare,
                Drain, SendOk, SendFail
  <2> QED BY <1>2, <2>1
<1> QED BY <1>3, <1>4, <1>5, <1>6 DEF Next

\* What a step does not touch is as it was.
maps == <<environmentIngestSettings, revisionToEnvironment, revisionData, timeWindowMap>>
LEMMA Untouched ==
  ASSUME TypeInv, RouteInv, Stable
  PROVE  /\ UNCHANGED maps => MapsInv'
         /\ UNCHANGED queue => QueuesInv'
         /\ UNCHANGED add => CallsInv'
         /\ UNCHANGED job => JobsInv'
         /\ UNCHANGED stored => StoredInv'
<1>1. UNCHANGED maps => MapsInv'
  <2> SUFFICES ASSUME UNCHANGED maps PROVE MapsInv'
    OBVIOUS
  <2>1. /\ revisionData \in [Revision -> Payload \cup {None}]
        /\ timeWindowMap \in [Payload -> [Window -> Payload \cup {None}]]
    BY DEF TypeInv, TypeOK
  <2> QED BY <2>1, Lasting DEF maps, MapsInv, RouteInv
<1>2. UNCHANGED queue => QueuesInv'
  BY Lasting DEF QueuesInv, RouteInv
<1>3. UNCHANGED add => CallsInv'
  BY DEF CallsInv, RouteInv, Same, Known, RevisionOf
<1>4. UNCHANGED job => JobsInv'
  <2> SUFFICES ASSUME UNCHANGED job PROVE JobsInv'
    OBVIOUS
  <2>1. \A q \in Payload : job[q].batch \subseteq Payload
    BY DEF TypeInv, TypeOK, JobState
  <2> QED BY <2>1, Lasting DEF JobsInv, RouteInv
<1>5. UNCHANGED stored => StoredInv'
  BY Lasting DEF StoredInv, RouteInv
<1> QED BY <1>1, <1>2, <1>3, <1>4, <1>5

LEMMA InitRoute == Init => RouteInv
BY DEF Init, RouteInv, MapsInv, QueuesInv, CallsInv, JobsInv, StoredInv, Known, NoCall, NoJob,
       NoSlots

\* A call of add that only goes on.
LEMMA GotoCalls ==
  ASSUME TypeInv, RouteInv, NEW p \in Payload, NEW pc, pc # "new", Goto(p, pc)
  PROVE  CallsInv'
<1>1. add \in [Payload -> AddCall]
  BY DEF TypeInv, TypeOK
<1>2. \A o \in Payload : /\ add'[o].settings = add[o].settings /\ add'[o].map = add[o].map
                         /\ add'[o].queue = add[o].queue
                         /\ add'[o].pc = add[o].pc \/ (o = p /\ add'[o].pc = pc)
  BY <1>1 DEF Goto, AddCall
<1>3. \A o, q \in Payload : Same(o, q)' = Same(o, q)
  BY <1>2 DEF Same, Known, RevisionOf
<1>4. \A o \in Payload : add[o].map \in Payload \cup {None} /\ add[o].queue \in Payload \cup {None}
  BY <1>1 DEF AddCall
<1> QED BY <1>2, <1>3, <1>4 DEF CallsInv, RouteInv, Known

\* A call that fetches its settings, its map or its queue.
LEMMA FetchCalls ==
  ASSUME TypeInv, RouteInv, Stable, NEW p \in Payload, NEW c,
         add' = [add EXCEPT ![p] = c], c.pc # "new",
         c.map # None => c.map \in Payload /\ Same(p, c.map)',
         c.queue # None => c.queue \in Payload /\ Same(p, c.queue)'
  PROVE  CallsInv'
<1>1. add \in [Payload -> AddCall]
  BY DEF TypeInv, TypeOK
<1>2. \A o \in Payload : add'[o] = IF o = p THEN c ELSE add[o]
  BY <1>1
<1>3. \A o \in Payload : add[o].map \in Payload \cup {None} /\ add[o].queue \in Payload \cup {None}
  BY <1>1 DEF AddCall
<1> QED BY <1>2, <1>3, Lasting DEF CallsInv, RouteInv, Known

\* What an insert leaves under each key: the old value, the new one, or nothing.
LEMMA InsertKeeps ==
  ASSUME NEW map, NEW p, NEW key, NEW value, NEW result \in InsertInto(map, p, key, value)
  PROVE  \A k \in DOMAIN map : \/ result[k] = map[k] \/ result[k] = None
                               \/ k = key /\ result[k] = value
<1> DEFINE full == [map EXCEPT ![key] = value]
<1>1. result = full \/ \E kept \in SUBSET DOMAIN map :
          result = [k \in DOMAIN map |-> IF k \in kept THEN full[k] ELSE None]
  BY DEF InsertInto
<1>2. \A k \in DOMAIN map : full[k] = IF k = key THEN value ELSE map[k]
  OBVIOUS
<1> HIDE DEF full
<1> QED BY <1>1, <1>2

\* The two inserts of add.
LEMMA SettingsInsert ==
  ASSUME TypeInv, NEW p \in Payload, PutSettings(p)
  PROVE  \A e \in Environment :
             \/ environmentIngestSettings'[e] = environmentIngestSettings[e]
             \/ environmentIngestSettings'[e] = None
             \/ /\ e = EnvOf[add[p].settings]
                /\ environmentIngestSettings'[e] = add[p].settings
<1>1. environmentIngestSettings \in [Environment -> Settings \cup {None}]
  BY DEF TypeInv, TypeOK
<1>2. EnvOf[add[p].settings] \in Environment
  BY ConfigAssumption DEF PutSettings, TypeInv, TypeOK, Refs, AddRefs, AddCall
<1>3. \/ environmentIngestSettings' = environmentIngestSettings
      \/ environmentIngestSettings' \in
             InsertInto(environmentIngestSettings, p, EnvOf[add[p].settings], add[p].settings)
  BY DEF PutSettings
<1>4. PICK map, key, value : map = environmentIngestSettings /\ value = add[p].settings
                             /\ key = EnvOf[add[p].settings]
                             /\ DOMAIN map = Environment
  BY <1>1, <1>2
<1>5. ASSUME NEW result \in InsertInto(map, p, key, value)
      PROVE  \A e \in Environment : \/ result[e] = map[e] \/ result[e] = None
                                    \/ e = key /\ result[e] = value
  BY <1>4, InsertKeeps
<1> QED BY <1>3, <1>4, <1>5

LEMMA EnvironmentInsert ==
  ASSUME TypeInv, NEW p \in Payload, PutEnvironment(p)
  PROVE  \A r \in Revision :
             \/ revisionToEnvironment'[r] = revisionToEnvironment[r]
             \/ revisionToEnvironment'[r] = None
             \/ /\ r = RevOf[add[p].settings]
                /\ revisionToEnvironment'[r] = EnvOf[add[p].settings]
<1>1. revisionToEnvironment \in [Revision -> Environment \cup {None}]
  BY DEF TypeInv, TypeOK
<1>2. RevOf[add[p].settings] \in Revision
  BY ConfigAssumption DEF PutEnvironment, TypeInv, TypeOK, Refs, AddRefs, AddCall
<1>3. \/ revisionToEnvironment' = [revisionToEnvironment EXCEPT ![RevOf[add[p].settings]] =
                                                                 EnvOf[add[p].settings]]
      \/ revisionToEnvironment' \in
             InsertInto(revisionToEnvironment, p, RevOf[add[p].settings], EnvOf[add[p].settings])
  BY DEF PutEnvironment
<1>4. PICK map, key, value : map = revisionToEnvironment /\ key = RevOf[add[p].settings]
                             /\ value = EnvOf[add[p].settings] /\ DOMAIN map = Revision
  BY <1>1, <1>2
<1>5. ASSUME NEW result \in InsertInto(map, p, key, value)
      PROVE  \A r \in Revision : \/ result[r] = map[r] \/ result[r] = None
                                 \/ r = key /\ result[r] = value
  BY <1>4, InsertKeeps
<1> QED BY <1>1, <1>2, <1>3, <1>4, <1>5

LEMMA AddRoute ==
  ASSUME TypeInv, RouteInv, Stable, NEW p \in Payload, Adding(p)
  PROVE  RouteInv'
<1> DEFINE s == add[p].settings
<1> DEFINE r == RevOf[add[p].settings]
<1>1. add \in [Payload -> AddCall] /\ add[p] \in AddCall
  BY DEF TypeInv, TypeOK
<1>2. s \in Settings /\ r \in Revision /\ EnvOf[s] \in Environment /\ Known(p) /\ RevisionOf(p) = r
  BY <1>1, ConfigAssumption
     DEF Adding, PutSettings, PutEnvironment, PutMap, GetMap, ReadWindow, GetQueue, Enqueue,
         TypeInv, Refs, AddRefs, AddCall, Known, RevisionOf
<1>3. Known(p)' /\ RevisionOf(p)' = r
  BY <1>2, Lasting
<1>4. CASE PutSettings(p)
  <2>1. CallsInv'
    BY <1>4, GotoCalls DEF PutSettings
  <2>2. \A e \in Environment :
          environmentIngestSettings'[e] # None => EnvOf[environmentIngestSettings'[e]] = e
    <3>1. environmentIngestSettings \in [Environment -> Settings \cup {None}]
      BY DEF TypeInv, TypeOK
    <3>2. \A e \in Environment :
              \/ environmentIngestSettings'[e] = environmentIngestSettings[e]
              \/ environmentIngestSettings'[e] = None
              \/ e = EnvOf[s] /\ environmentIngestSettings'[e] = s
      BY <1>4, SettingsInsert
    <3> QED BY <1>2, <3>1, <3>2 DEF RouteInv, MapsInv
  <2>3. UNCHANGED <<revisionToEnvironment, revisionData, timeWindowMap, queue, job, stored>>
    BY <1>4 DEF PutSettings, outcome
  <2>4. MapsInv'
    <3>1. /\ revisionData \in [Revision -> Payload \cup {None}]
          /\ timeWindowMap \in [Payload -> [Window -> Payload \cup {None}]]
      BY DEF TypeInv, TypeOK
    <3> QED BY <2>2, <2>3, <3>1, Lasting DEF MapsInv, RouteInv
  <2> QED BY <2>1, <2>3, <2>4, Untouched DEF RouteInv
<1>5. CASE PutEnvironment(p)
  <2>1. CallsInv'
    BY <1>5, GotoCalls DEF PutEnvironment
  <2>2. UNCHANGED <<environmentIngestSettings, revisionData, timeWindowMap, queue, job, stored>>
    BY <1>5 DEF PutEnvironment, outcome
  <2>3. \A t \in Revision : (revisionToEnvironment[t] # None => Served(t, revisionToEnvironment[t]))'
    <3>1. revisionToEnvironment \in [Revision -> Environment \cup {None}]
      BY DEF TypeInv, TypeOK
    <3>2. \A t \in Revision :
              \/ revisionToEnvironment'[t] = revisionToEnvironment[t]
              \/ revisionToEnvironment'[t] = None
              \/ t = r /\ revisionToEnvironment'[t] = EnvOf[s]
      BY <1>5, EnvironmentInsert
    <3>3. Served(r, EnvOf[s])
      BY <1>2 DEF Served
    <3> QED BY <1>2, <3>1, <3>2, <3>3, Lasting DEF RouteInv, MapsInv
  <2>4. MapsInv'
    <3>1. /\ revisionData \in [Revision -> Payload \cup {None}]
          /\ timeWindowMap \in [Payload -> [Window -> Payload \cup {None}]]
      BY DEF TypeInv, TypeOK
    <3> QED BY <2>2, <2>3, <3>1, Lasting DEF MapsInv, RouteInv
  <2> QED BY <2>1, <2>2, <2>4, Untouched DEF RouteInv
<1>6. CASE PutMap(p)
  <2>1. CallsInv'
    BY <1>6, GotoCalls DEF PutMap
  <2>2. UNCHANGED <<environmentIngestSettings, revisionToEnvironment, timeWindowMap, queue, job,
                    stored>>
    BY <1>6 DEF PutMap, outcome
  <2>3. /\ revisionData \in [Revision -> Payload \cup {None}]
        /\ timeWindowMap \in [Payload -> [Window -> Payload \cup {None}]]
    BY DEF TypeInv, TypeOK
  <2>4. \A t \in Revision : revisionData'[t] = revisionData[t] \/ (t = r /\ revisionData'[t] = p)
    BY <1>6, <2>3 DEF PutMap
  <2>5. MapsInv'
    BY <1>3, <2>2, <2>3, <2>4, Lasting DEF MapsInv, RouteInv
  <2> QED BY <2>1, <2>2, <2>5, Untouched DEF RouteInv
<1>7. CASE GetMap(p) \/ ReadWindow(p) \/ GetQueue(p)
  <2>1. UNCHANGED <<maps, queue, job, stored>>
    BY <1>7 DEF GetMap, ReadWindow, GetQueue, buffer, outcome, maps
  <2>2. CASE GetMap(p)
    <3> DEFINE m == revisionData[r]
    <3> DEFINE c == [add[p] EXCEPT !.pc = "window", !.map = m]
    <3>1. add' = [add EXCEPT ![p] = c]
      BY <1>1, <2>2 DEF GetMap
    <3>2. c.pc = "window" /\ c.map = m /\ c.queue = add[p].queue
      BY <1>1 DEF AddCall
    <3>3. m # None => m \in Payload /\ Same(p, m)
      BY <1>2 DEF TypeInv, TypeOK, RouteInv, MapsInv, Same
    <3>4. c.queue # None => c.queue \in Payload /\ Same(p, c.queue)
      BY <1>1, <3>2 DEF RouteInv, CallsInv, AddCall
    <3> HIDE DEF c
    <3>5. CallsInv'
      BY <3>1, <3>2, <3>3, <3>4, Lasting, FetchCalls
    <3> QED BY <2>1, <3>5, Untouched DEF RouteInv
  <2>3. CASE ReadWindow(p)
    <3> DEFINE c == [add[p] EXCEPT !.pc = "getQueue", !.window = CurrentWindow]
    <3>1. add' = [add EXCEPT ![p] = c]
      BY <1>1, <2>3 DEF ReadWindow
    <3>2. c.pc = "getQueue" /\ c.map = add[p].map /\ c.queue = add[p].queue
      BY <1>1 DEF AddCall
    <3>3. /\ c.map # None => c.map \in Payload /\ Same(p, c.map)
          /\ c.queue # None => c.queue \in Payload /\ Same(p, c.queue)
      BY <1>1, <3>2 DEF RouteInv, CallsInv, AddCall
    <3> HIDE DEF c
    <3>4. CallsInv'
      BY <3>1, <3>2, <3>3, Lasting, FetchCalls
    <3> QED BY <2>1, <3>4, Untouched DEF RouteInv
  <2>4. CASE GetQueue(p)
    <3>1. CASE add[p].map = None
      <4>1. CallsInv'
        BY <2>4, <3>1, GotoCalls DEF GetQueue
      <4> QED BY <2>1, <4>1, Untouched DEF RouteInv
    <3>2. CASE add[p].map # None
      <4> DEFINE m == add[p].map
      <4> DEFINE q == timeWindowMap[m][add[p].window]
      <4> DEFINE c == [add[p] EXCEPT !.pc = "enqueue", !.queue = q]
      <4>1. add' = [add EXCEPT ![p] = c]
        BY <1>1, <2>4, <3>2 DEF GetQueue
      <4>2. c.pc = "enqueue" /\ c.map = m /\ c.queue = q
        BY <1>1 DEF AddCall
      <4>3. m \in Payload /\ Same(p, m) /\ add[p].window \in Window
        BY <1>1, <3>2 DEF RouteInv, CallsInv, AddCall
      <4>4. q # None => q \in Payload /\ Same(m, q)
        BY <4>3 DEF TypeInv, TypeOK, RouteInv, MapsInv
      <4>5. q # None => Same(p, q)
        BY <4>3, <4>4 DEF Same
      <4> HIDE DEF c, q
      <4>6. CallsInv'
        BY <4>1, <4>2, <4>3, <4>4, <4>5, Lasting, FetchCalls
      <4> QED BY <2>1, <4>6, Untouched DEF RouteInv
    <3> QED BY <3>1, <3>2
  <2> QED BY <1>7, <2>2, <2>3, <2>4
<1>8. CASE Enqueue(p)
  <2> DEFINE c == add[p]
  <2> DEFINE q == IF c.queue = None THEN p ELSE c.queue
  <2>1. CallsInv'
    BY <1>8, GotoCalls DEF Enqueue
  <2>2. UNCHANGED <<environmentIngestSettings, revisionToEnvironment, revisionData, job, stored>>
    BY <1>8 DEF Enqueue, outcome
  <2>3. c.map \in Payload /\ Same(p, c.map) /\ c.window \in Window
    BY <1>1, <1>8 DEF Enqueue, TypeInv, Refs, AddRefs, RouteInv, CallsInv, AddCall
  <2>4. q \in Payload /\ Same(p, q)
    BY <1>1, <1>2 DEF AddCall, RouteInv, CallsInv, Same
  <2>5. QueuesInv'
    <3>1. queue \in [Payload -> SUBSET Payload] /\ queue' = [queue EXCEPT ![q] = @ \cup {p}]
      BY <1>8 DEF TypeInv, TypeOK, Enqueue
    <3> HIDE DEF q
    <3>2. \A o, x \in Payload : o \in queue'[x] => o \in queue[x] \/ (o = p /\ x = q)
      BY <2>4, <3>1
    <3> QED BY <2>4, <3>2, Lasting DEF QueuesInv, RouteInv
  <2>6. /\ revisionData \in [Revision -> Payload \cup {None}]
        /\ timeWindowMap \in [Payload -> [Window -> Payload \cup {None}]]
    BY DEF TypeInv, TypeOK
  <2>7. \A m \in Payload, w \in Window :
          \/ timeWindowMap'[m][w] = timeWindowMap[m][w]
          \/ m = c.map /\ timeWindowMap'[m][w] = p
    BY <1>8, <2>3, <2>6 DEF Enqueue
  <2>8. Same(c.map, p)
    BY <2>3 DEF Same
  <2>9. MapsInv'
    BY <2>2, <2>3, <2>6, <2>7, <2>8, Lasting DEF MapsInv, RouteInv
  <2> QED BY <2>1, <2>2, <2>5, <2>9, Untouched DEF RouteInv
<1> QED BY <1>4, <1>5, <1>6, <1>7, <1>8 DEF Adding

\* The settings the scan finds for a revision are of an environment it was served for.
LEMMA FoundServed ==
  ASSUME TypeInv, RouteInv, NEW r \in Revision, NEW s \in SettingsFor(r), s # None
  PROVE  Served(r, EnvOf[s])
<1> DEFINE e == revisionToEnvironment[r]
<1>1. e # None /\ s = environmentIngestSettings[e]
  BY DEF SettingsFor
<1>2. e \in Environment
  BY <1>1 DEF TypeInv, TypeOK
<1> QED BY <1>1, <1>2 DEF RouteInv, MapsInv

\* push unlinks maps and queues, and lists queues of the revision it visits.
LEMMA PushRoute ==
  ASSUME TypeInv, RouteInv, Stable, Pushing
  PROVE  RouteInv'
<1>1. /\ revisionData \in [Revision -> Payload \cup {None}]
      /\ timeWindowMap \in [Payload -> [Window -> Payload \cup {None}]]
      /\ job \in [Payload -> JobState]
      /\ push \in PushState
  BY DEF TypeInv, TypeOK
<1>2. UNCHANGED <<environmentIngestSettings, revisionToEnvironment, queue, add, stored>>
  BY DEF Pushing, PushStart, DropRevision, DropWindow, EndWindows, EndScan, PushReturn,
         ScanRevision, ScanWindow, buffer, outcome
<1>3. MapsInv'
  <2>1. CASE DropRevision
    <3>1. timeWindowMap' = timeWindowMap
          /\ \A r \in Revision : revisionData'[r] \in {revisionData[r], None}
      BY <1>1, <2>1 DEF DropRevision
    <3> QED BY <1>1, <1>2, <3>1, Lasting DEF MapsInv, RouteInv
  <2>2. CASE DropWindow
    <3>1. revisionData' = revisionData
          /\ \A m \in Payload, w \in Window : timeWindowMap'[m][w] \in {timeWindowMap[m][w], None}
      BY <1>1, <2>2 DEF DropWindow
    <3> QED BY <1>1, <1>2, <3>1, Lasting DEF MapsInv, RouteInv
  <2>3. CASE ~DropRevision /\ ~DropWindow
    <3>1. UNCHANGED maps
      BY <1>2, <2>3 DEF Pushing, PushStart, EndWindows, EndScan, PushReturn, ScanRevision,
                        ScanWindow, buffer, maps
    <3> QED BY <3>1, Untouched
  <2> QED BY <2>1, <2>2, <2>3
<1>4. JobsInv'
  <2>1. ASSUME NEW w \in Window, ScanWindow(w), job' # job PROVE JobsInv'
    <3> DEFINE r == push.revision
    <3> DEFINE q == timeWindowMap[revisionData[r]][w]
    <3>1. w \in push.windows /\ push.pc = "windows"
      BY <2>1 DEF ScanWindow
    <3>2. r \in Revision /\ revisionData[r] \in Payload /\ q # None /\ q \in Payload
      BY <1>1, <3>1 DEF TypeInv, Refs, ScanRefs, PushState
    <3>3. Known(q) /\ RevisionOf(q) = r
      <4>1. Known(revisionData[r]) /\ RevisionOf(revisionData[r]) = r
        BY <3>2, NoneAssumption DEF RouteInv, MapsInv
      <4>2. Same(revisionData[r], q)
        BY <3>2 DEF RouteInv, MapsInv
      <4> HIDE DEF q, r
      <4> QED BY <4>1, <4>2 DEF Same
    <3>4. PICK s \in SettingsFor(r) :
            job' = [job EXCEPT ![q] = [pc |-> "listed", settings |-> s, batch |-> {}]]
      BY <2>1 DEF ScanWindow
    <3>5. s # None => Served(RevisionOf(q), EnvOf[s])
      BY <3>2, <3>3, FoundServed
    <3> HIDE DEF q, r
    <3>6. \A o \in Payload : job'[o] = IF o = q THEN [pc |-> "listed", settings |-> s, batch |-> {}]
                                                ELSE job[o]
      BY <1>1, <3>4
    <3>7. \A o \in Payload : job[o].batch \subseteq Payload
      BY <1>1 DEF JobState
    <3> QED BY <3>2, <3>3, <3>5, <3>6, <3>7, Lasting DEF JobsInv, RouteInv
  <2>2. CASE PushReturn
    BY <2>2 DEF PushReturn, JobsInv, NoJob
  <2>3. CASE job' = job
    BY <2>3, Untouched
  <2> QED BY <2>1, <2>2, <2>3 DEF Pushing, PushStart, DropRevision, DropWindow, EndWindows,
                                  EndScan, ScanRevision
<1> QED BY <1>2, <1>3, <1>4, Untouched DEF RouteInv

\* A worker writes what it has polled under the settings of its job.
LEMMA WorkRoute ==
  ASSUME TypeInv, RouteInv, Stable, NEW q \in Payload, Working(q)
  PROVE  RouteInv'
<1>1. /\ job \in [Payload -> JobState] /\ job[q] \in JobState
      /\ queue \in [Payload -> SUBSET Payload]
      /\ stored \in [Payload -> Seq(Settings)]
  BY DEF TypeInv, TypeOK
<1>2. UNCHANGED <<maps, add>>
  BY DEF Working, StartJob, Prepare, Drain, SendOk, SendFail, buffer, outcome, maps
<1>3. PICK pc, batch : /\ job' = [job EXCEPT ![q].pc = pc, ![q].batch = batch]
                       /\ batch \subseteq job[q].batch \cup queue[q]
  <2>1. CASE StartJob(q) \/ Prepare(q)
    <3>1. PICK pc : job' = [job EXCEPT ![q].pc = pc]
      BY <2>1 DEF StartJob, Prepare
    <3>2. job' = [job EXCEPT ![q].pc = pc, ![q].batch = job[q].batch]
      BY <1>1, <3>1 DEF JobState
    <3> QED BY <3>2
  <2>2. CASE Drain(q)
    <3>1. CASE job' = job
      <4>1. job' = [job EXCEPT ![q].pc = job[q].pc, ![q].batch = job[q].batch]
        BY <1>1, <3>1 DEF JobState
      <4> QED BY <4>1
    <3>2. CASE job' # job
      <4>1. PICK pc : job' = [job EXCEPT ![q].batch = @ \cup queue[q], ![q].pc = pc]
        BY <2>2, <3>2 DEF Drain
      <4>2. job' = [job EXCEPT ![q].pc = pc, ![q].batch = job[q].batch \cup queue[q]]
        BY <1>1, <4>1 DEF JobState
      <4> QED BY <4>2
    <3> QED BY <3>1, <3>2
  <2>3. CASE SendOk(q) \/ SendFail(q)
    <3>1. PICK pc : job' = [job EXCEPT ![q].batch = {}, ![q].pc = pc]
      BY <2>3 DEF SendOk, SendFail
    <3> DEFINE none == {}
    <3>2. job' = [job EXCEPT ![q].pc = pc, ![q].batch = none]
      BY <1>1, <3>1 DEF JobState
    <3>3. none \subseteq job[q].batch \cup queue[q]
      OBVIOUS
    <3> HIDE DEF none
    <3> QED BY <3>2, <3>3
  <2> QED BY <2>1, <2>2, <2>3 DEF Working
<1>4. JobsInv'
  <2>1. \A o \in Payload : /\ job'[o].settings = job[o].settings
                           /\ job'[o].batch = IF o = q THEN batch ELSE job[o].batch
    BY <1>1, <1>3 DEF JobState
  <2>2. \A o \in Payload : job[o].batch \subseteq Payload /\ queue[o] \subseteq Payload
    BY <1>1 DEF JobState
  <2>3. \A p \in batch : Same(p, q)
    BY <1>3, <2>2 DEF RouteInv, JobsInv, QueuesInv
  <2>4. ASSUME NEW o \in Payload, NEW p \in job'[o].batch PROVE Same(p, o)'
    <3>1. CASE o = q
      <4>1. p \in batch
        BY <2>1, <2>4, <3>1
      <4>2. Same(p, o) /\ p \in Payload
        BY <1>3, <2>2, <2>3, <3>1, <4>1
      <4> QED BY <4>2, Lasting
    <3>2. CASE o # q
      <4>1. p \in job[o].batch
        BY <2>1, <2>4, <3>2
      <4>2. Same(p, o) /\ p \in Payload
        BY <2>2, <4>1 DEF RouteInv, JobsInv
      <4> QED BY <4>2, Lasting
    <3> QED BY <3>1, <3>2
  <2>5. ASSUME NEW o \in Payload, job'[o].settings # None
        PROVE  (Known(o) /\ Served(RevisionOf(o), EnvOf[job[o].settings]))'
    <3>1. Known(o) /\ Served(RevisionOf(o), EnvOf[job[o].settings])
      BY <2>1, <2>5 DEF RouteInv, JobsInv
    <3> QED BY <2>1, <3>1, Lasting
  <2> QED BY <2>4, <2>5 DEF JobsInv
<1>5. QueuesInv'
  <2>1. queue' = queue \/ queue' = [queue EXCEPT ![q] = {}]
    BY DEF Working, StartJob, Prepare, Drain, SendOk, SendFail, buffer, Poll
  <2>2. \A o \in Payload : queue'[o] \subseteq queue[o]
    BY <1>1, <2>1
  <2> QED BY <2>2, Lasting DEF QueuesInv, RouteInv
<1>6. StoredInv'
  <2>1. CASE stored' = stored
    BY <2>1, Untouched
  <2>2. CASE stored' # stored
    <3> DEFINE s == job[q].settings
    <3>1. job[q].pc = "send" /\ s \in Settings
      BY <1>1, <2>2 DEF Working, StartJob, Prepare, Drain, SendOk, SendFail, outcome, TypeInv, Refs,
                        JobRefs, JobState
    <3>2. PICK kept \in SUBSET job[q].batch : Write(kept, s)
      BY <2>2 DEF Working, StartJob, Prepare, Drain, SendOk, SendFail, outcome
    <3>3. \A p \in kept : p \in Payload /\ Same(p, q)
      BY <1>1, <3>2 DEF JobState, RouteInv, JobsInv
    <3>4. s # None /\ Served(RevisionOf(q), EnvOf[s])
      BY <3>1, NoneAssumption DEF RouteInv, JobsInv
    <3> HIDE DEF s
    <3>5. \A p \in Payload :
            stored'[p] # <<>> => Head(stored'[p]) = (IF stored[p] = <<>> THEN s ELSE Head(stored[p]))
      <4> SUFFICES ASSUME NEW p \in Payload, stored'[p] # <<>>
                   PROVE  Head(stored'[p]) = (IF stored[p] = <<>> THEN s ELSE Head(stored[p]))
        OBVIOUS
      <4>1. stored'[p] = IF p \in kept THEN Append(stored[p], s) ELSE stored[p]
        BY <3>2 DEF Write
      <4>2. stored[p] \in Seq(Settings)
        BY <1>1
      <4> QED BY <3>1, <4>1, <4>2 DEF s
    <3>6. \A p \in Payload : stored[p] = <<>> /\ stored'[p] # <<>> => p \in kept
      BY <3>2 DEF Write
    <3> QED BY <3>3, <3>4, <3>5, <3>6, Lasting DEF StoredInv, RouteInv, Same
  <2> QED BY <2>1, <2>2
<1> QED BY <1>2, <1>4, <1>5, <1>6, Untouched DEF RouteInv

\* A restart forgets the buffer and the calls in progress; a write on its way is
\* under the settings of a job that held the payload.
LEMMA CrashRoute ==
  ASSUME TypeInv, RouteInv, Stable, Crash
  PROVE  RouteInv'
<1> DEFINE sending(p) == {q \in Payload : job[q].pc = "send" /\ p \in job[q].batch}
<1>1. MapsInv' /\ QueuesInv' /\ JobsInv'
  BY DEF Crash, MapsInv, QueuesInv, JobsInv, NoSlots, NoJob
<1>2. CallsInv'
  <2>1. ASSUME NEW p \in Payload, add'[p] # add[p]
        PROVE  add'[p].pc = "failed" /\ add'[p].map = None /\ add'[p].queue = None
    <3>1. add'[p] = [NoCall EXCEPT !.pc = "failed", !.settings = add[p].settings]
      BY <2>1 DEF Crash
    <3> QED BY <3>1 DEF NoCall
  <2>2. \A p \in Payload : add[p].map \in Payload \cup {None} /\ add[p].queue \in Payload \cup {None}
    BY DEF TypeInv, TypeOK, AddCall
  <2> QED BY <2>1, <2>2, Lasting DEF CallsInv, RouteInv, Known
<1>3. StoredInv'
  <2> SUFFICES ASSUME NEW p \in Payload, stored'[p] # <<>>
               PROVE  (Known(p) /\ Served(RevisionOf(p), EnvOf[Head(stored[p])]))'
    BY DEF StoredInv
  <2>1. stored[p] \in Seq(Settings)
    BY DEF TypeInv, TypeOK
  <2>2. CASE stored[p] # <<>>
    <3>1. Head(stored'[p]) = Head(stored[p])
      <4>1. PICK kept \in SUBSET {o \in Payload : sending(o) # {}} :
              stored' = [o \in Payload |->
                           IF o \in kept
                             THEN Append(stored[o], job[CHOOSE q \in sending(o) : TRUE].settings)
                             ELSE stored[o]]
        BY DEF Crash
      <4> DEFINE s == job[CHOOSE q \in sending(p) : TRUE].settings
      <4>2. sending(p) # {} => s \in Settings
        <5> DEFINE q == CHOOSE q \in sending(p) : TRUE
        <5>1. sending(p) # {} => q \in sending(p)
          OBVIOUS
        <5> HIDE DEF q
        <5>2. q \in sending(p) => job[q].settings \in Settings
          BY DEF TypeInv, TypeOK, Refs, JobRefs, JobState
        <5> QED BY <5>1, <5>2 DEF q
      <4>3. CASE p \in kept
        <5>1. stored'[p] = Append(stored[p], s) /\ s \in Settings
          BY <4>1, <4>2, <4>3
        <5> HIDE DEF s
        <5> QED BY <2>1, <2>2, <5>1
      <4>4. CASE p \notin kept
        BY <4>1, <4>4
      <4> QED BY <4>3, <4>4
    <3>2. Known(p) /\ Served(RevisionOf(p), EnvOf[Head(stored[p])])
      BY <2>2 DEF RouteInv, StoredInv
    <3> QED BY <3>1, <3>2, Lasting
  <2>3. CASE stored[p] = <<>>
    <3> DEFINE q == CHOOSE q \in sending(p) : TRUE
    <3>1. sending(p) # {} /\ stored'[p] = Append(stored[p], job[q].settings)
      BY <2>3 DEF Crash
    <3>2. q \in sending(p)
      BY <3>1
    <3> HIDE DEF q
    <3>3. q \in Payload /\ job[q].pc = "send" /\ p \in job[q].batch
      BY <3>2
    <3>4. job[q].settings # None /\ job[q].settings \in Settings
      BY <3>3 DEF TypeInv, TypeOK, Refs, JobRefs, JobState
    <3>5. Same(p, q) /\ Served(RevisionOf(q), EnvOf[job[q].settings])
      BY <3>3, <3>4 DEF RouteInv, JobsInv
    <3>6. Head(stored'[p]) = job[q].settings
      BY <2>3, <3>1, <3>4
    <3> QED BY <3>5, <3>6, Lasting DEF Same
  <2> QED BY <2>2, <2>3
<1> QED BY <1>1, <1>2, <1>3 DEF RouteInv

LEMMA StepRoute == TypeInv /\ RouteInv /\ [Next]_vars => RouteInv'
<1> SUFFICES ASSUME TypeInv, RouteInv, [Next]_vars PROVE RouteInv'
  OBVIOUS
<1>1. Stable
  BY StableSteps
<1>2. ASSUME NEW p \in Payload, NEW s \in Settings, Receive(p, s) PROVE RouteInv'
  <2> DEFINE c == [add[p] EXCEPT !.pc = "settings", !.settings = s]
  <2>1. add \in [Payload -> AddCall] /\ add[p] \in AddCall
    BY DEF TypeInv, TypeOK
  <2>2. add' = [add EXCEPT ![p] = c]
    BY <1>2, <2>1 DEF Receive
  <2>3. add[p].map = None /\ add[p].queue = None
    BY <1>2 DEF Receive, RouteInv, CallsInv, Same
  <2>4. c.pc = "settings" /\ c.map = None /\ c.queue = None
    BY <2>1, <2>3 DEF AddCall
  <2> HIDE DEF c
  <2>5. CallsInv'
    BY <1>1, <2>2, <2>4, FetchCalls
  <2>6. UNCHANGED <<maps, queue, job, stored>>
    BY <1>2 DEF Receive, buffer, outcome, maps
  <2> QED BY <1>1, <2>5, <2>6, Untouched DEF RouteInv
<1>3. CASE Timeout \/ Tick \/ UNCHANGED vars
  <2>1. UNCHANGED <<maps, queue, add, job, stored>>
    BY <1>3 DEF Timeout, Tick, vars, buffer, outcome, maps
  <2> QED BY <1>1, <2>1, Untouched DEF RouteInv
<1> QED BY <1>1, <1>2, <1>3, AddRoute, PushRoute, WorkRoute, CrashRoute DEF Next

\* No map, queue, batch or job ever mixes revisions, and every payload is written
\* under settings that the edge was given for the payload's own revision.
THEOREM RouteCorrect == Spec => []RouteInv
<1>1. Init => RouteInv
  BY InitRoute
<1>2. TypeInv /\ RouteInv /\ [Next]_vars => RouteInv'
  BY StepRoute
<1>3. QED
  BY <1>1, <1>2, TypeCorrect, PTL DEF Spec

\* The settings that calls of add have brought.
Brought(s) == s = None \/ \E o \in Payload : add[o].settings = s
BroughtInv ==
    /\ \A e \in Environment : Brought(environmentIngestSettings[e])
    /\ \A q \in Payload : Brought(job[q].settings)
    /\ \A p \in Payload : stored[p] # <<>> => Brought(Head(stored[p]))

\* A job keeps its settings, or takes what the scan read in the map.
LEMMA JobSettings ==
  ASSUME TypeInv, [Next]_vars, NEW q \in Payload
  PROVE  \/ job'[q].settings = job[q].settings \/ job'[q].settings = None
         \/ \E e \in Environment : job'[q].settings = environmentIngestSettings[e]
<1>0. /\ job \in [Payload -> JobState]
      /\ revisionToEnvironment \in [Revision -> Environment \cup {None}]
      /\ push \in PushState
  BY DEF TypeInv, TypeOK
<1>1. CASE job' = job
  BY <1>1
<1>2. CASE PushReturn \/ Crash
  <2>1. job' = [o \in Payload |-> NoJob]
    BY <1>2 DEF PushReturn, Crash
  <2> QED BY <2>1 DEF NoJob
<1>3. ASSUME NEW o \in Payload, Working(o) PROVE job'[q].settings = job[q].settings
  BY <1>0, <1>3 DEF Working, StartJob, Prepare, Drain, SendOk, SendFail, JobState
<1>4. ASSUME NEW w \in Window, ScanWindow(w), job' # job
      PROVE  \/ job'[q].settings = job[q].settings \/ job'[q].settings = None
             \/ \E e \in Environment : job'[q].settings = environmentIngestSettings[e]
  <2>1. PICK s \in SettingsFor(push.revision) :
            job' = [job EXCEPT ![timeWindowMap[revisionData[push.revision]][w]] =
                       [pc |-> "listed", settings |-> s, batch |-> {}]]
    BY <1>4 DEF ScanWindow
  <2>2. push.revision \in Revision
    BY <1>0, <1>4 DEF ScanWindow, PushState, TypeInv, Refs, ScanRefs
  <2>3. s = None \/ \E e \in Environment : s = environmentIngestSettings[e]
    BY <1>0, <2>2 DEF SettingsFor
  <2> QED BY <1>0, <2>1, <2>3
<1>5. ASSUME NEW p \in Payload, Adding(p) PROVE job' = job
  BY <1>5 DEF Adding, PutSettings, PutEnvironment, PutMap, GetMap, ReadWindow, GetQueue, Enqueue
<1>6. CASE Pushing
  BY <1>1, <1>2, <1>4, <1>6 DEF Pushing, PushStart, DropRevision, DropWindow, EndWindows, EndScan,
                                ScanRevision
<1>7. CASE UNCHANGED vars \/ Timeout \/ Tick \/ \E p \in Payload, s \in Settings : Receive(p, s)
  BY <1>1, <1>7 DEF vars, Timeout, Tick, Receive
<1> QED BY <1>1, <1>2, <1>3, <1>5, <1>6, <1>7 DEF Next

\* What is written is written under the settings of a job that has some.
LEMMA StoredSettings ==
  ASSUME TypeInv, [Next]_vars, NEW p \in Payload
  PROVE  \/ stored'[p] = stored[p]
         \/ \E q \in Payload : /\ job[q].settings \in Settings
                              /\ stored'[p] = Append(stored[p], job[q].settings)
<1>1. CASE Crash
  <2> DEFINE sending(o) == {q \in Payload : job[q].pc = "send" /\ o \in job[q].batch}
  <2>1. PICK kept \in SUBSET {o \in Payload : sending(o) # {}} :
           stored' = [o \in Payload |->
                         IF o \in kept
                         THEN Append(stored[o], job[CHOOSE q \in sending(o) : TRUE].settings)
                         ELSE stored[o]]
    BY <1>1 DEF Crash
  <2>2. p \in kept => (CHOOSE q \in sending(p) : TRUE) \in sending(p)
    OBVIOUS
  <2>3. \A q \in sending(p) : q \in Payload /\ job[q].settings \in Settings
    BY DEF TypeInv, TypeOK, Refs, JobRefs, JobState
  <2> HIDE DEF sending
  <2> QED BY <2>1, <2>2, <2>3
<1>2. ASSUME NEW q \in Payload, SendOk(q) \/ SendFail(q)
      PROVE  \/ stored'[p] = stored[p]
             \/ stored'[p] = Append(stored[p], job[q].settings) /\ job[q].settings \in Settings
  <2>1. job[q].settings \in Settings
    BY <1>2 DEF TypeInv, TypeOK, Refs, JobRefs, JobState, SendOk, SendFail
  <2> QED BY <1>2, <2>1 DEF SendOk, SendFail, Write
<1>3. CASE UNCHANGED stored
  BY <1>3
<1>4. UNCHANGED stored \/ Crash \/ \E q \in Payload : SendOk(q) \/ SendFail(q)
  BY DEF Next, vars, outcome, Receive, Adding, PutSettings, PutEnvironment, PutMap, GetMap,
         ReadWindow, GetQueue, Enqueue, Pushing, PushStart, DropRevision, DropWindow, EndWindows,
         EndScan, PushReturn, ScanRevision, ScanWindow, Timeout, Working, StartJob, Prepare,
         Drain, Tick
<1> QED BY <1>1, <1>2, <1>3, <1>4

\* The map of settings holds what calls of add have put into it.
LEMMA MapSettings ==
  ASSUME TypeInv, [Next]_vars, NEW e \in Environment
  PROVE  \/ environmentIngestSettings'[e] = environmentIngestSettings[e]
         \/ environmentIngestSettings'[e] = None
         \/ \E p \in Payload : environmentIngestSettings'[e] = add[p].settings
<1>1. ASSUME NEW p \in Payload, PutSettings(p)
      PROVE  \/ environmentIngestSettings'[e] = environmentIngestSettings[e]
             \/ environmentIngestSettings'[e] = None
             \/ environmentIngestSettings'[e] = add[p].settings
  BY <1>1, SettingsInsert
<1>2. CASE Crash
  BY <1>2 DEF Crash
<1>3. \/ UNCHANGED environmentIngestSettings \/ Crash
      \/ \E p \in Payload : PutSettings(p)
  BY DEF Next, vars, buffer, Receive, Adding, PutEnvironment, PutMap, GetMap,
         ReadWindow, GetQueue, Enqueue, Pushing, PushStart, DropRevision, DropWindow, EndWindows,
         EndScan, PushReturn, ScanRevision, ScanWindow, Timeout, Working, StartJob, Prepare,
         Drain, SendOk, SendFail, Tick
<1> QED BY <1>1, <1>2, <1>3

LEMMA BroughtStep ==
  ASSUME TypeInv, RouteInv, BroughtInv, [Next]_vars
  PROVE  BroughtInv'
<1>1. \A s : Brought(s) => Brought(s)'
  BY StableSteps DEF Stable, Known, Brought
<1>2. \A p \in Payload : Brought(add[p].settings)
  BY DEF Brought
<1>3. \A e \in Environment : Brought(environmentIngestSettings'[e])
  BY <1>2, MapSettings DEF BroughtInv, Brought
<1>4. \A q \in Payload : Brought(job'[q].settings)
  BY JobSettings DEF BroughtInv, Brought
<1>5. ASSUME NEW p \in Payload, stored'[p] # <<>> PROVE Brought(Head(stored'[p]))
  <2>1. stored[p] \in Seq(Settings)
    BY DEF TypeInv, TypeOK
  <2>2. CASE stored'[p] = stored[p]
    BY <1>5, <2>2 DEF BroughtInv
  <2>3. ASSUME NEW q \in Payload, job[q].settings \in Settings,
               stored'[p] = Append(stored[p], job[q].settings)
        PROVE  Brought(Head(stored'[p]))
    <3>1. Brought(job[q].settings)
      BY DEF BroughtInv
    <3>2. CASE stored[p] = <<>>
      BY <2>3, <3>1, <3>2
    <3>3. CASE stored[p] # <<>>
      <4>1. Head(stored'[p]) = Head(stored[p])
        BY <2>1, <2>3, <3>3
      <4> QED BY <3>3, <4>1 DEF BroughtInv
    <3> QED BY <3>2, <3>3
  <2> QED BY <2>2, <2>3, StoredSettings
<1> QED BY <1>1, <1>3, <1>4, <1>5 DEF BroughtInv

\* A payload is stored under settings that a call of add has brought, and by an
\* environment that a call has named with the payload's own revision, whatever maps
\* push unlinks and whatever threads still hold of them.
THEOREM RoutedCorrect == Spec => []RoutedWithinRevision
<1>1. Init => BroughtInv
  BY DEF Init, BroughtInv, Brought, NoJob
<1>2. TypeInv /\ RouteInv /\ BroughtInv /\ [Next]_vars => BroughtInv'
  BY BroughtStep
<1>3. TypeInv /\ RouteInv /\ BroughtInv => RoutedWithinRevision
  <2> SUFFICES ASSUME TypeInv, RouteInv, BroughtInv, NEW p \in Payload, stored[p] # <<>>
               PROVE  /\ \E o \in Payload : add[o].settings = Head(stored[p])
                      /\ \E o \in Payload :
                             /\ add[o].settings # None
                             /\ RevOf[add[o].settings] = RevOf[add[p].settings]
                             /\ EnvOf[add[o].settings] = EnvOf[Head(stored[p])]
    BY DEF RoutedWithinRevision
  <2>1. Head(stored[p]) # None
    <3>1. stored[p] \in Seq(Settings)
      BY DEF TypeInv, TypeOK
    <3>2. Head(stored[p]) \in Settings
      BY <3>1
    <3> QED BY <3>2, NoneAssumption
  <2>2. \E o \in Payload : add[o].settings = Head(stored[p])
    BY <2>1 DEF BroughtInv, Brought
  <2>3. Served(RevisionOf(p), EnvOf[Head(stored[p])])
    BY DEF RouteInv, StoredInv
  <2> QED BY <2>2, <2>3 DEF Served, Known, RevisionOf
<1>4. QED
  BY <1>1, <1>2, <1>3, TypeCorrect, RouteCorrect, PTL DEF Spec

-----------------------------------------------------------------------------
(* Nothing is forgotten.                                                   *)

\* An accepted payload waits in a queue, linked or not, or a worker has it, or it was
\* settled; no job that has ended, or is yet to start, has a batch.
SomePlace ==
    \A p \in Payload : Accepted(p) =>
        \/ \E q \in Payload : p \in queue[q]
        \/ \E q \in Payload : p \in job[q].batch
        \/ Settled(p)
NoBatch ==
    \A q \in Payload :
        /\ job[q].pc \notin {"drain", "send"} => job[q].batch = {}
        /\ push.pc # "await" => job[q].pc \in {"none", "listed"}
SomeInv == SomePlace /\ NoBatch

\* As long as threads keep out of each other's way, the one call of add in progress
\* has read what is still so, a map or a queue about to be unlinked is empty, and a
\* queue that is not empty is linked.
OneCall ==
    \A p \in Payload : InAdd(p) =>
        /\ push.pc \in {"idle", "await"}
        /\ \A q \in Payload : InAdd(q) => p = q
HasRead(c) ==
    LET r == RevOf[c.settings]
    IN  /\ c.pc \in {"getMap", "window", "getQueue", "enqueue"} => revisionData[r] # None
        /\ c.pc \in {"window", "getQueue", "enqueue"} => c.map = revisionData[r]
        /\ c.pc \in {"getQueue", "enqueue"} => c.window = window
        /\ c.pc = "enqueue" => c.queue = timeWindowMap[c.map][c.window]
Unlinks ==
    LET m == revisionData[push.revision]
    IN  /\ push.pc = "dropRevision" => \A w \in Window : timeWindowMap[m][w] = None
        /\ push.pc = "dropWindow" => queue[timeWindowMap[m][push.slot]] = {}
AllLinked == \A q \in Payload : queue[q] # {} => LinkedQueue(q)
CalmInv == calm => /\ OneCall /\ Unlinks /\ AllLinked
                   /\ \A p \in Payload : HasRead(add[p])

LEMMA InitSome == Init => SomeInv /\ CalmInv
<1> SUFFICES ASSUME Init PROVE SomeInv /\ CalmInv
  OBVIOUS
<1>1. \A p \in Payload : add[p].pc = "new"
  BY DEF Init, NoCall
<1>2. SomeInv
  BY <1>1 DEF Init, SomeInv, SomePlace, NoBatch, Accepted, NoJob
<1>3. CalmInv
  BY <1>1 DEF Init, CalmInv, OneCall, Unlinks, AllLinked, HasRead, InAdd, NoPush
<1> QED BY <1>2, <1>3

\* A step that moves no payload and changes no job.
LEMMA SomeQuiet ==
  ASSUME SomePlace, UNCHANGED <<queue, stored, dropped, lost>>,
         \A q \in Payload : job'[q].batch = job[q].batch,
         \A p \in Payload : Accepted(p)' => Accepted(p)
  PROVE  SomePlace'
BY DEF SomePlace, Settled

LEMMA SomeStep == TypeInv /\ SomeInv /\ [Next]_vars => SomeInv'
<1> SUFFICES ASSUME TypeInv, SomeInv, [Next]_vars PROVE SomeInv'
  OBVIOUS
<1>0. /\ add \in [Payload -> AddCall] /\ job \in [Payload -> JobState]
      /\ queue \in [Payload -> SUBSET Payload] /\ stored \in [Payload -> Seq(Settings)]
      /\ push \in PushState
  BY DEF TypeInv, TypeOK
<1>1. CASE UNCHANGED vars
  BY <1>1 DEF vars, buffer, outcome, SomeInv, SomePlace, NoBatch, Accepted, Settled
<1>2. CASE Tick \/ Timeout \/ \E p \in Payload, s \in Settings : Receive(p, s)
  <2>1. UNCHANGED <<queue, stored, dropped, lost, job, push>>
    BY <1>2 DEF Tick, Timeout, Receive, buffer, outcome
  <2>2. \A p \in Payload : Accepted(p)' => Accepted(p)
    BY <1>2, QuietSteps DEF Quiet
  <2>3. SomePlace'
    BY <2>1, <2>2, SomeQuiet DEF SomeInv
  <2> QED BY <2>1, <2>3 DEF SomeInv, NoBatch
<1>3. ASSUME NEW p \in Payload, Adding(p), ~Enqueue(p) PROVE SomeInv'
  <2>1. UNCHANGED <<queue, stored, dropped, lost, job, push>>
    BY <1>3 DEF Adding, PutSettings, PutEnvironment, PutMap, GetMap, ReadWindow, GetQueue,
                buffer, outcome
  <2>2. Quiet
    BY <1>3, QuietSteps DEF Adding
  <2>3. SomePlace'
    BY <2>1, <2>2, SomeQuiet DEF SomeInv, Quiet
  <2> QED BY <2>1, <2>3 DEF SomeInv, NoBatch
<1>4. ASSUME NEW p \in Payload, Enqueue(p) PROVE SomeInv'
  <2> DEFINE target == IF add[p].queue = None THEN p ELSE add[p].queue
  <2>1. /\ queue' = [queue EXCEPT ![target] = @ \cup {p}]
        /\ UNCHANGED <<stored, dropped, lost, job, push>>
        /\ add' = [add EXCEPT ![p].pc = "accepted"]
    BY <1>4 DEF Enqueue, Goto, outcome
  <2>2. target \in Payload
    BY <1>0 DEF AddCall
  <2> HIDE DEF target
  <2>3. \A o \in Payload \ {p} : Accepted(o)' => Accepted(o)
    BY <1>0, <2>1 DEF Accepted
  <2>4. p \in queue'[target] /\ \A q \in Payload : queue[q] \subseteq queue'[q]
    BY <1>0, <2>1, <2>2
  <2>5. SomePlace'
    BY <2>1, <2>2, <2>3, <2>4 DEF SomeInv, SomePlace, Settled
  <2> QED BY <2>1, <2>5 DEF SomeInv, NoBatch
<1>5. CASE Pushing
  <2>1. UNCHANGED <<queue, stored, dropped, lost, add>>
    BY <1>5 DEF Pushing, PushStart, DropRevision, DropWindow, EndWindows, EndScan,
                PushReturn, ScanRevision, ScanWindow, buffer, outcome
  <2>2. CASE PushReturn
    <3>1. \A q \in Payload : job'[q].batch = {} /\ job'[q].pc = "none"
      BY <2>2 DEF PushReturn, NoJob
    <3>2. \A q \in Payload : job[q].batch = {}
      BY <2>2 DEF PushReturn, Unfinished, SomeInv, NoBatch
    <3>3. SomePlace'
      BY <2>1, <3>1, <3>2, SomeQuiet DEF SomeInv, Accepted
    <3> QED BY <3>1, <3>3 DEF SomeInv, NoBatch
  <2>3. ASSUME NEW w \in Window, ScanWindow(w) PROVE SomeInv'
    <3>1. push.pc = "windows" /\ push'.pc # "await"
      BY <1>0, <2>3 DEF ScanWindow, PushState
    <3>2. \A q \in Payload : job[q].pc \in {"none", "listed"} /\ job[q].batch = {}
      BY <3>1 DEF SomeInv, NoBatch
    <3>3. \A q \in Payload : job'[q].pc \in {"none", "listed"} /\ job'[q].batch = {}
      <4>1. CASE job' = job
        BY <3>2, <4>1
      <4>2. CASE job' # job
        <5>1. PICK s \in SettingsFor(push.revision) :
                  job' = [job EXCEPT ![timeWindowMap[revisionData[push.revision]][w]] =
                             [pc |-> "listed", settings |-> s, batch |-> {}]]
          BY <2>3, <4>2 DEF ScanWindow
        <5> QED BY <1>0, <3>2, <5>1
      <4> QED BY <4>1, <4>2
    <3>4. SomePlace'
      BY <2>1, <3>2, <3>3, SomeQuiet DEF SomeInv, Accepted
    <3> QED BY <3>1, <3>3, <3>4 DEF SomeInv, NoBatch
  <2>4. CASE UNCHANGED job /\ ~PushReturn
    <3>1. SomePlace'
      BY <2>1, <2>4, SomeQuiet DEF SomeInv, Accepted
    <3>2. push.pc # "await"
      BY <1>5, <2>4 DEF Pushing, PushStart, DropRevision, DropWindow, EndWindows, EndScan,
                        ScanRevision, ScanWindow
    <3> QED BY <2>4, <3>1, <3>2 DEF SomeInv, NoBatch
  <2> QED BY <1>5, <2>2, <2>3, <2>4 DEF Pushing, PushStart, DropRevision, DropWindow,
                                        EndWindows, EndScan, ScanRevision
<1>6. ASSUME NEW q \in Payload, StartJob(q) \/ Prepare(q) PROVE SomeInv'
  <2>1. UNCHANGED <<queue, stored, dropped, lost, add, push>>
    BY <1>6 DEF StartJob, Prepare, buffer, outcome
  <2>2. \E pc \in JobPc : job' = [job EXCEPT ![q].pc = pc]
    BY <1>6 DEF StartJob, Prepare, JobPc
  <2>3. \A o \in Payload : job'[o].batch = job[o].batch /\ (o # q => job'[o] = job[o])
    BY <1>0, <2>2 DEF JobState
  <2>4. job[q].batch = {} /\ push.pc = "await"
    BY <1>6 DEF StartJob, Prepare, SomeInv, NoBatch
  <2>5. SomePlace'
    BY <2>1, <2>3, SomeQuiet DEF SomeInv, Accepted
  <2> QED BY <2>1, <2>3, <2>4, <2>5 DEF SomeInv, NoBatch
<1>7. ASSUME NEW q \in Payload, Drain(q) PROVE SomeInv'
  <2>1. /\ queue' = [queue EXCEPT ![q] = {}] /\ UNCHANGED <<stored, add, push>>
        /\ job[q].pc = "drain" /\ push.pc = "await"
    BY <1>7 DEF Drain, Poll, SomeInv, NoBatch
  <2>2. \A o \in Payload \ {q} : queue'[o] = queue[o] /\ job'[o] = job[o]
    BY <1>0, <1>7, <2>1 DEF Drain
  <2>3. /\ \A p \in queue[q] : p \in job'[q].batch \/ p \in dropped'
        /\ UNCHANGED lost
    BY <1>0, <1>7 DEF Drain, JobState
  <2>4. dropped \subseteq dropped' /\ job[q].batch \subseteq job'[q].batch
    BY <1>0, <1>7 DEF Drain, JobState
  <2>5. job'[q].pc \notin {"drain", "send"} => job'[q].batch = {}
    BY <1>0, <1>7 DEF Drain, JobState
  <2>6. SomePlace'
    BY <2>1, <2>2, <2>3, <2>4 DEF SomeInv, SomePlace, Settled, Accepted
  <2>7. NoBatch'
    BY <2>1, <2>2, <2>5 DEF SomeInv, NoBatch
  <2> QED BY <2>6, <2>7 DEF SomeInv
<1>8. ASSUME NEW q \in Payload, SendOk(q) \/ SendFail(q) PROVE SomeInv'
  <2>1. UNCHANGED <<queue, add, push>> /\ job[q].pc = "send" /\ push.pc = "await"
    BY <1>8 DEF SendOk, SendFail, buffer, SomeInv, NoBatch
  <2>2. PICK kept \in SUBSET job[q].batch :
            /\ Write(kept, job[q].settings) /\ UNCHANGED lost
            /\ dropped' = dropped \cup (job[q].batch \ kept)
    <3>1. CASE SendOk(q)
      BY <3>1 DEF SendOk
    <3>2. CASE SendFail(q)
      BY <3>2 DEF SendFail
    <3> QED BY <1>8, <3>1, <3>2
  <2>3. \E pc \in JobPc : job' = [job EXCEPT ![q].batch = {}, ![q].pc = pc]
    BY <1>8 DEF SendOk, SendFail, JobPc
  <2>4. job'[q].batch = {} /\ \A o \in Payload \ {q} : job'[o] = job[o]
    BY <1>0, <2>3 DEF JobState
  <2>5. \A p \in Payload : /\ stored[p] # <<>> => stored'[p] # <<>>
                           /\ p \in kept => stored'[p] # <<>>
    <3>1. job[q].settings \in Settings
      BY <1>0, <2>1 DEF TypeInv, Refs, JobRefs, JobState
    <3>2. \A p \in Payload : stored'[p] \in {stored[p], Append(stored[p], job[q].settings)}
          /\ (p \in kept => stored'[p] = Append(stored[p], job[q].settings))
      BY <2>2 DEF Write
    <3>3. ASSUME NEW p \in Payload PROVE Append(stored[p], job[q].settings) # <<>>
      <4>1. stored[p] \in Seq(Settings)
        BY <1>0
      <4> DEFINE new == Append(stored[p], job[q].settings)
      <4>2. Len(new) = Len(stored[p]) + 1 /\ Len(stored[p]) \in Nat
        BY <3>1, <4>1
      <4>3. Len(<<>>) = 0
        OBVIOUS
      <4> HIDE DEF new
      <4>4. new # <<>>
        BY <4>2, <4>3
      <4> QED BY <4>4 DEF new
    <3> QED BY <3>2, <3>3
  <2>6. SomePlace'
    BY <2>1, <2>2, <2>4, <2>5 DEF SomeInv, SomePlace, Settled, Accepted
  <2>7. NoBatch'
    BY <2>1, <2>4 DEF SomeInv, NoBatch
  <2> QED BY <2>6, <2>7 DEF SomeInv
<1>9. CASE Crash
  <2>1. \A p \in Payload : Accepted(p)' => add[p].pc = "accepted"
    BY <1>0, <1>9 DEF Crash, Accepted, NoCall
  <2>2. /\ UNCHANGED dropped
        /\ \A p \in Payload : add[p].pc = "accepted" /\ p \notin dropped /\ stored'[p] = <<>>
                                => p \in lost'
    BY <1>9 DEF Crash
  <2>3. \A p \in Payload : Accepted(p)' => Settled(p)'
    BY <2>1, <2>2 DEF Settled
  <2>4. NoBatch'
    BY <1>9 DEF Crash, NoBatch, NoJob
  <2> QED BY <2>3, <2>4 DEF SomeInv, SomePlace
<1> QED BY <1>1, <1>2, <1>3, <1>4, <1>5, <1>6, <1>7, <1>8, <1>9 DEF Next, Working

\* A call of add that alone is in progress finds what it read before unchanged; the
\* payload it hands over goes into a queue that is linked, or that it links now.
LEMMA AddCalm ==
  ASSUME TypeInv, CalmInv, calm, NEW p \in Payload, Adding(p)
  PROVE  /\ OneCall' /\ Unlinks' /\ AllLinked'
         /\ \A o \in Payload : HasRead(add[o])'
<1>0. /\ add \in [Payload -> AddCall]
      /\ queue \in [Payload -> SUBSET Payload]
      /\ revisionData \in [Revision -> Payload \cup {None}]
      /\ timeWindowMap \in [Payload -> [Window -> Payload \cup {None}]]
      /\ window \in Window
  BY DEF TypeInv, TypeOK
<1>1. InAdd(p) /\ add[p].settings \in Settings /\ RevOf[add[p].settings] \in Revision
  <2>1. InAdd(p) /\ add[p].pc \notin {"new", "failed"}
    BY DEF Adding, PutSettings, PutEnvironment, PutMap, GetMap, ReadWindow, GetQueue, Enqueue,
           InAdd
  <2> QED BY <1>0, <2>1, ConfigAssumption DEF TypeInv, Refs, AddRefs, AddCall
<1>2. push.pc \in {"idle", "await"} /\ \A o \in Payload : InAdd(o) => o = p
  BY <1>1 DEF CalmInv, OneCall
<1>3. UNCHANGED <<push, window>>
  BY DEF Adding, PutSettings, PutEnvironment, PutMap, GetMap, ReadWindow, GetQueue, Enqueue,
         buffer
<1>4. add'[p].settings = add[p].settings /\ \A o \in Payload \ {p} : add'[o] = add[o]
  <2>1. CASE PutSettings(p) \/ PutEnvironment(p) \/ PutMap(p) \/ Enqueue(p)
    <3>1. \E pc \in AddPc : add' = [add EXCEPT ![p].pc = pc]
      BY <2>1 DEF PutSettings, PutEnvironment, PutMap, Enqueue, Goto, AddPc
    <3> QED BY <1>0, <3>1 DEF AddCall
  <2>2. CASE GetMap(p) \/ ReadWindow(p)
    BY <1>0, <2>2 DEF GetMap, ReadWindow, AddCall
  <2>3. CASE GetQueue(p)
    BY <1>0, <2>3 DEF GetQueue, Goto, AddCall
  <2> QED BY <2>1, <2>2, <2>3 DEF Adding
<1>5. OneCall'
  BY <1>2, <1>3, <1>4 DEF OneCall, InAdd
<1>6. Unlinks'
  BY <1>2, <1>3 DEF Unlinks
<1>7. \A o \in Payload \ {p} : HasRead(add[o])'
  BY <1>2, <1>4 DEF HasRead, InAdd
<1>8. HasRead(add[p])
  BY DEF CalmInv
<1>9. CASE PutSettings(p) \/ PutEnvironment(p)
  <2>1. UNCHANGED <<revisionData, timeWindowMap, queue>>
    BY <1>9 DEF PutSettings, PutEnvironment
  <2>2. add'[p].pc \in {"environment", "putMap"}
    BY <1>0, <1>9, ZenonT(30) DEF PutSettings, PutEnvironment, Goto, AddCall
  <2>3. AllLinked'
    BY <2>1 DEF CalmInv, AllLinked, LinkedQueue, LinkedMap
  <2>4. HasRead(add[p])'
    BY <2>2 DEF HasRead
  <2> QED BY <1>5, <1>6, <1>7, <2>3, <2>4
<1>10. CASE PutMap(p)
  <2> DEFINE r == RevOf[add[p].settings]
  <2>1. UNCHANGED <<timeWindowMap, queue>>
        /\ revisionData' = [revisionData EXCEPT ![r] = IF @ = None THEN p ELSE @]
    BY <1>10 DEF PutMap
  <2>2. add'[p].pc = "getMap"
    BY <1>0, <1>10 DEF PutMap, Goto, AddCall
  <2>3. r \in Revision
    BY <1>1
  <2> HIDE DEF r
  <2>4. revisionData'[r] # None
        /\ \A o \in Revision : revisionData[o] # None => revisionData'[o] = revisionData[o]
    BY <1>0, <2>1, <2>3, NoneAssumption
  <2>5. \A m \in Payload : LinkedMap(m) => LinkedMap(m)'
    BY <2>4, NoneAssumption DEF LinkedMap
  <2>6. AllLinked'
    BY <2>1, <2>5 DEF CalmInv, AllLinked, LinkedQueue
  <2>7. HasRead(add[p])'
    BY <1>4, <2>2, <2>4 DEF HasRead, r
  <2> QED BY <1>5, <1>6, <1>7, <2>6, <2>7
<1>11. CASE GetMap(p) \/ ReadWindow(p) \/ GetQueue(p)
  <2>1. UNCHANGED <<revisionData, timeWindowMap, queue>>
    BY <1>11 DEF GetMap, ReadWindow, GetQueue, buffer
  <2>2. AllLinked'
    BY <2>1 DEF CalmInv, AllLinked, LinkedQueue, LinkedMap
  <2>3. HasRead(add[p])'
    <3>1. CASE GetMap(p)
      <4>1. add'[p].pc = "window" /\ add'[p].map = revisionData[RevOf[add[p].settings]]
            /\ add[p].pc = "getMap"
        BY <1>0, <3>1 DEF GetMap, AddCall
      <4> QED BY <1>4, <1>8, <2>1, <4>1 DEF HasRead
    <3>2. CASE ReadWindow(p)
      <4>1. add'[p].pc = "getQueue" /\ add'[p].map = add[p].map /\ add'[p].window = window
            /\ add[p].pc = "window"
        BY <1>0, <3>2 DEF ReadWindow, CurrentWindow, AddCall
      <4> QED BY <1>3, <1>4, <1>8, <2>1, <4>1 DEF HasRead
    <3>3. CASE GetQueue(p) /\ add[p].map = None
      <4>1. add'[p].pc = "failed"
        BY <1>0, <3>3 DEF GetQueue, Goto, AddCall
      <4> QED BY <4>1 DEF HasRead
    <3>4. CASE GetQueue(p) /\ add[p].map # None
      <4>1. /\ add'[p].pc = "enqueue" /\ add'[p].map = add[p].map
            /\ add'[p].window = add[p].window /\ add[p].pc = "getQueue"
            /\ add'[p].queue = timeWindowMap[add[p].map][add[p].window]
        BY <1>0, <3>4 DEF GetQueue, AddCall
      <4> QED BY <1>3, <1>4, <1>8, <2>1, <4>1 DEF HasRead
    <3> QED BY <1>11, <3>1, <3>2, <3>3, <3>4
  <2> QED BY <1>5, <1>6, <1>7, <2>2, <2>3
<1>12. CASE Enqueue(p)
  <2>1. PICK m \in Payload \cup {None}, w \in Window, slot \in Payload \cup {None} :
            m = add[p].map /\ w = add[p].window /\ slot = add[p].queue
    <3>1. add[p] \in AddCall
      BY <1>0
    <3> QED BY <3>1 DEF AddCall
  <2>2. PICK r \in Revision : r = RevOf[add[p].settings]
    BY <1>1
  <2> DEFINE q == IF slot = None THEN p ELSE slot
  <2>3. /\ add[p].pc = "enqueue" /\ UNCHANGED revisionData
        /\ queue' = [queue EXCEPT ![q] = @ \cup {p}]
        /\ timeWindowMap' = IF slot = None
                            THEN [timeWindowMap EXCEPT ![m][w] = p] ELSE timeWindowMap
    BY <1>12, <2>1 DEF Enqueue
  <2>4. revisionData[r] = m /\ m \in Payload /\ timeWindowMap[m][w] = slot
    BY <1>8, <2>1, <2>2, <2>3 DEF HasRead
  <2>5. q \in Payload
    OBVIOUS
  <2>6. HasRead(add[p])'
    <3>1. add'[p].pc = "accepted"
      BY <1>0, <1>12 DEF Enqueue, Goto, AddCall
    <3> QED BY <3>1 DEF HasRead
  <2>7. timeWindowMap'[m][w] = q
    BY <1>0, <2>3, <2>4
  <2>8. \A o \in Payload, v \in Window :
            timeWindowMap[o][v] # None => timeWindowMap'[o][v] = timeWindowMap[o][v]
    BY <1>0, <2>3, <2>4
  <2> HIDE DEF q
  <2>9. \A o \in Payload : LinkedMap(o)' = LinkedMap(o)
    BY <2>3 DEF LinkedMap
  <2>10. \A o \in Payload : LinkedQueue(o) => LinkedQueue(o)'
    <3> SUFFICES ASSUME NEW o \in Payload, LinkedQueue(o) PROVE LinkedQueue(o)'
      OBVIOUS
    <3>1. PICK n \in Payload, v \in Window : LinkedMap(n) /\ timeWindowMap[n][v] = o
      BY DEF LinkedQueue
    <3>2. LinkedMap(n)' /\ timeWindowMap'[n][v] = o
      BY <2>8, <2>9, <3>1, NoneAssumption
    <3> QED BY <3>2 DEF LinkedQueue
  <2>11. LinkedQueue(q)'
    <3>1. LinkedMap(m)'
      BY <2>3, <2>4 DEF LinkedMap
    <3> QED BY <2>4, <2>7, <3>1 DEF LinkedQueue
  <2>12. \A o \in Payload \ {q} : queue'[o] = queue[o]
    BY <1>0, <2>3, <2>5
  <2>13. AllLinked'
    BY <2>5, <2>10, <2>11, <2>12 DEF CalmInv, AllLinked
  <2> QED BY <1>5, <1>6, <1>7, <2>6, <2>13
<1> QED BY <1>9, <1>10, <1>11, <1>12 DEF Adding

\* Push with no call of add in progress: a map it discards links nothing, a window it
\* discards has an empty queue.
LEMMA PushCalm ==
  ASSUME TypeInv, CalmInv, calm, Pushing, \A p \in Payload : ~InAdd(p)
  PROVE  /\ OneCall' /\ Unlinks' /\ AllLinked'
         /\ \A o \in Payload : HasRead(add[o])'
<1>0. /\ push \in PushState
      /\ revisionData \in [Revision -> Payload \cup {None}]
      /\ timeWindowMap \in [Payload -> [Window -> Payload \cup {None}]]
  BY DEF TypeInv, TypeOK
<1>1. UNCHANGED <<queue, add>>
  BY DEF Pushing, PushStart, DropRevision, DropWindow, EndWindows, EndScan, PushReturn,
         ScanRevision, ScanWindow, buffer
<1>2. OneCall' /\ \A o \in Payload : HasRead(add[o])'
  BY <1>1 DEF OneCall, HasRead, InAdd
<1>3. AllLinked
  BY DEF CalmInv
<1> DEFINE m == revisionData[push.revision]
<1>4. push.pc \in {"dropRevision", "windows", "dropWindow"} =>
          push.revision \in Revision /\ m \in Payload
  BY <1>0 DEF TypeInv, Refs, ScanRefs, PushState
<1>5. CASE DropRevision
  <2>1. /\ push.pc = "dropRevision" /\ push'.pc = "scan" /\ UNCHANGED timeWindowMap
        /\ revisionData' = [revisionData EXCEPT ![push.revision] = None]
    BY <1>0, <1>5 DEF DropRevision, PushState
  <2>2. Unlinks'
    BY <2>1 DEF Unlinks
  <2>3. \A w \in Window : timeWindowMap[m][w] = None
    BY <2>1 DEF CalmInv, Unlinks
  <2>4. \A o \in Payload \ {m} : LinkedMap(o) => LinkedMap(o)'
    BY <1>0, <1>4, <2>1 DEF LinkedMap
  <2> HIDE DEF m
  <2>5. \A q \in Payload : LinkedQueue(q) => LinkedQueue(q)'
    <3> SUFFICES ASSUME NEW q \in Payload, LinkedQueue(q) PROVE LinkedQueue(q)'
      OBVIOUS
    <3>1. PICK n \in Payload, v \in Window : LinkedMap(n) /\ timeWindowMap[n][v] = q
      BY DEF LinkedQueue
    <3>2. n # m
      BY <2>3, <3>1, NoneAssumption
    <3> QED BY <2>1, <2>4, <3>1, <3>2 DEF LinkedQueue
  <2>6. AllLinked'
    BY <1>1, <1>3, <2>5 DEF AllLinked
  <2> QED BY <1>2, <2>2, <2>6
<1>6. CASE DropWindow
  <2> DEFINE w == push.slot
  <2>1. /\ push.pc = "dropWindow" /\ push'.pc = "windows" /\ UNCHANGED revisionData
        /\ timeWindowMap' = [timeWindowMap EXCEPT ![m][w] = None]
    BY <1>0, <1>6 DEF DropWindow, PushState
  <2>2. Unlinks'
    BY <2>1 DEF Unlinks
  <2>3. queue[timeWindowMap[m][w]] = {}
    BY <2>1 DEF CalmInv, Unlinks
  <2>4. m \in Payload /\ w \in Window
    BY <1>0, <1>4, <2>1 DEF PushState
  <2> HIDE DEF m, w
  <2>5. \A n \in Payload, v \in Window :
            timeWindowMap'[n][v] = IF n = m /\ v = w THEN None ELSE timeWindowMap[n][v]
    BY <1>0, <2>1, <2>4
  <2>6. \A q \in Payload : LinkedQueue(q) /\ queue[q] # {} => LinkedQueue(q)'
    <3> SUFFICES ASSUME NEW q \in Payload, LinkedQueue(q), queue[q] # {} PROVE LinkedQueue(q)'
      OBVIOUS
    <3>1. PICK n \in Payload, v \in Window : LinkedMap(n) /\ timeWindowMap[n][v] = q
      BY DEF LinkedQueue
    <3>2. timeWindowMap'[n][v] = q
      BY <2>3, <2>5, <3>1
    <3>3. LinkedMap(n)'
      BY <2>1, <3>1 DEF LinkedMap
    <3> QED BY <3>2, <3>3 DEF LinkedQueue
  <2>7. AllLinked'
    BY <1>1, <1>3, <2>6 DEF AllLinked
  <2> QED BY <1>2, <2>2, <2>7
<1>7. CASE ~DropRevision /\ ~DropWindow
  <2>1. UNCHANGED <<revisionData, timeWindowMap>>
    BY <1>7 DEF Pushing, PushStart, EndWindows, EndScan, PushReturn, ScanRevision, ScanWindow,
                buffer
  <2>2. AllLinked'
    BY <1>1, <1>3, <2>1 DEF AllLinked, LinkedQueue, LinkedMap
  <2>3. Unlinks'
    <3>1. ASSUME NEW r \in Revision, ScanRevision(r) PROVE Unlinks'
      <4>1. /\ push'.pc \in {"dropRevision", "windows"} /\ push'.revision = r
            /\ push'.pc = "dropRevision" =>
                   \A w \in Window : timeWindowMap[revisionData[r]][w] = None
        BY <1>0, <3>1 DEF ScanRevision, PushState
      <4> QED BY <2>1, <4>1 DEF Unlinks
    <3>2. ASSUME NEW w \in Window, ScanWindow(w) PROVE Unlinks'
      <4>1. push.pc = "windows" /\ push'.revision = push.revision
        BY <1>0, <3>2 DEF ScanWindow, PushState
      <4>2. push'.pc = "windows" \/ (/\ push'.pc = "dropWindow" /\ push'.slot = w
                                     /\ queue[timeWindowMap[m][w]] = {})
        BY <1>0, <3>2 DEF ScanWindow, PushState
      <4> QED BY <1>1, <2>1, <4>1, <4>2 DEF Unlinks
    <3>3. CASE PushStart \/ EndWindows \/ EndScan \/ PushReturn
      <4>1. push'.pc \in {"scan", "await", "idle"}
        <5>1. CASE PushStart
          BY <5>1 DEF PushStart, NoPush
        <5>2. CASE EndWindows \/ EndScan
          BY <1>0, <5>2 DEF EndWindows, EndScan, PushState
        <5>3. CASE PushReturn
          BY <5>3 DEF PushReturn, NoPush
        <5> QED BY <3>3, <5>1, <5>2, <5>3
      <4> QED BY <4>1 DEF Unlinks
    <3> QED BY <1>7, <3>1, <3>2, <3>3 DEF Pushing
  <2> QED BY <1>2, <2>2, <2>3
<1> QED BY <1>5, <1>6, <1>7

LEMMA StepCalm ==
  ASSUME TypeInv, SomeInv, CalmInv, Next, calm' = (calm /\ Undisturbed)
  PROVE  CalmInv'
<1> SUFFICES ASSUME calm, Undisturbed
             PROVE  /\ OneCall' /\ Unlinks' /\ AllLinked'
                    /\ \A o \in Payload : HasRead(add[o])'
  BY DEF CalmInv
<1>0. /\ OneCall /\ Unlinks /\ AllLinked /\ \A o \in Payload : HasRead(add[o])
      /\ add \in [Payload -> AddCall] /\ push \in PushState
      /\ queue \in [Payload -> SUBSET Payload]
  BY DEF CalmInv, TypeInv, TypeOK
<1>1. ASSUME NEW p \in Payload, Adding(p)
      PROVE  OneCall' /\ Unlinks' /\ AllLinked' /\ \A o \in Payload : HasRead(add[o])'
  BY <1>1, AddCalm
<1>2. ASSUME NEW q \in Payload, Working(q)
      PROVE  OneCall' /\ Unlinks' /\ AllLinked' /\ \A o \in Payload : HasRead(add[o])'
  <2>1. UNCHANGED <<window, revisionData, timeWindowMap, add, push>>
    BY <1>2 DEF Working, StartJob, Prepare, Drain, SendOk, SendFail, buffer
  <2>2. \A o \in Payload : queue'[o] \subseteq queue[o]
    <3>1. queue' = queue \/ queue' = [queue EXCEPT ![q] = {}]
      BY <1>2 DEF Working, StartJob, Prepare, Drain, Poll, SendOk, SendFail, buffer
    <3> QED BY <1>0, <3>1
  <2>3. AllLinked'
    <3>1. \A o \in Payload : LinkedQueue(o)' = LinkedQueue(o)
      BY <2>1 DEF LinkedQueue, LinkedMap
    <3> QED BY <1>0, <2>2, <3>1 DEF AllLinked
  <2>4. Unlinks'
    <3>1. push.pc = "await"
      BY <1>2 DEF Working, StartJob, Prepare, Drain, SendOk, SendFail, SomeInv, NoBatch
    <3> QED BY <2>1, <3>1 DEF Unlinks
  <2>5. OneCall' /\ \A o \in Payload : HasRead(add[o])'
    BY <1>0, <2>1 DEF OneCall, InAdd, HasRead
  <2> QED BY <2>3, <2>4, <2>5
<1>3. CASE Crash
  <2>1. /\ queue' = [q \in Payload |-> {}] /\ push' = NoPush
        /\ \A p \in Payload : add'[p].pc \in {"new", "accepted", "failed"}
    BY <1>0, <1>3 DEF Crash, NoCall
  <2>2. \A p \in Payload : HasRead(add[p])'
    BY <2>1 DEF HasRead
  <2>3. OneCall' /\ Unlinks' /\ AllLinked'
    BY <2>1 DEF OneCall, InAdd, Unlinks, AllLinked, NoPush
  <2> QED BY <2>2, <2>3
<1>4. ASSUME \A p \in Payload : ~InAdd(p), NEW p \in Payload, NEW s \in Settings, Receive(p, s)
      PROVE  OneCall' /\ Unlinks' /\ AllLinked' /\ \A o \in Payload : HasRead(add[o])'
  <2>1. UNCHANGED <<window, revisionData, timeWindowMap, queue, push>>
    BY <1>4 DEF Receive, buffer
  <2>2. add'[p].pc = "settings" /\ \A o \in Payload \ {p} : add'[o] = add[o]
    BY <1>0, <1>4 DEF Receive, AddCall
  <2>3. push.pc \in {"idle", "await"}
    BY <1>4 DEF Undisturbed
  <2>4. OneCall'
    BY <1>4, <2>1, <2>2, <2>3 DEF OneCall, InAdd
  <2>5. AllLinked' /\ Unlinks'
    BY <1>0, <2>1 DEF AllLinked, LinkedQueue, LinkedMap, Unlinks
  <2>6. HasRead(add[p])'
    BY <2>2 DEF HasRead
  <2>7. \A o \in Payload \ {p} : HasRead(add[o])'
    BY <1>4, <2>2 DEF HasRead, InAdd
  <2> QED BY <2>4, <2>5, <2>6, <2>7
<1>5. ASSUME \A p \in Payload : ~InAdd(p), Tick \/ Timeout
      PROVE  OneCall' /\ Unlinks' /\ AllLinked' /\ \A o \in Payload : HasRead(add[o])'
  <2>1. UNCHANGED <<revisionData, timeWindowMap, queue, push, add>>
    BY <1>5 DEF Tick, Timeout, buffer
  <2>2. \A o \in Payload : HasRead(add[o])'
    BY <1>5, <2>1 DEF HasRead, InAdd
  <2>3. OneCall' /\ AllLinked' /\ Unlinks'
    BY <1>0, <2>1 DEF OneCall, InAdd, AllLinked, LinkedQueue, LinkedMap, Unlinks
  <2> QED BY <2>2, <2>3
<1>6. CASE \E p \in Payload : InAdd(p)
  BY <1>1, <1>2, <1>3, <1>6 DEF Undisturbed
<1>7. CASE \A p \in Payload : ~InAdd(p)
  <2>1. CASE Pushing
    BY <1>7, <2>1, PushCalm
  <2> QED BY <1>1, <1>2, <1>3, <1>4, <1>5, <1>7, <2>1 DEF Next
<1> QED BY <1>6, <1>7

-----------------------------------------------------------------------------
(* The races of add and push, when threads do overlap.                     *)

\* A payload that waits in a queue waits in a linked one, or a race led it astray.
SeenInv == \A p, q \in Payload : p \in queue[q] => LinkedQueue(q) \/ p \in astray

\* Threads that keep out of each other's way lead nothing astray.
LEMMA CalmLeads == ASSUME TypeInv, CalmInv, calm PROVE LeadsAstray = {}
<1>0. /\ \A p \in Payload : HasRead(add[p])
      /\ Unlinks
      /\ add \in [Payload -> AddCall]
  BY DEF CalmInv, TypeInv, TypeOK
<1>1. ASSUME NEW p \in Payload, Enqueue(p)
      PROVE  /\ ~LateAdd(p)
             /\ add[p].queue = None =>
                    \A o \in Payload : ~Holds(add[p].map, add[p].window, o)
  <2>1. add[p].pc = "enqueue" /\ add[p].settings \in Settings /\ add[p].map \in Payload
    BY <1>0, <1>1 DEF Enqueue, TypeInv, Refs, AddRefs, AddCall
  <2>2. RevOf[add[p].settings] \in Revision
    BY <2>1, ConfigAssumption
  <2>3. add[p].map = revisionData[RevOf[add[p].settings]]
        /\ add[p].queue = timeWindowMap[add[p].map][add[p].window]
    BY <1>0, <2>1 DEF HasRead
  <2>4. LinkedMap(add[p].map)
    BY <2>2, <2>3 DEF LinkedMap
  <2>5. add[p].window \in Window
    BY <1>0 DEF AddCall
  <2>6. add[p].queue # None => LinkedQueue(add[p].queue)
    BY <2>1, <2>3, <2>4, <2>5 DEF LinkedQueue
  <2>7. ~LateAdd(p)
    BY <2>4, <2>6 DEF LateAdd
  <2>8. add[p].queue = None => \A o \in Payload : ~Holds(add[p].map, add[p].window, o)
    BY <2>3, NoneAssumption DEF Holds
  <2> QED BY <2>7, <2>8
<1>2. \A p \in Payload : ~LateAdd(p) /\ ~Replaced(p)
  BY <1>1 DEF LateAdd, Replaced
<1>3. \A p \in Payload : ~LateRemove(p)
  BY <1>0, NoneAssumption DEF LateRemove, Holds, Unlinks, DropWindow, DropRevision
<1> QED BY <1>2, <1>3 DEF LeadsAstray

\* A step that unlinks nothing and fills no queue.
LEMMA SeenQuiet ==
  ASSUME SeenInv, astray \subseteq astray',
         \A q \in Payload : queue'[q] \subseteq queue[q],
         \A q \in Payload : LinkedQueue(q) => LinkedQueue(q)'
  PROVE  SeenInv'
BY DEF SeenInv

\* add puts the payload where push finds it, unless one of the races of add happens.
LEMMA SeenEnqueue ==
  ASSUME TypeInv, SeenInv, NEW p \in Payload, Enqueue(p), astray' = astray \cup LeadsAstray
  PROVE  SeenInv'
<1>0. /\ add \in [Payload -> AddCall]
      /\ queue \in [Payload -> SUBSET Payload]
      /\ timeWindowMap \in [Payload -> [Window -> Payload \cup {None}]]
  BY DEF TypeInv, TypeOK
<1>1. PICK m \in Payload, w \in Window, slot \in Payload \cup {None} :
          m = add[p].map /\ w = add[p].window /\ slot = add[p].queue
  <2>1. add[p] \in AddCall /\ add[p].map # None
    BY <1>0 DEF Enqueue, TypeInv, Refs, AddRefs
  <2> QED BY <2>1 DEF AddCall
<1> DEFINE target == IF slot = None THEN p ELSE slot
<1>2. /\ UNCHANGED revisionData
      /\ queue' = [queue EXCEPT ![target] = @ \cup {p}]
      /\ timeWindowMap' = IF slot = None
                          THEN [timeWindowMap EXCEPT ![m][w] = p] ELSE timeWindowMap
  BY <1>1 DEF Enqueue
<1>3. target \in Payload
  OBVIOUS
<1>4. \A n \in Payload : LinkedMap(n)' = LinkedMap(n)
  BY <1>2 DEF LinkedMap
<1>5. LateAdd(p) => p \in astray'
  BY DEF LeadsAstray
<1>6. LinkedQueue(target)' \/ p \in astray'
  <2>1. CASE slot = None
    <3>1. ~LinkedMap(m) => LateAdd(p)
      BY <1>1, <2>1 DEF LateAdd
    <3>2. timeWindowMap'[m][w] = target
      BY <1>0, <1>2, <2>1
    <3>3. LinkedMap(m) => LinkedQueue(target)'
      BY <1>4, <3>2 DEF LinkedQueue
    <3> QED BY <1>5, <3>1, <3>3
  <2>2. CASE slot # None
    <3>1. ~LinkedQueue(target) => LateAdd(p)
      BY <1>1, <2>2 DEF LateAdd
    <3>2. LinkedQueue(target)' = LinkedQueue(target)
      BY <1>2, <1>4, <2>2 DEF LinkedQueue
    <3> QED BY <1>5, <3>1, <3>2
  <2> QED BY <2>1, <2>2
<1> HIDE DEF target
<1>7. ASSUME NEW o \in Payload, NEW q \in Payload, o \in queue[q], LinkedQueue(q)
      PROVE  LinkedQueue(q)' \/ o \in astray'
  <2>1. PICK n \in Payload, v \in Window : LinkedMap(n) /\ timeWindowMap[n][v] = q
    BY <1>7 DEF LinkedQueue
  <2>2. CASE timeWindowMap'[n][v] = q
    BY <1>4, <2>1, <2>2 DEF LinkedQueue
  <2>3. CASE timeWindowMap'[n][v] # q
    <3>1. slot = None /\ n = m /\ v = w
      BY <1>0, <1>2, <2>1, <2>3
    <3>2. Holds(m, w, o)
      BY <1>7, <2>1, <3>1 DEF Holds
    <3>3. Replaced(o)
      BY <1>1, <3>1, <3>2 DEF Replaced
    <3>4. o \in LeadsAstray
      BY <3>3 DEF LeadsAstray
    <3> QED BY <3>4
  <2> QED BY <2>2, <2>3
<1>8. \A o, q \in Payload : o \in queue'[q] => o \in queue[q] \/ (o = p /\ q = target)
  BY <1>0, <1>2, <1>3
<1>9. astray \subseteq astray'
  OBVIOUS
<1> QED BY <1>6, <1>7, <1>8, <1>9 DEF SeenInv

\* push unlinks what holds nothing, unless a call of add came in between.
LEMMA SeenRemove ==
  ASSUME TypeInv, SeenInv, DropWindow \/ DropRevision, astray' = astray \cup LeadsAstray
  PROVE  SeenInv'
<1> DEFINE m == revisionData[push.revision]
<1>0. /\ push \in PushState
      /\ revisionData \in [Revision -> Payload \cup {None}]
      /\ timeWindowMap \in [Payload -> [Window -> Payload \cup {None}]]
  BY DEF TypeInv, TypeOK
<1>1. push.revision \in Revision /\ m \in Payload
  BY <1>0 DEF DropWindow, DropRevision, TypeInv, Refs, ScanRefs, PushState
<1>2. UNCHANGED queue
  BY DEF DropWindow, DropRevision
<1>3. \A p \in Payload : LateRemove(p) => p \in astray'
  BY DEF LeadsAstray
<1>4. ASSUME NEW p \in Payload, NEW q \in Payload, p \in queue[q], LinkedQueue(q)
      PROVE  LinkedQueue(q)' \/ p \in astray'
  <2>1. PICK n \in Payload, v \in Window : LinkedMap(n) /\ timeWindowMap[n][v] = q
    BY <1>4 DEF LinkedQueue
  <2>2. CASE DropWindow
    <3>1. PICK w \in Window : w = push.slot
      BY <1>0 DEF PushState
    <3>2. /\ UNCHANGED revisionData
          /\ timeWindowMap' = [timeWindowMap EXCEPT ![m][w] = None]
      BY <2>2, <3>1 DEF DropWindow
    <3>3. LinkedMap(n)'
      BY <2>1, <3>2 DEF LinkedMap
    <3>4. CASE n = m /\ v = w
      <4>1. Holds(m, push.slot, p)
        BY <1>4, <2>1, <3>1, <3>4 DEF Holds
      <4>2. LateRemove(p)
        BY <2>2, <4>1 DEF LateRemove
      <4> QED BY <1>3, <4>2
    <3>5. CASE ~(n = m /\ v = w)
      <4>1. timeWindowMap'[n][v] = q
        BY <1>0, <1>1, <2>1, <3>2, <3>5
      <4> QED BY <3>3, <4>1 DEF LinkedQueue
    <3> QED BY <3>4, <3>5
  <2>3. CASE DropRevision
    <3>1. /\ UNCHANGED timeWindowMap
          /\ revisionData' = [revisionData EXCEPT ![push.revision] = None]
      BY <2>3 DEF DropRevision
    <3>2. CASE n = m
      <4>1. Holds(m, v, p)
        BY <1>4, <2>1, <3>2 DEF Holds
      <4>2. LateRemove(p)
        BY <2>3, <4>1 DEF LateRemove
      <4> QED BY <1>3, <4>2
    <3>3. CASE n # m
      <4>1. LinkedMap(n)'
        BY <1>0, <1>1, <2>1, <3>1, <3>3 DEF LinkedMap
      <4> QED BY <2>1, <3>1, <4>1 DEF LinkedQueue
    <3> QED BY <3>2, <3>3
  <2> QED BY <2>2, <2>3
<1> QED BY <1>2, <1>4 DEF SeenInv

LEMMA SeenStep ==
  ASSUME TypeInv, SeenInv, Next, astray' = astray \cup LeadsAstray
  PROVE  SeenInv'
<1>0. /\ queue \in [Payload -> SUBSET Payload]
      /\ revisionData \in [Revision -> Payload \cup {None}]
      /\ add \in [Payload -> AddCall]
  BY DEF TypeInv, TypeOK
<1>1. CASE UNCHANGED <<revisionData, timeWindowMap>> /\ \A q \in Payload : queue'[q] \subseteq queue[q]
  <2>1. \A q \in Payload : LinkedQueue(q)' = LinkedQueue(q)
    BY <1>1 DEF LinkedQueue, LinkedMap
  <2> QED BY <1>1, <2>1, SeenQuiet
<1>2. ASSUME NEW p \in Payload, PutMap(p) PROVE SeenInv'
  <2>1. /\ UNCHANGED <<timeWindowMap, queue>>
        /\ revisionData' = [revisionData EXCEPT ![RevOf[add[p].settings]] =
                               IF @ = None THEN p ELSE @]
    BY <1>2 DEF PutMap
  <2>2. \A o \in Revision : revisionData[o] # None => revisionData'[o] = revisionData[o]
    BY <1>0, <2>1
  <2>3. \A m \in Payload : LinkedMap(m) => LinkedMap(m)'
    BY <2>2, NoneAssumption DEF LinkedMap
  <2>4. \A q \in Payload : LinkedQueue(q) => LinkedQueue(q)'
    BY <2>1, <2>3 DEF LinkedQueue
  <2> QED BY <2>1, <2>4, SeenQuiet
<1>3. ASSUME NEW p \in Payload, Adding(p) PROVE SeenInv'
  <2>1. CASE PutSettings(p) \/ PutEnvironment(p) \/ GetMap(p) \/ ReadWindow(p) \/ GetQueue(p)
    BY <1>1, <2>1 DEF PutSettings, PutEnvironment, GetMap, ReadWindow, GetQueue, buffer
  <2> QED BY <1>2, <1>3, <2>1, SeenEnqueue DEF Adding
<1>4. CASE Pushing
  <2>1. CASE ~DropWindow /\ ~DropRevision
    BY <1>1, <1>4, <2>1 DEF Pushing, PushStart, EndWindows, EndScan, PushReturn, ScanRevision,
                            ScanWindow, buffer
  <2> QED BY <2>1, SeenRemove
<1>5. ASSUME NEW q \in Payload, Working(q) PROVE SeenInv'
  <2>1. UNCHANGED <<revisionData, timeWindowMap>>
    BY <1>5 DEF Working, StartJob, Prepare, Drain, SendOk, SendFail, buffer
  <2>2. queue' = queue \/ queue' = [queue EXCEPT ![q] = {}]
    BY <1>5 DEF Working, StartJob, Prepare, Drain, Poll, SendOk, SendFail, buffer
  <2> QED BY <1>0, <1>1, <2>1, <2>2
<1>6. CASE Crash
  <2>1. \A q \in Payload : queue'[q] = {}
    BY <1>6 DEF Crash
  <2> QED BY <2>1 DEF SeenInv
<1>7. CASE Timeout \/ Tick \/ \E p \in Payload, s \in Settings : Receive(p, s)
  BY <1>1, <1>7 DEF Timeout, Tick, Receive, buffer
<1> QED BY <1>3, <1>4, <1>5, <1>6, <1>7 DEF Next

\* Only a restart loses payloads.
LEMMA LostStep ==
  ASSUME TypeInv, crashes = 0 => lost = {}, [Next]_vars
  PROVE  (crashes = 0 => lost = {})'
<1>1. CASE Crash
  <2>1. crashes \in 0 .. MaxCrash /\ crashes' = crashes + 1
    BY <1>1 DEF Crash, TypeInv, TypeOK
  <2>2. crashes' # 0
    BY <2>1, BoundAssumption
  <2> QED BY <2>2
<1>2. UNCHANGED <<lost, crashes>> \/ Crash
  BY DEF Next, vars, outcome, Receive, Adding, PutSettings, PutEnvironment, PutMap, GetMap,
         ReadWindow, GetQueue, Enqueue, Pushing, PushStart, DropRevision, DropWindow, EndWindows,
         EndScan, PushReturn, ScanRevision, ScanWindow, Timeout, Working, StartJob, Prepare,
         Drain, SendOk, SendFail, Tick
<1> QED BY <1>1, <1>2

\* For any number of events and restarts, and whatever the threads do: an accepted
\* event waits where push will find it, or a worker has it or its queue, or it was
\* stored or given up with an error, or it was lost in a restart or led astray by one
\* of the named races of add and push; these do not happen as long as no call of add
\* overlaps another one, a scan or a new window (Ingestor.add and push).
THEOREM NoneForgottenCorrect == CalmSpec => []NoneForgotten
<1> DEFINE Inv == /\ TypeInv /\ SomeInv /\ CalmInv /\ SeenInv
                  /\ calm => astray = {}
                  /\ crashes = 0 => lost = {}
           Step == /\ Next
                   /\ calm' = (calm /\ Undisturbed)
                   /\ astray' = astray \cup LeadsAstray
<1>1. Init /\ calm = TRUE /\ astray = {} => Inv
  <2> SUFFICES ASSUME Init, calm = TRUE, astray = {} PROVE Inv
    OBVIOUS
  <2>1. SeenInv /\ (crashes = 0 => lost = {})
    BY DEF Init, SeenInv
  <2> QED BY <2>1, InitTypeInv, InitSome
<1>2. Inv /\ [Step]_<<vars, calm, astray>> => Inv'
  <2> SUFFICES ASSUME Inv, [Step]_<<vars, calm, astray>>
               PROVE  Inv'
    OBVIOUS
  <2>1. TypeInv' /\ SomeInv' /\ (crashes = 0 => lost = {})'
    BY StepTypeInv, SomeStep, LostStep
  <2>2. CASE Step
    <3>1. CalmInv' /\ SeenInv'
      BY <2>2, StepCalm, SeenStep
    <3>2. (calm => astray = {})'
      BY <2>2, CalmLeads
    <3> QED BY <2>1, <3>1, <3>2
  <2>3. CASE UNCHANGED <<vars, calm, astray>>
    <3>1. CalmInv'
      BY <2>3 DEF vars, buffer, CalmInv, OneCall, InAdd, HasRead, Unlinks, AllLinked,
                  LinkedQueue, LinkedMap
    <3>2. SeenInv' /\ (calm => astray = {})'
      BY <2>3 DEF vars, buffer, SeenInv, LinkedQueue, LinkedMap
    <3> QED BY <2>1, <3>1, <3>2
  <2> QED BY <2>2, <2>3
<1>3. Inv => NoneForgotten
  BY DEF SomeInv, SomePlace, Settled, SeenInv, NoneForgotten
<1> QED BY <1>1, <1>2, <1>3, PTL DEF CalmSpec

=============================================================================
