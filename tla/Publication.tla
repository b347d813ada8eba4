----------------------------- MODULE Publication -----------------------------
(***************************************************************************)
(* Environments and their deployment: the requests that create, update and *)
(* delete an environment, and add or delete a variable of it, and the       *)
(* configuration files they put into the bucket the edge serves from.  Tag  *)
(* manager environments (kind "tag") and ingest endpoint environments (kind *)
(* "ingest") have the same handlers, with the differences shown.  No        *)
(* transaction and no lock holds a request together: it can be interleaved  *)
(* with others, or fail, at every await.                                    *)
(***************************************************************************)
EXTENDS Naturals, FiniteSets

CONSTANTS
    Env,          \* ids of environments
    Domain,       \* custom domains
    Rev,          \* revisions of the app, or of the ingest endpoint
    Key,          \* names of environment variables
    Request,      \* requests in progress at once
    MaxRequests,  \* bound: the requests of a behaviour
    MaxEdits,     \* bound: the edits of revisions in a behaviour
    MaxFail,      \* bound: the requests that fail at an await
    None

Op == {"create", "update", "variable", "delete"}
File == Env \cup Domain   \* <id>.scale8.com.json and <custom domain>.json

ASSUME PublicationAssumption ==
    /\ MaxRequests \in Nat /\ MaxEdits \in Nat /\ MaxFail \in Nat
    /\ None \notin Env \cup Domain \cup Rev \cup Op

VARIABLES
    kind,      \* which of the two managers: "tag" or "ingest"
    env,       \* the collection: [Env -> a document or None]
    final,     \* [Rev -> is it finalised]
    content,   \* [Rev -> the version of its entities]
    editing,   \* [Rev -> the edits of it that are past their check that it is not final]
    edits,     \* edits begun so far
    provider,  \* ingest: environments whose storage provider file exists
    bucket,    \* [File -> the configuration in it, or None]
    req,       \* [Request -> the handler and its local variables]
    requests,  \* requests begun so far
    failures,  \* failed so far
    sealed,    \* history: [Rev -> its content when it became final]
    late,      \* history: [Rev -> the edits past their check when it became final]
    cuts,      \* history: [Rev -> the entities unlinked after it was final]
    raced      \* history: domains for which two creations were in progress at once

revisions == <<final, content, editing, edits, sealed, late, cuts>>
vars == <<kind, env, revisions, provider, bucket, req, requests, failures, raced>>

Model == [rev : Rev, domain : Domain \cup {None}, vars : SUBSET Key]
Document == [rev : Rev, domain : Domain \cup {None}, vars : SUBSET Key,
             deleted : BOOLEAN]
ASSUME NoneAssumption == None \notin Document
Config == [env : Env, rev : Rev, content : 0 .. MaxEdits, vars : SUBSET Key,
           provider : BOOLEAN]

Pc == {"idle", "revision", "domain", "insert", "provider", "save", "build", "put",
       "buildDomain", "putDomain", "done"}

RequestState ==
    [pc     : Pc,
     op     : Op \cup {None},
     env    : Env \cup {None},
     rev    : Rev \cup {None},      \* the revision asked for
     was    : Model \cup {None},    \* the environment as read
     model  : Model \cup {None},    \* the environment in memory
     config : Config \cup {None},   \* built, to be uploaded
     alone  : BOOLEAN]              \* history: undisturbed since it began

Idle == [pc |-> "idle", op |-> None, env |-> None, rev |-> None,
         was |-> None, model |-> None, config |-> None, alone |-> FALSE]

TypeOK ==
    /\ kind \in {"tag", "ingest"}
    /\ env \in [Env -> Document \cup {None}]
    /\ final \in [Rev -> BOOLEAN]
    /\ content \in [Rev -> 0 .. MaxEdits] /\ editing \in [Rev -> 0 .. MaxEdits]
    /\ sealed \in [Rev -> 0 .. MaxEdits] /\ late \in [Rev -> 0 .. MaxEdits]
    /\ cuts \in [Rev -> 0 .. MaxEdits]
    /\ edits \in 0 .. MaxEdits
    /\ provider \in SUBSET Env
    /\ bucket \in [File -> Config \cup {None}]
    /\ req \in [Request -> RequestState]
    /\ requests \in 0 .. MaxRequests
    /\ failures \in 0 .. MaxFail
    /\ raced \in SUBSET Domain

Init ==
    /\ kind \in {"tag", "ingest"}
    /\ env = [e \in Env |-> None]
    /\ final = [r \in Rev |-> FALSE]
    /\ content = [r \in Rev |-> 0]
    /\ editing = content /\ sealed = content /\ late = content /\ cuts = content
    /\ edits = 0
    /\ provider = {}
    /\ bucket = [f \in File |-> None]
    /\ req = [p \in Request |-> Idle]
    /\ requests = 0
    /\ failures = 0
    /\ raced = {}

Live(e) == env[e] # None /\ ~env[e].deleted

-----------------------------------------------------------------------------
(* Revisions (module Revisions has the requests in full).  The entities of  *)
(* a revision are edited after a check that it is not final, and written    *)
(* later.  A delete of one that the revision links unlinks it first.        *)

StartEdit(r) ==
    /\ edits < MaxEdits
    /\ edits' = edits + 1
    /\ ~final[r]
    /\ editing' = [editing EXCEPT ![r] = @ + 1]
    /\ UNCHANGED <<kind, env, final, content, sealed, late, cuts, provider, bucket, req,
                   requests, failures, raced>>

\* The content of r changes, which disturbs whoever is at work.
Change(r) ==
    /\ content' = [content EXCEPT ![r] = @ + 1]
    /\ req' = [p \in Request |-> [req[p] EXCEPT !.alone = FALSE]]

EndEdit(r) ==
    /\ editing[r] > 0
    /\ editing' = [editing EXCEPT ![r] = @ - 1]
    /\ Change(r)
    /\ UNCHANGED <<kind, env, final, edits, sealed, late, cuts, provider, bucket, requests,
                   failures, raced>>

\* deleteTag, deleteTrigger, deleteIngestEndpointDataMap: the revision is saved without
\* the entity, final or not.  (The deletion of the entity itself is an edit.)
Unlink(r) ==
    /\ edits < MaxEdits
    /\ edits' = edits + 1
    /\ Change(r)
    /\ cuts' = [cuts EXCEPT ![r] = IF final[r] THEN @ + 1 ELSE @]
    /\ UNCHANGED <<kind, env, final, editing, sealed, late, provider, bucket, requests,
                   failures, raced>>

Finalise(r) ==
    /\ ~final[r]
    /\ final' = [final EXCEPT ![r] = TRUE]
    /\ sealed' = [sealed EXCEPT ![r] = content[r]]
    /\ late' = [late EXCEPT ![r] = editing[r]]
    /\ UNCHANGED <<kind, env, content, editing, edits, cuts, provider, bucket, req,
                   requests, failures, raced>>

-----------------------------------------------------------------------------
(* The beginning of a request, up to and with its first read.              *)

Begin(p, r) ==
    /\ requests < MaxRequests
    /\ requests' = requests + 1
    /\ req[p].pc = "idle"
    /\ req' = [o \in Request |->
                  IF o = p THEN [r EXCEPT !.alone = \A q \in Request : req[q].pc = "idle"]
                           ELSE [req[o] EXCEPT !.alone = FALSE]]
    /\ UNCHANGED <<kind, env, revisions, provider, bucket, failures>>

BeginCreate(p) ==
    \E r \in Rev, d \in Domain \cup {None},
       vs \in IF kind = "tag" THEN SUBSET Key ELSE {{}} :
        /\ Begin(p, [Idle EXCEPT !.pc = "revision", !.op = "create", !.rev = r,
                                 !.model = [rev |-> r, domain |-> d, vars |-> vs]])
        /\ raced' = IF \E o \in Request : req[o].op = "create" /\ req[o].model.domain = d
                    THEN raced \cup ({d} \ {None}) ELSE raced

\* findByIdThrows: the environment as it is now, deleted ones are not found.
Read(e) == [rev |-> env[e].rev, domain |-> env[e].domain, vars |-> env[e].vars]

BeginUpdate(p) ==
    \E e \in Env, r \in Rev :
        /\ Live(e)
        /\ Begin(p, [Idle EXCEPT !.pc = "revision", !.op = "update", !.env = e,
                                 !.rev = r, !.was = Read(e), !.model = Read(e)])
        /\ UNCHANGED raced

\* addEnvironmentVariable, deleteEnvironmentVariable.
BeginVariable(p) ==
    \E e \in {o \in Env : Live(o)}, k \in Key :
      \E vs \in {env[e].vars \cup {k}, env[e].vars \ {k}} :
        /\ kind = "tag"
        /\ Begin(p, [Idle EXCEPT !.pc = "save", !.op = "variable", !.env = e,
                                 !.was = Read(e), !.model = [Read(e) EXCEPT !.vars = vs]])
        /\ UNCHANGED raced

BeginDelete(p) ==
    \E e \in Env :
        /\ Live(e)
        /\ Begin(p, [Idle EXCEPT !.pc = "save", !.op = "delete", !.env = e,
                                 !.was = Read(e), !.model = Read(e)])
        /\ UNCHANGED raced

-----------------------------------------------------------------------------
(* The steps of a request, one for each await that changes or reads what   *)
(* others use.                                                             *)
(*                                                                         *)
(* A definition named X_... is X with a mistake in it: a run in which it   *)
(* stands for X violates the property the mistake is about.                *)

\* A revision must be final to be attached; the creation of an ingest
\* environment does not look.
Attachable_Any(p) == TRUE
Attachable(p) == final[req[p].rev] \/ (kind = "ingest" /\ req[p].op = "create")

ReadRevision(p) ==
    /\ req[p].pc = "revision"
    /\ req' = [req EXCEPT ![p] =
                  IF ~Attachable(p) THEN Idle
                  ELSE [@ EXCEPT !.pc = IF req[p].op = "create" THEN "domain" ELSE "save",
                                 !.model.rev = req[p].rev]]
    /\ UNCHANGED <<kind, env, revisions, provider, bucket, requests, failures, raced>>

\* findOne({ _custom_domain })
Taken_SameRevision(d, r) == \E e \in Env : Live(e) /\ env[e].domain = d /\ env[e].rev = r
Taken(d, r) == \E e \in Env : Live(e) /\ env[e].domain = d

CheckDomain(p) ==
    LET m == req[p].model
    IN  /\ req[p].pc = "domain"
        /\ req' = [req EXCEPT ![p] = IF m.domain # None /\ Taken(m.domain, m.rev)
                                     THEN Idle ELSE [@ EXCEPT !.pc = "insert"]]
        /\ UNCHANGED <<kind, env, revisions, provider, bucket, requests, failures, raced>>

Inserted(m) == [rev |-> m.rev, domain |-> m.domain, vars |-> m.vars, deleted |-> FALSE]

Insert(p) ==
    /\ req[p].pc = "insert"
    /\ \E e \in Env :
          /\ env[e] = None
          /\ env' = [env EXCEPT ![e] = Inserted(req[p].model)]
          /\ req' = [req EXCEPT ![p].env = e,
                                ![p].pc = IF kind = "tag" THEN "build" ELSE "provider"]
    /\ UNCHANGED <<kind, revisions, provider, bucket, requests, failures, raced>>

PutProvider(p) ==
    /\ req[p].pc = "provider"
    /\ provider' = provider \cup {req[p].env}
    /\ req' = [req EXCEPT ![p].pc = "build"]
    /\ UNCHANGED <<kind, env, revisions, bucket, requests, failures, raced>>

\* toSetCommand compares the model with what was read.  Variables are models, and
\* never equal to their copies, so that every save writes them again.
SetsRevision(p) == req[p].model.rev # req[p].was.rev
SetsVariables(p) == req[p].model.vars # {} \/ req[p].was.vars # {}

\* The document after $set of the changed fields.
Saved_Whole(p) == [Inserted(req[p].model) EXCEPT !.deleted = req[p].op = "delete"]
Saved(p) == [env[req[p].env] EXCEPT
    !.rev     = IF SetsRevision(p) THEN req[p].model.rev ELSE @,
    !.vars    = IF SetsVariables(p) THEN req[p].model.vars ELSE @,
    !.deleted = @ \/ req[p].op = "delete"]

Save(p) ==
    /\ req[p].pc = "save"
    /\ env' = [env EXCEPT ![req[p].env] = Saved(p)]
    /\ req' = [req EXCEPT ![p].pc = IF req[p].op = "delete" THEN "done" ELSE "build"]
    /\ UNCHANGED <<kind, revisions, provider, bucket, requests, failures, raced>>

\* buildConfig, buildIngestEndpointConfig: from the model in memory, the revision
\* and, for ingest, the provider's file ({} when there is none).
Built_AsRead(p) ==
    LET m == IF req[p].was = None THEN req[p].model ELSE req[p].was
    IN  [env |-> req[p].env, rev |-> m.rev, content |-> content[m.rev],
         vars |-> m.vars, provider |-> req[p].env \in provider]
Built(p) ==
    LET m == req[p].model
    IN  [env |-> req[p].env, rev |-> m.rev, content |-> content[m.rev],
         vars |-> m.vars, provider |-> req[p].env \in provider]

Build(p) ==
    /\ req[p].pc \in {"build", "buildDomain"}
    /\ req' = [req EXCEPT ![p].config = Built(p),
                          ![p].pc = IF @ = "build" THEN "put" ELSE "putDomain"]
    /\ UNCHANGED <<kind, env, revisions, provider, bucket, requests, failures, raced>>

\* The tag manager builds anew for the file of the custom domain.
Put(p) ==
    LET d == req[p].model.domain
    IN  /\ req[p].pc = "put"
        /\ bucket' = [bucket EXCEPT ![req[p].env] = req[p].config]
        /\ req' = [req EXCEPT ![p].pc = IF d = None THEN "done"
                                        ELSE IF kind = "tag" THEN "buildDomain"
                                        ELSE "putDomain"]
        /\ UNCHANGED <<kind, env, revisions, provider, requests, failures, raced>>

PutDomain(p) ==
    /\ req[p].pc = "putDomain"
    /\ bucket' = [bucket EXCEPT ![req[p].model.domain] = req[p].config]
    /\ req' = [req EXCEPT ![p].pc = "done"]
    /\ UNCHANGED <<kind, env, revisions, provider, requests, failures, raced>>

Return(p) ==
    /\ req[p].pc = "done"
    /\ req' = [req EXCEPT ![p] = Idle]
    /\ UNCHANGED <<kind, env, revisions, provider, bucket, requests, failures, raced>>

\* An await throws, or the process stops: what the request has done stays.
Fail(p) ==
    /\ failures < MaxFail
    /\ req[p].pc \notin {"idle", "done"}
    /\ failures' = failures + 1
    /\ req' = [req EXCEPT ![p] = Idle]
    /\ UNCHANGED <<kind, env, revisions, provider, bucket, requests, raced>>

Handle(p) ==
    \/ ReadRevision(p) \/ CheckDomain(p) \/ Insert(p) \/ PutProvider(p) \/ Save(p)
    \/ Build(p) \/ Put(p) \/ PutDomain(p) \/ Return(p)

Next ==
    \/ \E r \in Rev : StartEdit(r) \/ EndEdit(r) \/ Unlink(r) \/ Finalise(r)
    \/ \E p \in Request :
          \/ BeginCreate(p) \/ BeginUpdate(p) \/ BeginVariable(p) \/ BeginDelete(p)
          \/ Handle(p) \/ Fail(p)

Spec == Init /\ [][Next]_vars
=============================================================================
