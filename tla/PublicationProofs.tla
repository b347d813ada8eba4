-------------------------- MODULE PublicationProofs --------------------------
(***************************************************************************)
(* Proofs about the deployment of environments, for any number of          *)
(* environments, domains, revisions, requests, edits and failures.         *)
(***************************************************************************)
EXTENDS PublicationProps, TLAPS

USE PublicationAssumption

-----------------------------------------------------------------------------
(* Types.  What a request has in hand depends on how far it is.            *)

AtEnv == {"provider", "save", "build", "put", "buildDomain", "putDomain", "done"}
Hand(r, collection) ==
    /\ r.pc = "idle" => r.op = None
    /\ r.pc # "idle" => r.model \in Model
    /\ r.pc = "revision" => r.op \in {"create", "update"} /\ r.rev \in Rev
    /\ r.pc \in {"domain", "insert"} => r.op = "create"
    /\ r.pc = "save" =>
          /\ r.op \in {"update", "variable", "delete"} /\ r.was \in Model
          /\ r.model.rev = IF r.op = "update" THEN r.rev ELSE r.was.rev
    /\ r.pc \in AtEnv \/ r.op = "update" =>
          r.env \in Env /\ collection[r.env] \in Document
    /\ r.pc = "revision" /\ r.op = "update" => r.was \in Model
    /\ r.pc \in {"put", "buildDomain", "putDomain"} => r.config \in Config
    /\ r.pc \in {"buildDomain", "putDomain"} => r.model.domain \in Domain
Hands == \A p \in Request : Hand(req[p], env)

\* Every edit of a revision was counted, those in progress too; a final one changes by
\* those that were in progress and by unlinking.
EditsInv ==
    \A r \in Rev :
        /\ content[r] + editing[r] <= edits
        /\ cuts[r] <= edits
        /\ final[r] => content[r] + editing[r] = sealed[r] + late[r] + cuts[r]
        /\ ~final[r] => cuts[r] = 0
        /\ sealed[r] <= content[r]

TypeInv == TypeOK /\ EditsInv /\ Hands

\* Documents are not removed.
Grows == /\ env' \in [Env -> Document \cup {None}]
         /\ \A e \in Env : env[e] \in Document => env'[e] \in Document

LEMMA IdleType == Idle \in RequestState /\ \A collection : Hand(Idle, collection)
BY DEF Idle, RequestState, Pc, Hand, AtEnv, Op

LEMMA HandGrows ==
  ASSUME Grows, NEW r \in RequestState, Hand(r, env) PROVE Hand(r, env')
BY DEF Grows, Hand

\* The history variable of a request is of no account.
LEMMA HandAlone ==
  ASSUME NEW r \in RequestState, NEW b \in BOOLEAN, NEW collection, Hand(r, collection)
  PROVE  /\ [r EXCEPT !.alone = b] \in RequestState
         /\ Hand([r EXCEPT !.alone = b], collection)
<1> DEFINE s == [r EXCEPT !.alone = b]
<1>1. /\ s \in RequestState
      /\ s.pc = r.pc /\ s.op = r.op /\ s.env = r.env /\ s.rev = r.rev
      /\ s.was = r.was /\ s.model = r.model /\ s.config = r.config
  BY DEF RequestState
<1>2. Hand(s, collection)
  <2> HIDE DEF s
  <2> QED BY <1>1 DEF Hand
<1> QED BY <1>1, <1>2

LEMMA TypeInit == Init => TypeInv
<1> SUFFICES ASSUME Init PROVE TypeInv
  OBVIOUS
<1>1. TypeOK /\ EditsInv
  BY IdleType DEF Init, TypeOK, EditsInv
<1>2. Hands
  BY IdleType DEF Init, Hands
<1> QED BY <1>1, <1>2 DEF TypeInv

\* What a step of request p has to show for itself.
LEMMA RequestStep ==
  ASSUME TypeInv, NEW p \in Request, NEW new \in RequestState,
         req' = [req EXCEPT ![p] = new], Hand(new, env'),
         Grows, provider' \in SUBSET Env, bucket' \in [File -> Config \cup {None}],
         UNCHANGED <<kind, revisions, requests, raced>>, failures' \in 0 .. MaxFail
  PROVE  TypeInv'
<1>1. TypeOK' /\ EditsInv'
  BY DEF TypeInv, TypeOK, EditsInv, revisions, Grows
<1>2. ASSUME NEW q \in Request PROVE Hand(req'[q], env')
  <2>1. CASE q = p
    BY <2>1 DEF TypeInv, TypeOK
  <2>2. CASE q # p
    BY <2>2, HandGrows DEF TypeInv, TypeOK, Hands
  <2> QED BY <2>1, <2>2
<1> QED BY <1>1, <1>2 DEF TypeInv, Hands

\* Steps that only go on, or give up.
LEMMA QuietStep ==
  ASSUME TypeInv, NEW p \in Request, NEW new \in RequestState,
         req' = [req EXCEPT ![p] = new], Hand(new, env),
         UNCHANGED <<kind, env, revisions, provider, bucket, requests, failures, raced>>
  PROVE  TypeInv'
<1>1. Grows
  BY DEF Grows, TypeInv, TypeOK
<1>2. provider' \in SUBSET Env /\ bucket' \in [File -> Config \cup {None}] /\ failures' \in 0 .. MaxFail
  BY DEF TypeInv, TypeOK
<1> QED BY <1>1, <1>2, RequestStep

LEMMA BeginStep ==
  ASSUME TypeInv, NEW p \in Request, NEW r \in RequestState, Hand(r, env),
         Begin(p, r), raced' \in SUBSET Domain
  PROVE  TypeInv'
<1>1. requests' \in 0 .. MaxRequests
  BY DEF Begin, TypeInv, TypeOK
<1>2. UNCHANGED <<kind, env, revisions, provider, bucket, failures>>
  BY DEF Begin
<1>3. ASSUME NEW q \in Request PROVE req'[q] \in RequestState /\ Hand(req'[q], env)
  <2>1. \E b \in BOOLEAN : req'[q] = [(IF q = p THEN r ELSE req[q]) EXCEPT !.alone = b]
    BY DEF Begin
  <2> QED BY <2>1, HandAlone DEF TypeInv, TypeOK, Hands
<1>4. req' \in [Request -> RequestState]
  BY <1>3 DEF Begin
<1> QED BY <1>1, <1>2, <1>3, <1>4 DEF TypeInv, TypeOK, EditsInv, Hands, revisions

LEMMA CreateBegins == ASSUME TypeInv, NEW p \in Request, BeginCreate(p) PROVE TypeInv'
<1>1. PICK r \in Rev, d \in Domain \cup {None}, vs \in SUBSET Key :
        /\ Begin(p, [Idle EXCEPT !.pc = "revision", !.op = "create", !.rev = r,
                                 !.model = [rev |-> r, domain |-> d, vars |-> vs]])
        /\ raced' \in {raced, raced \cup ({d} \ {None})}
  BY DEF BeginCreate
<1> DEFINE new == [Idle EXCEPT !.pc = "revision", !.op = "create", !.rev = r,
                               !.model = [rev |-> r, domain |-> d, vars |-> vs]]
<1>2. new \in RequestState /\ Hand(new, env)
  BY DEF Idle, RequestState, Pc, Hand, Model, Op, AtEnv
<1>3. raced' \in SUBSET Domain
  BY <1>1 DEF TypeInv, TypeOK
<1> QED BY <1>1, <1>2, <1>3, BeginStep

\* What a handler that read environment e has in hand.
LEMMA ReadType ==
  ASSUME TypeInv, NEW e \in Env, Live(e)
  PROVE  env[e] \in Document /\ Read(e) \in Model
BY DEF TypeInv, TypeOK, Live, Read, Document, Model

LEMMA UpdateBegins == ASSUME TypeInv, NEW p \in Request, BeginUpdate(p) PROVE TypeInv'
<1>1. PICK e \in Env, r \in Rev :
        /\ Live(e) /\ raced' = raced
        /\ Begin(p, [Idle EXCEPT !.pc = "revision", !.op = "update", !.env = e,
                                 !.rev = r, !.was = Read(e), !.model = Read(e)])
  BY DEF BeginUpdate
<1> DEFINE new == [Idle EXCEPT !.pc = "revision", !.op = "update", !.env = e,
                               !.rev = r, !.was = Read(e), !.model = Read(e)]
<1>2. env[e] \in Document /\ Read(e) \in Model
  BY <1>1, ReadType
<1>3. new \in RequestState /\ Hand(new, env)
  BY <1>2 DEF Idle, RequestState, Pc, Hand, Op, AtEnv
<1>4. raced' \in SUBSET Domain
  BY <1>1 DEF TypeInv, TypeOK
<1> QED BY <1>1, <1>3, <1>4, BeginStep

LEMMA VariableBegins == ASSUME TypeInv, NEW p \in Request, BeginVariable(p) PROVE TypeInv'
<1>1. PICK e \in Env, vs \in SUBSET Key :
        /\ Live(e) /\ raced' = raced
        /\ Begin(p, [Idle EXCEPT !.pc = "save", !.op = "variable", !.env = e,
                                 !.was = Read(e), !.model = [Read(e) EXCEPT !.vars = vs]])
  <2>1. PICK e \in Env, k \in Key :
          \E vs \in {env[e].vars \cup {k}, env[e].vars \ {k}} :
            /\ Live(e) /\ raced' = raced
            /\ Begin(p, [Idle EXCEPT !.pc = "save", !.op = "variable", !.env = e,
                                     !.was = Read(e), !.model = [Read(e) EXCEPT !.vars = vs]])
    BY DEF BeginVariable
  <2>2. env[e].vars \in SUBSET Key
    BY <2>1, ReadType DEF Document
  <2>3. {env[e].vars \cup {k}, env[e].vars \ {k}} \subseteq SUBSET Key
    BY <2>2
  <2> QED BY <2>1, <2>3
<1> DEFINE new == [Idle EXCEPT !.pc = "save", !.op = "variable", !.env = e,
                               !.was = Read(e), !.model = [Read(e) EXCEPT !.vars = vs]]
<1>2. env[e] \in Document /\ Read(e) \in Model
  BY <1>1, ReadType
<1>3. [Read(e) EXCEPT !.vars = vs] \in Model /\ [Read(e) EXCEPT !.vars = vs].rev = Read(e).rev
  BY <1>2 DEF Model
<1>4. new \in RequestState /\ Hand(new, env)
  BY <1>2, <1>3 DEF Idle, RequestState, Pc, Hand, Op, AtEnv
<1>5. raced' \in SUBSET Domain
  BY <1>1 DEF TypeInv, TypeOK
<1> QED BY <1>1, <1>4, <1>5, BeginStep

LEMMA DeleteBegins == ASSUME TypeInv, NEW p \in Request, BeginDelete(p) PROVE TypeInv'
<1>1. PICK e \in Env :
        /\ Live(e) /\ raced' = raced
        /\ Begin(p, [Idle EXCEPT !.pc = "save", !.op = "delete", !.env = e,
                                 !.was = Read(e), !.model = Read(e)])
  BY DEF BeginDelete
<1> DEFINE new == [Idle EXCEPT !.pc = "save", !.op = "delete", !.env = e,
                               !.was = Read(e), !.model = Read(e)]
<1>2. env[e] \in Document /\ Read(e) \in Model
  BY <1>1, ReadType
<1>3. new \in RequestState /\ Hand(new, env)
  BY <1>2 DEF Idle, RequestState, Pc, Hand, Op, AtEnv
<1>4. raced' \in SUBSET Domain
  BY <1>1 DEF TypeInv, TypeOK
<1> QED BY <1>1, <1>3, <1>4, BeginStep

LEMMA ReadRevisionType == ASSUME TypeInv, NEW p \in Request, ReadRevision(p) PROVE TypeInv'
<1> DEFINE on == [req[p] EXCEPT !.pc = IF req[p].op = "create" THEN "domain" ELSE "save",
                                !.model.rev = req[p].rev]
           new == IF ~Attachable(p) THEN Idle ELSE on
<1>1. req[p] \in RequestState /\ Hand(req[p], env) /\ req[p].pc = "revision"
  BY DEF TypeInv, TypeOK, Hands, ReadRevision
<1>2. on \in RequestState
  <2>1. req[p].model \in Model /\ req[p].rev \in Rev
    BY <1>1 DEF Hand
  <2>2. [req[p].model EXCEPT !.rev = req[p].rev] \in Model
    BY <2>1 DEF Model
  <2>3. PICK c \in Pc : on = [req[p] EXCEPT !.pc = c, !.model = [req[p].model EXCEPT !.rev = req[p].rev]]
    BY DEF Pc
  <2> HIDE DEF on
  <2> QED BY <1>1, <2>2, <2>3 DEF RequestState
<1>3. Hand(on, env)
  BY <1>1 DEF RequestState, Hand, Model, AtEnv
<1>4. new \in RequestState /\ Hand(new, env)
  BY <1>2, <1>3, IdleType
<1>5. req' = [req EXCEPT ![p] = new]
  BY DEF ReadRevision
<1>6. UNCHANGED <<kind, env, revisions, provider, bucket, requests, failures, raced>>
  BY DEF ReadRevision
<1> HIDE DEF new
<1> QED BY <1>4, <1>5, <1>6, QuietStep

LEMMA CheckDomainType == ASSUME TypeInv, NEW p \in Request, CheckDomain(p) PROVE TypeInv'
<1> DEFINE on == [req[p] EXCEPT !.pc = "insert"]
<1>1. req[p] \in RequestState /\ Hand(req[p], env) /\ req[p].pc = "domain"
  BY DEF TypeInv, TypeOK, Hands, CheckDomain
<1>2. on \in RequestState /\ Hand(on, env)
  BY <1>1 DEF RequestState, Pc, Hand, AtEnv
<1>3. PICK new \in {Idle, on} : req' = [req EXCEPT ![p] = new]
  BY DEF CheckDomain
<1>4. UNCHANGED <<kind, env, revisions, provider, bucket, requests, failures, raced>>
  BY DEF CheckDomain
<1>5. new \in RequestState /\ Hand(new, env)
  BY <1>2, <1>3, IdleType
<1> QED BY <1>3, <1>4, <1>5, QuietStep

LEMMA InsertType == ASSUME TypeInv, NEW p \in Request, Insert(p) PROVE TypeInv'
<1>1. PICK e \in Env :
        /\ env[e] = None
        /\ env' = [env EXCEPT ![e] = Inserted(req[p].model)]
        /\ req' = [req EXCEPT ![p].env = e,
                              ![p].pc = IF kind = "tag" THEN "build" ELSE "provider"]
  BY DEF Insert
<1> DEFINE new == [req[p] EXCEPT !.env = e, !.pc = IF kind = "tag" THEN "build" ELSE "provider"]
<1>2. req[p] \in RequestState /\ Hand(req[p], env) /\ req[p].pc = "insert"
  BY DEF TypeInv, TypeOK, Hands, Insert
<1>3. Inserted(req[p].model) \in Document
  BY <1>2 DEF Hand, Inserted, Model, Document
<1>4. Grows /\ env'[e] \in Document
  BY <1>1, <1>3 DEF Grows, TypeInv, TypeOK
<1>5. new \in RequestState
  BY <1>2 DEF RequestState, Pc
<1>6. Hand(new, env')
  BY <1>2, <1>4 DEF RequestState, Hand, AtEnv, Op
<1>7. req' = [req EXCEPT ![p] = new]
  BY <1>1, <1>2 DEF TypeInv, TypeOK
<1>8. /\ UNCHANGED <<kind, revisions, requests, raced>>
      /\ provider' \in SUBSET Env /\ bucket' \in [File -> Config \cup {None}]
      /\ failures' \in 0 .. MaxFail
  BY DEF Insert, TypeInv, TypeOK
<1> HIDE DEF new
<1> QED BY <1>4, <1>5, <1>6, <1>7, <1>8, RequestStep

\* A step that goes on to another place with the same things in hand.
LEMMA Onward ==
  ASSUME NEW r \in RequestState, NEW c \in {"build", "put", "buildDomain", "putDomain", "done"},
         NEW collection, Hand(r, collection), r.pc \in AtEnv,
         c \in {"put", "buildDomain", "putDomain"} => r.config \in Config,
         c \in {"buildDomain", "putDomain"} => r.model.domain \in Domain
  PROVE  /\ [r EXCEPT !.pc = c] \in RequestState
         /\ Hand([r EXCEPT !.pc = c], collection)
<1> DEFINE n == [r EXCEPT !.pc = c]
<1>1. /\ n \in RequestState
      /\ n.pc = c /\ n.op = r.op /\ n.env = r.env /\ n.rev = r.rev
      /\ n.was = r.was /\ n.model = r.model /\ n.config = r.config
  BY DEF RequestState, Pc
<1>2. Hand(n, collection)
  <2> HIDE DEF n
  <2> QED BY <1>1 DEF Hand, AtEnv
<1> QED BY <1>1, <1>2

LEMMA PutProviderType == ASSUME TypeInv, NEW p \in Request, PutProvider(p) PROVE TypeInv'
<1> DEFINE new == [req[p] EXCEPT !.pc = "build"]
<1>1. req[p] \in RequestState /\ Hand(req[p], env) /\ req[p].pc = "provider"
  BY DEF TypeInv, TypeOK, Hands, PutProvider
<1>2. new \in RequestState /\ Hand(new, env)
  BY <1>1, Onward DEF AtEnv
<1>3. /\ req' = [req EXCEPT ![p] = new] /\ env' = env
      /\ UNCHANGED <<kind, revisions, requests, raced>>
      /\ provider' \in SUBSET Env /\ bucket' \in [File -> Config \cup {None}]
      /\ failures' \in 0 .. MaxFail
  BY <1>1 DEF PutProvider, TypeInv, TypeOK, Hand, AtEnv
<1>4. Grows
  BY <1>3 DEF Grows, TypeInv, TypeOK
<1> HIDE DEF new
<1> QED BY <1>2, <1>3, <1>4, RequestStep

\* What a save writes: the fields the request changed, the rest as it is by then.
LEMMA SavedType ==
  ASSUME TypeInv, NEW p \in Request, req[p].pc = "save"
  PROVE  /\ req[p].env \in Env /\ env[req[p].env] \in Document
         /\ Saved(p) \in Document
         /\ Saved(p).domain = env[req[p].env].domain
         /\ Saved(p).deleted = (env[req[p].env].deleted \/ req[p].op = "delete")
         /\ Saved(p).rev = IF SetsRevision(p) THEN req[p].model.rev ELSE env[req[p].env].rev
<1> DEFINE e == req[p].env
           d == env[e]
           r == IF SetsRevision(p) THEN req[p].model.rev ELSE d.rev
           v == IF SetsVariables(p) THEN req[p].model.vars ELSE d.vars
           x == d.deleted \/ req[p].op = "delete"
<1>1. Hand(req[p], env)
  BY DEF TypeInv, Hands
<1>2. e \in Env /\ d \in Document /\ req[p].model \in Model
  BY <1>1 DEF Hand, AtEnv
<1>3. r \in Rev /\ v \in SUBSET Key /\ x \in BOOLEAN
  BY <1>2 DEF Model, Document
<1>4. Saved(p) = [d EXCEPT !.rev = r, !.vars = v, !.deleted = x]
  BY DEF Saved
<1> HIDE DEF r, v, x
<1>5. /\ Saved(p) \in Document /\ Saved(p).domain = d.domain
      /\ Saved(p).deleted = x /\ Saved(p).rev = r
  BY <1>2, <1>3, <1>4 DEF Document
<1> QED BY <1>2, <1>5 DEF x, r

LEMMA SaveType == ASSUME TypeInv, NEW p \in Request, Save(p) PROVE TypeInv'
<1> DEFINE c == IF req[p].op = "delete" THEN "done" ELSE "build"
           new == [req[p] EXCEPT !.pc = c]
<1>1. req[p] \in RequestState /\ Hand(req[p], env) /\ req[p].pc = "save"
  BY DEF TypeInv, TypeOK, Hands, Save
<1>2. Grows
  BY <1>1, SavedType DEF Save, Grows, TypeInv, TypeOK
<1>3. Hand(req[p], env')
  BY <1>1, <1>2, HandGrows
<1>4. c \in {"done", "build"}
  OBVIOUS
<1>5. req' = [req EXCEPT ![p] = new]
  BY <1>1 DEF Save, TypeInv, TypeOK
<1> HIDE DEF c
<1>6. new \in RequestState /\ Hand(new, env')
  BY <1>1, <1>3, <1>4, Onward DEF AtEnv
<1>7. /\ UNCHANGED <<kind, revisions, requests, raced>>
      /\ provider' \in SUBSET Env /\ bucket' \in [File -> Config \cup {None}]
      /\ failures' \in 0 .. MaxFail
  BY DEF Save, TypeInv, TypeOK
<1> HIDE DEF new
<1> QED BY <1>2, <1>5, <1>6, <1>7, RequestStep

LEMMA BuiltType ==
  ASSUME TypeInv, NEW p \in Request, req[p].pc \in {"build", "buildDomain"}
  PROVE  Built(p) \in Config /\ Built(p).rev = req[p].model.rev
                             /\ Built(p).content = content[req[p].model.rev]
<1>1. Hand(req[p], env)
  BY DEF TypeInv, Hands
<1>2. req[p].env \in Env /\ req[p].model \in Model
  BY <1>1 DEF Hand, AtEnv
<1>3. content[req[p].model.rev] \in 0 .. MaxEdits
  BY <1>2 DEF Model, TypeInv, TypeOK
<1> QED BY <1>2, <1>3 DEF Built, Config, Model

LEMMA BuildType == ASSUME TypeInv, NEW p \in Request, Build(p) PROVE TypeInv'
<1> DEFINE c == IF req[p].pc = "build" THEN "put" ELSE "putDomain"
           has == [req[p] EXCEPT !.config = Built(p)]
           new == [has EXCEPT !.pc = c]
<1>1. req[p] \in RequestState /\ Hand(req[p], env) /\ req[p].pc \in {"build", "buildDomain"}
  BY DEF TypeInv, TypeOK, Hands, Build
<1>2. Built(p) \in Config
  BY <1>1, BuiltType
<1>3. has \in RequestState /\ has.pc = req[p].pc /\ has.config \in Config /\ has.model = req[p].model
  BY <1>1, <1>2 DEF RequestState
<1>4. Hand(has, env)
  <2>1. /\ has.pc = req[p].pc /\ has.op = req[p].op /\ has.env = req[p].env
        /\ has.rev = req[p].rev /\ has.was = req[p].was /\ has.model = req[p].model
        /\ has.config \in Config
    BY <1>1, <1>2 DEF RequestState
  <2> HIDE DEF has
  <2> QED BY <1>1, <2>1 DEF Hand, AtEnv
<1>5. c \in {"put", "putDomain"} /\ (c = "putDomain" => has.model.domain \in Domain)
  BY <1>1, <1>3 DEF Hand
<1>6. req' = [req EXCEPT ![p] = new]
  BY <1>1 DEF Build, TypeInv, TypeOK, RequestState
<1> HIDE DEF has, c
<1>7. new \in RequestState /\ Hand(new, env)
  BY <1>1, <1>3, <1>4, <1>5, Onward DEF AtEnv
<1>8. UNCHANGED <<kind, env, revisions, provider, bucket, requests, failures, raced>>
  BY DEF Build
<1> HIDE DEF new
<1> QED BY <1>6, <1>7, <1>8, QuietStep

LEMMA PutType == ASSUME TypeInv, NEW p \in Request, Put(p) PROVE TypeInv'
<1> DEFINE d == req[p].model.domain
           c == IF d = None THEN "done" ELSE IF kind = "tag" THEN "buildDomain" ELSE "putDomain"
           new == [req[p] EXCEPT !.pc = c]
<1>1. req[p] \in RequestState /\ Hand(req[p], env) /\ req[p].pc = "put"
  BY DEF TypeInv, TypeOK, Hands, Put
<1>2. req[p].config \in Config /\ req[p].env \in Env /\ d \in Domain \cup {None}
  BY <1>1 DEF Hand, AtEnv, Model
<1>3. /\ req' = [req EXCEPT ![p] = new]
      /\ bucket' = [bucket EXCEPT ![req[p].env] = req[p].config]
      /\ UNCHANGED <<kind, env, revisions, provider, requests, failures, raced>>
  BY DEF Put
<1>4. c \in {"done", "buildDomain", "putDomain"} /\ (c # "done" => d \in Domain)
  BY <1>2
<1> HIDE DEF c
<1>5. new \in RequestState /\ Hand(new, env)
  BY <1>1, <1>2, <1>4, Onward DEF AtEnv
<1>6. Grows /\ bucket' \in [File -> Config \cup {None}] /\ provider' \in SUBSET Env
            /\ failures' \in 0 .. MaxFail
  BY <1>2, <1>3 DEF Grows, TypeInv, TypeOK, File
<1> HIDE DEF new
<1> QED BY <1>3, <1>5, <1>6, RequestStep

LEMMA PutDomainType == ASSUME TypeInv, NEW p \in Request, PutDomain(p) PROVE TypeInv'
<1> DEFINE new == [req[p] EXCEPT !.pc = "done"]
<1>1. req[p] \in RequestState /\ Hand(req[p], env) /\ req[p].pc = "putDomain"
  BY DEF TypeInv, TypeOK, Hands, PutDomain
<1>2. req[p].config \in Config /\ req[p].model.domain \in Domain
  BY <1>1 DEF Hand
<1>3. /\ req' = [req EXCEPT ![p] = new]
      /\ bucket' = [bucket EXCEPT ![req[p].model.domain] = req[p].config]
      /\ UNCHANGED <<kind, env, revisions, provider, requests, failures, raced>>
  BY DEF PutDomain
<1>4. new \in RequestState /\ Hand(new, env)
  BY <1>1, Onward DEF AtEnv
<1>5. Grows /\ bucket' \in [File -> Config \cup {None}] /\ provider' \in SUBSET Env
            /\ failures' \in 0 .. MaxFail
  BY <1>2, <1>3 DEF Grows, TypeInv, TypeOK, File
<1> HIDE DEF new
<1> QED BY <1>3, <1>4, <1>5, RequestStep

\* The end of a request, by itself or by a failure.
LEMMA EndType == ASSUME TypeInv, NEW p \in Request, Return(p) \/ Fail(p) PROVE TypeInv'
<1>1. /\ req' = [req EXCEPT ![p] = Idle] /\ failures' \in 0 .. MaxFail
      /\ UNCHANGED <<kind, env, revisions, provider, bucket, requests, raced>>
  BY DEF Return, Fail, TypeInv, TypeOK
<1>2. Grows /\ bucket' \in [File -> Config \cup {None}] /\ provider' \in SUBSET Env
  BY <1>1 DEF Grows, TypeInv, TypeOK
<1> QED BY <1>1, <1>2, IdleType, RequestStep

\* Edits and finalisations of revisions.
LEMMA RevisionType ==
  ASSUME TypeInv, NEW r \in Rev, StartEdit(r) \/ EndEdit(r) \/ Unlink(r) \/ Finalise(r) PROVE TypeInv'
<1>1. UNCHANGED <<kind, env, provider, bucket, requests, failures, raced>>
  BY DEF StartEdit, EndEdit, Unlink, Change, Finalise
<1>2. /\ content \in [Rev -> 0 .. MaxEdits] /\ editing \in [Rev -> 0 .. MaxEdits]
      /\ sealed \in [Rev -> 0 .. MaxEdits] /\ late \in [Rev -> 0 .. MaxEdits]
      /\ cuts \in [Rev -> 0 .. MaxEdits] /\ final \in [Rev -> BOOLEAN]
      /\ edits \in 0 .. MaxEdits
      /\ content[r] + editing[r] <= edits /\ cuts[r] <= edits
  BY DEF TypeInv, TypeOK, EditsInv
<1>3. /\ content' \in [Rev -> 0 .. MaxEdits] /\ editing' \in [Rev -> 0 .. MaxEdits]
      /\ sealed' \in [Rev -> 0 .. MaxEdits] /\ late' \in [Rev -> 0 .. MaxEdits]
      /\ cuts' \in [Rev -> 0 .. MaxEdits] /\ final' \in [Rev -> BOOLEAN]
      /\ edits' \in 0 .. MaxEdits
  <2>1. CASE StartEdit(r)
    BY <1>2, <2>1 DEF StartEdit
  <2>2. CASE EndEdit(r)
    BY <1>2, <2>2 DEF EndEdit, Change
  <2>3. CASE Unlink(r)
    BY <1>2, <2>3 DEF Unlink, Change
  <2>4. CASE Finalise(r)
    BY <1>2, <2>4 DEF Finalise
  <2> QED BY <2>1, <2>2, <2>3, <2>4
<1>5. EditsInv'
  <2> SUFFICES ASSUME NEW q \in Rev
               PROVE  /\ content'[q] + editing'[q] <= edits'
                      /\ cuts'[q] <= edits'
                      /\ final'[q] => content'[q] + editing'[q] = sealed'[q] + late'[q] + cuts'[q]
                      /\ ~final'[q] => cuts'[q] = 0
                      /\ sealed'[q] <= content'[q]
    BY DEF EditsInv
  <2>1. /\ content[q] + editing[q] <= edits /\ cuts[q] <= edits
        /\ final[q] => content[q] + editing[q] = sealed[q] + late[q] + cuts[q]
        /\ ~final[q] => cuts[q] = 0
        /\ sealed[q] <= content[q]
    BY DEF TypeInv, EditsInv
  <2>2. CASE StartEdit(r)
    BY <1>2, <2>1, <2>2 DEF StartEdit
  <2> USE <1>2, <2>1
  <2>3. CASE EndEdit(r)
    <3>1. /\ content'[q] = IF q = r THEN content[q] + 1 ELSE content[q]
          /\ editing'[q] = IF q = r THEN editing[q] - 1 ELSE editing[q]
          /\ editing[r] > 0 /\ UNCHANGED <<edits, cuts, final, sealed, late>>
      BY <2>3 DEF EndEdit, Change
    <3>2. content[q] \in Nat /\ editing[q] \in Nat
      OBVIOUS
    <3> QED BY <3>1, <3>2
  <2>4. CASE Unlink(r)
    <3>1. /\ content'[q] = IF q = r THEN content[q] + 1 ELSE content[q]
          /\ cuts'[q] = IF q = r /\ final[q] THEN cuts[q] + 1 ELSE cuts[q]
          /\ edits' = edits + 1 /\ UNCHANGED <<editing, final, sealed, late>>
      BY <2>4 DEF Unlink, Change
    <3>2. content[q] \in Nat /\ editing[q] \in Nat /\ cuts[q] \in Nat /\ edits \in Nat
          /\ sealed[q] \in Nat /\ late[q] \in Nat
      OBVIOUS
    <3> QED BY <3>1, <3>2
  <2>5. CASE Finalise(r)
    BY <1>2, <2>1, <2>5 DEF Finalise
  <2> QED BY <2>2, <2>3, <2>4, <2>5
<1>4. req' \in [Request -> RequestState] /\ Hands'
  <2>1. CASE req' = req
    BY <1>1, <2>1 DEF TypeInv, TypeOK, Hands
  <2>2. CASE Change(r)
    <3>1. ASSUME NEW q \in Request PROVE req'[q] \in RequestState /\ Hand(req'[q], env')
      BY <1>1, <2>2, HandAlone DEF Change, TypeInv, TypeOK, Hands
    <3> QED BY <2>2, <3>1 DEF Change, Hands
  <2> QED BY <2>1, <2>2 DEF StartEdit, EndEdit, Unlink, Finalise
<1> QED BY <1>1, <1>3, <1>4, <1>5 DEF TypeInv, TypeOK

LEMMA TypeStep == TypeInv /\ [Next]_vars => TypeInv'
<1> SUFFICES ASSUME TypeInv, [Next]_vars PROVE TypeInv'
  OBVIOUS
<1>1. CASE \E r \in Rev : StartEdit(r) \/ EndEdit(r) \/ Unlink(r) \/ Finalise(r)
  BY <1>1, RevisionType
<1>2. ASSUME NEW p \in Request,
             BeginCreate(p) \/ BeginUpdate(p) \/ BeginVariable(p) \/ BeginDelete(p)
      PROVE  TypeInv'
  BY <1>2, CreateBegins, UpdateBegins, VariableBegins, DeleteBegins
<1>3. ASSUME NEW p \in Request, Handle(p) \/ Fail(p) PROVE TypeInv'
  BY <1>3, ReadRevisionType, CheckDomainType, InsertType, PutProviderType, SaveType,
     BuildType, PutType, PutDomainType, EndType DEF Handle
<1>4. CASE UNCHANGED vars
  BY <1>4 DEF vars, revisions, TypeInv, TypeOK, EditsInv, Hands
<1> QED BY <1>1, <1>2, <1>3, <1>4 DEF Next

LEMMA TypeInvariance == Spec => []TypeInv
BY TypeInit, TypeStep, PTL DEF Spec

\* The documents, the files and what the requests have in hand have their types,
\* whatever runs at the same time and whatever fails.
THEOREM TypeCorrect == Spec => []TypeOK
<1>1. TypeInv => TypeOK
  BY DEF TypeInv
<1> QED BY <1>1, TypeInvariance, PTL

\* Which steps change what.
LEMMA Movers ==
  ASSUME [Next]_vars
  PROVE  /\ kind' = kind
         /\ UNCHANGED revisions \/ \E r \in Rev : StartEdit(r) \/ EndEdit(r) \/ Unlink(r) \/ Finalise(r)
         /\ env' = env \/ \E p \in Request : Insert(p) \/ Save(p)
         /\ bucket' = bucket \/ \E p \in Request : Put(p) \/ PutDomain(p)
<1>1. CASE \E r \in Rev : StartEdit(r) \/ EndEdit(r) \/ Unlink(r) \/ Finalise(r)
  BY <1>1 DEF StartEdit, EndEdit, Unlink, Change, Finalise
<1>2. ASSUME NEW p \in Request,
             BeginCreate(p) \/ BeginUpdate(p) \/ BeginVariable(p) \/ BeginDelete(p)
      PROVE  kind' = kind /\ UNCHANGED revisions /\ env' = env /\ bucket' = bucket
  BY <1>2 DEF BeginCreate, BeginUpdate, BeginVariable, BeginDelete, Begin
<1>3. ASSUME NEW p \in Request,
             \/ ReadRevision(p) \/ CheckDomain(p) \/ PutProvider(p) \/ Build(p) \/ Return(p)
             \/ Fail(p)
      PROVE  kind' = kind /\ UNCHANGED revisions /\ env' = env /\ bucket' = bucket
  BY <1>3 DEF ReadRevision, CheckDomain, PutProvider, Build, Return, Fail
<1>4. ASSUME NEW p \in Request, Insert(p) \/ Save(p)
      PROVE  kind' = kind /\ UNCHANGED revisions /\ bucket' = bucket
  BY <1>4 DEF Insert, Save
<1>5. ASSUME NEW p \in Request, Put(p) \/ PutDomain(p)
      PROVE  kind' = kind /\ UNCHANGED revisions /\ env' = env
  BY <1>5 DEF Put, PutDomain
<1>6. CASE UNCHANGED vars
  BY <1>6 DEF vars
<1> QED BY <1>1, <1>2, <1>3, <1>4, <1>5, <1>6 DEF Next, Handle

-----------------------------------------------------------------------------
(* What is saved.                                                          *)

\* Nobody but an insert and a save touches a document, and an insert takes an unused id.
LEMMA Untouched ==
  ASSUME TypeInv, [Next]_vars, NEW e \in Env, env[e] # None, env'[e] # env[e]
  PROVE  \E p \in Request : Save(p) /\ e = req[p].env
<1>1. PICK p \in Request : Insert(p) \/ Save(p)
  BY Movers
<1>2. ~Insert(p)
  BY DEF Insert, TypeInv, TypeOK
<1>3. e = req[p].env
  BY <1>1, <1>2 DEF Save, TypeInv, TypeOK
<1> QED BY <1>1, <1>2, <1>3

\* A deletion and the revision of an update are not undone by a request that read the
\* environment before (Repo.save sets the changed fields only).
THEOREM NothingUndoneCorrect == Spec => NothingUndone
<1>1. ASSUME TypeInv, [Next]_vars, NEW e \in Env, env[e] # None
      PROVE  DeletedStaysDeleted(e) /\ RevisionOnlyByUpdate(e)
  <2>1. CASE env'[e] = env[e]
    BY <2>1 DEF DeletedStaysDeleted, RevisionOnlyByUpdate
  <2>2. CASE env'[e] # env[e]
    <3>1. PICK p \in Request : Save(p) /\ e = req[p].env
      BY <1>1, <2>2, Untouched
    <3>2. req[p].pc = "save" /\ env'[e] = Saved(p)
      BY <1>1, <3>1 DEF Save, TypeInv, TypeOK
    <3>3. DeletedStaysDeleted(e)
      BY <1>1, <3>1, <3>2, SavedType DEF DeletedStaysDeleted
    <3>4. ASSUME env'[e].rev # env[e].rev
          PROVE  /\ req'[p].pc = "build" /\ req[p].op = "update"
                 /\ env'[e].rev = req[p].rev
      <4>1. SetsRevision(p) /\ env'[e].rev = req[p].model.rev
        BY <1>1, <3>1, <3>2, <3>4, SavedType
      <4>2. Hand(req[p], env)
        BY <1>1 DEF TypeInv, Hands
      <4>3. req[p].op = "update" /\ req[p].model.rev = req[p].rev
        BY <3>2, <4>1, <4>2 DEF Hand, SetsRevision
      <4>4. req'[p].pc = "build"
        BY <1>1, <3>1, <4>3 DEF Save, TypeInv, TypeOK, RequestState
      <4> QED BY <4>1, <4>3, <4>4
    <3> QED BY <3>1, <3>2, <3>3, <3>4 DEF RevisionOnlyByUpdate
  <2> QED BY <2>1, <2>2
<1>2. TypeInv /\ [Next]_vars =>
        [\A e \in Env : env[e] # None => DeletedStaysDeleted(e) /\ RevisionOnlyByUpdate(e)]_vars
  BY <1>1
<1> QED BY <1>2, TypeInvariance, PTL DEF Spec, NothingUndone

-----------------------------------------------------------------------------
(* Owners of custom domains.                                               *)

\* Two creations in progress for one domain were noticed when the later began, and
\* what a creation is about to insert is free, unless its domain was raced for.
Wants(r, d) == r.op = "create" /\ r.model.domain = d
OneCreation ==
    \A d \in Domain \ raced, p, q \in Request :
        Wants(req[p], d) /\ Wants(req[q], d) => p = q
FreeToInsert ==
    \A d \in Domain \ raced, p \in Request :
        req[p].pc = "insert" /\ Wants(req[p], d) => ~\E e \in Env : Live(e) /\ env[e].domain = d
OwnerInv == OneOwner /\ OneCreation /\ FreeToInsert

LEMMA OwnerInit == Init => OwnerInv
<1> SUFFICES ASSUME Init PROVE OwnerInv
  OBVIOUS
<1>1. \A p \in Request : req[p].op = None /\ req[p].pc = "idle"
  BY DEF Init, Idle
<1>2. OneOwner
  BY DEF Init, OneOwner, Live
<1> QED BY <1>1, <1>2 DEF OwnerInv, OneCreation, FreeToInsert, Wants, Op

\* A step that creates no environment and begins no creation.
LEMMA OwnerQuiet ==
  ASSUME TypeInv, OwnerInv, raced' = raced,
         \A e \in Env : Live(e)' => Live(e) /\ env'[e].domain = env[e].domain,
         \A p \in Request, d \in Domain : Wants(req'[p], d) => Wants(req[p], d),
         \A p \in Request : req'[p].pc = "insert" => req[p].pc = "insert"
  PROVE  OwnerInv'
<1>1. OneOwner'
  BY DEF OwnerInv, OneOwner
<1>2. OneCreation'
  BY DEF OwnerInv, OneCreation
<1>3. FreeToInsert'
  BY DEF OwnerInv, FreeToInsert
<1> QED BY <1>1, <1>2, <1>3 DEF OwnerInv

\* A request that begins disturbs the others, and no more.
LEMMA OthersKeep ==
  ASSUME TypeInv, NEW p \in Request, NEW r, Begin(p, r), NEW q \in Request \ {p}
  PROVE  req'[q].pc = req[q].pc /\ req'[q].op = req[q].op /\ req'[q].model = req[q].model
<1>1. req'[q] = [req[q] EXCEPT !.alone = FALSE] /\ req[q] \in RequestState
  BY DEF Begin, TypeInv, TypeOK
<1> QED BY <1>1 DEF RequestState

\* A creation begins: if another one wants the same domain, it is raced from now on.
LEMMA OwnerCreate ==
  ASSUME TypeInv, OwnerInv, NEW p \in Request, BeginCreate(p) PROVE OwnerInv'
<1>1. PICK r \in Rev, d \in Domain \cup {None}, vs \in SUBSET Key :
        /\ Begin(p, [Idle EXCEPT !.pc = "revision", !.op = "create", !.rev = r,
                                 !.model = [rev |-> r, domain |-> d, vars |-> vs]])
        /\ raced' = IF \E o \in Request : req[o].op = "create" /\ req[o].model.domain = d
                    THEN raced \cup ({d} \ {None}) ELSE raced
  BY DEF BeginCreate
<1>2. env' = env /\ req[p].pc = "idle"
  BY <1>1 DEF Begin
<1>3. req'[p].pc = "revision" /\ req'[p].model.domain = d
  BY <1>1 DEF Begin, Idle
<1>4. \A q \in Request \ {p} :
        req'[q].pc = req[q].pc /\ req'[q].op = req[q].op /\ req'[q].model = req[q].model
  BY <1>1, OthersKeep
<1>5. raced \subseteq raced'
  BY <1>1
<1>6. OneOwner'
  BY <1>2, <1>5 DEF OwnerInv, OneOwner, Live
<1>7. ASSUME NEW c \in Domain \ raced', NEW q \in Request \ {p}, Wants(req'[q], c)
      PROVE  c # d
  BY <1>1, <1>4, <1>7 DEF Wants
<1>8. OneCreation'
  BY <1>3, <1>4, <1>5, <1>7 DEF OwnerInv, OneCreation, Wants
<1>9. FreeToInsert'
  BY <1>2, <1>3, <1>4, <1>5 DEF OwnerInv, FreeToInsert, Wants, Live
<1> QED BY <1>6, <1>8, <1>9 DEF OwnerInv

\* A domain is looked up: it is free, or the creation ends here.
LEMMA OwnerCheck ==
  ASSUME TypeInv, OwnerInv, NEW p \in Request, CheckDomain(p) PROVE OwnerInv'
<1>1. /\ env' = env /\ raced' = raced
      /\ \/ req' = [req EXCEPT ![p] = Idle]
         \/ /\ req' = [req EXCEPT ![p].pc = "insert"]
            /\ req[p].model.domain # None => ~\E e \in Env : Live(e) /\ env[e].domain = req[p].model.domain
  BY DEF CheckDomain, Taken
<1>2. \A q \in Request, d \in Domain : Wants(req'[q], d) => Wants(req[q], d)
  BY <1>1 DEF Wants, Idle, Op, TypeInv, TypeOK, RequestState
<1>3. OneOwner' /\ OneCreation'
  BY <1>1, <1>2 DEF OwnerInv, OneOwner, OneCreation, Live
<1>4. ASSUME NEW d \in Domain \ raced', NEW q \in Request, req'[q].pc = "insert", Wants(req'[q], d)
      PROVE  ~\E e \in Env : Live(e)' /\ env'[e].domain = d
  <2>1. CASE q = p
    <3>1. req'[p].pc = "insert" /\ Wants(req[p], d)
      BY <1>2, <1>4, <2>1
    <3>2. Idle.pc = "idle"
      BY DEF Idle
    <3> QED BY <1>1, <3>1, <3>2 DEF Wants, Live, TypeInv, TypeOK
  <2>2. CASE q # p
    <3>1. req[q].pc = "insert"
      BY <1>1, <1>4, <2>2 DEF TypeInv, TypeOK
    <3> QED BY <1>1, <1>2, <1>4, <3>1 DEF OwnerInv, FreeToInsert, Live
  <2> QED BY <2>1, <2>2
<1> QED BY <1>3, <1>4 DEF OwnerInv, FreeToInsert

\* An environment is inserted: nobody else has its domain or is about to.
LEMMA OwnerInsert ==
  ASSUME TypeInv, OwnerInv, NEW p \in Request, Insert(p) PROVE OwnerInv'
<1>1. PICK n \in Env :
        /\ env[n] = None /\ env' = [env EXCEPT ![n] = Inserted(req[p].model)]
        /\ req' = [req EXCEPT ![p].env = n,
                              ![p].pc = IF kind = "tag" THEN "build" ELSE "provider"]
  BY DEF Insert
<1> DEFINE d == req[p].model.domain
<1>2. Hand(req[p], env) /\ req[p].pc = "insert" /\ raced' = raced
  BY DEF Insert, TypeInv, Hands
<1>3. req[p].op = "create" /\ d \in Domain \cup {None}
  BY <1>2 DEF Hand, Model
<1>4. env'[n].domain = d /\ ~Live(n) /\ \A e \in Env \ {n} : env'[e] = env[e]
  BY <1>1 DEF Inserted, Live, TypeInv, TypeOK
<1>5. \A q \in Request, c \in Domain : Wants(req'[q], c) <=> Wants(req[q], c)
  BY <1>1 DEF Wants, TypeInv, TypeOK, RequestState
<1>6. req'[p].pc # "insert" /\ \A q \in Request \ {p} : req'[q] = req[q]
  BY <1>1 DEF TypeInv, TypeOK, RequestState
<1>7. OneCreation'
  BY <1>2, <1>5 DEF OwnerInv, OneCreation
<1>8. d \in Domain \ raced => ~\E e \in Env : Live(e) /\ env[e].domain = d
  BY <1>2, <1>3 DEF OwnerInv, FreeToInsert, Wants
<1>9. OneOwner'
  <2>1. ASSUME NEW e \in Env, NEW f \in Env, Live(e)', Live(f)', e # f,
               env'[e].domain = env'[f].domain
        PROVE  env'[e].domain \in raced \cup {None}
    <3>1. CASE e # n /\ f # n
      BY <1>4, <2>1, <3>1 DEF OwnerInv, OneOwner, Live
    <3>2. CASE e = n \/ f = n
      <4>1. env'[e].domain = d /\ \E g \in Env : Live(g) /\ env[g].domain = d
        BY <1>4, <2>1, <3>2 DEF Live
      <4> QED BY <1>3, <1>8, <4>1
    <3> QED BY <3>1, <3>2
  <2> QED BY <1>2, <2>1 DEF OneOwner
<1>10. ASSUME NEW c \in Domain \ raced, NEW q \in Request, req'[q].pc = "insert", Wants(req'[q], c)
       PROVE  ~\E e \in Env : Live(e)' /\ env'[e].domain = c
  <2>1. q # p /\ req[q].pc = "insert" /\ Wants(req[q], c)
    BY <1>5, <1>6, <1>10
  <2>2. c # d
    BY <1>3, <1>10, <2>1 DEF OwnerInv, OneCreation, Wants
  <2> QED BY <1>4, <1>10, <2>1, <2>2 DEF OwnerInv, FreeToInsert, Live
<1> QED BY <1>2, <1>7, <1>9, <1>10 DEF OwnerInv, FreeToInsert

LEMMA OwnerBegin ==
  ASSUME TypeInv, OwnerInv, NEW p \in Request, NEW r, Begin(p, r), raced' = raced,
         req'[p].pc # "insert", req'[p].op # "create"
  PROVE  OwnerInv'
<1>1. env' = env
  BY DEF Begin
<1>2. \A q \in Request \ {p} : /\ req'[q].pc = req[q].pc /\ req'[q].op = req[q].op
                               /\ req'[q].model = req[q].model
  BY OthersKeep
<1> QED BY <1>1, <1>2, OwnerQuiet DEF Wants, Live

LEMMA OwnerStep == TypeInv /\ OwnerInv /\ [Next]_vars => OwnerInv'
<1> SUFFICES ASSUME TypeInv, OwnerInv, [Next]_vars PROVE OwnerInv'
  OBVIOUS
<1>1. CASE \E r \in Rev : StartEdit(r) \/ EndEdit(r) \/ Unlink(r) \/ Finalise(r)
  <2>1. env' = env /\ raced' = raced
    BY <1>1 DEF StartEdit, EndEdit, Unlink, Change, Finalise
  <2>2. \A q \in Request : /\ req'[q].pc = req[q].pc /\ req'[q].op = req[q].op
                           /\ req'[q].model = req[q].model
    BY <1>1 DEF StartEdit, EndEdit, Unlink, Change, Finalise, TypeInv, TypeOK, RequestState
  <2> QED BY <2>1, <2>2, OwnerQuiet DEF Wants, Live
<1>2. ASSUME NEW p \in Request, BeginUpdate(p) \/ BeginVariable(p) \/ BeginDelete(p) PROVE OwnerInv'
  <2>1. CASE BeginUpdate(p)
    <3>1. /\ raced' = raced
          /\ \E e \in Env, r \in Rev :
               Begin(p, [Idle EXCEPT !.pc = "revision", !.op = "update", !.env = e,
                                     !.rev = r, !.was = Read(e), !.model = Read(e)])
      BY <2>1 DEF BeginUpdate
    <3>2. req'[p].pc = "revision" /\ req'[p].op = "update"
      BY <3>1, ZenonT(30) DEF Begin, Idle
    <3> QED BY <3>1, <3>2, OwnerBegin
  <2>2. CASE BeginVariable(p)
    <3>1. /\ raced' = raced
          /\ \E e \in Env : \E vs :
               Begin(p, [Idle EXCEPT !.pc = "save", !.op = "variable", !.env = e,
                                     !.was = Read(e), !.model = [Read(e) EXCEPT !.vars = vs]])
      BY <2>2 DEF BeginVariable
    <3>2. req'[p].pc = "save" /\ req'[p].op = "variable"
      BY <3>1, ZenonT(30) DEF Begin, Idle
    <3> QED BY <3>1, <3>2, OwnerBegin
  <2>3. CASE BeginDelete(p)
    <3>1. /\ raced' = raced
          /\ \E e \in Env :
               Begin(p, [Idle EXCEPT !.pc = "save", !.op = "delete", !.env = e,
                                     !.was = Read(e), !.model = Read(e)])
      BY <2>3 DEF BeginDelete
    <3>2. req'[p].pc = "save" /\ req'[p].op = "delete"
      BY <3>1, ZenonT(30) DEF Begin, Idle
    <3> QED BY <3>1, <3>2, OwnerBegin
  <2> QED BY <1>2, <2>1, <2>2, <2>3
<1>3. ASSUME NEW p \in Request, Save(p) PROVE OwnerInv'
  <2>1. /\ env' = [env EXCEPT ![req[p].env] = Saved(p)] /\ raced' = raced
        /\ req' = [req EXCEPT ![p].pc = IF req[p].op = "delete" THEN "done" ELSE "build"]
        /\ req[p].pc = "save"
    BY <1>3 DEF Save
  <2>2. ASSUME NEW e \in Env, Live(e)'
        PROVE  Live(e) /\ env'[e].domain = env[e].domain
    <3>1. CASE e = req[p].env
      <4>1. env[e] \in Document /\ env'[e] = Saved(p) /\ Saved(p).domain = env[e].domain
        BY <2>1, <3>1, SavedType DEF TypeInv, TypeOK
      <4>2. ~Saved(p).deleted
        BY <2>2, <4>1 DEF Live
      <4>3. ~env[e].deleted
        BY <2>1, <3>1, <4>2, SavedType
      <4>4. env[e] # None
        BY <4>1, NoneAssumption
      <4> QED BY <4>1, <4>3, <4>4 DEF Live
    <3>2. CASE e # req[p].env
      BY <2>1, <2>2, <3>2 DEF Live, TypeInv, TypeOK
    <3> QED BY <3>1, <3>2
  <2>3. \A q \in Request : /\ req'[q].op = req[q].op /\ req'[q].model = req[q].model
                           /\ req'[q].pc = "insert" => req[q].pc = "insert"
    BY <2>1 DEF TypeInv, TypeOK, RequestState
  <2> QED BY <2>1, <2>2, <2>3, OwnerQuiet DEF Wants
<1>4. ASSUME NEW p \in Request,
             \/ ReadRevision(p) \/ PutProvider(p) \/ Build(p) \/ Put(p) \/ PutDomain(p)
             \/ Return(p) \/ Fail(p)
      PROVE  OwnerInv'
  <2>1. env' = env /\ raced' = raced
    BY <1>4 DEF ReadRevision, PutProvider, Build, Put, PutDomain, Return, Fail
  <2>2. /\ req' = [req EXCEPT ![p] = req'[p]]
        /\ \/ req'[p] = Idle
           \/ /\ req'[p].op = req[p].op /\ req'[p].model.domain = req[p].model.domain
              /\ req'[p].pc # "insert"
    <3>1. CASE ReadRevision(p)
      <4>1. req[p].model \in Model
        BY <3>1 DEF ReadRevision, TypeInv, Hands, Hand
      <4> QED BY <3>1, <4>1 DEF ReadRevision, TypeInv, TypeOK, RequestState, Model
    <3>2. CASE PutProvider(p) \/ Build(p) \/ Put(p) \/ PutDomain(p)
      BY <3>2 DEF PutProvider, Build, Put, PutDomain, TypeInv, TypeOK, RequestState
    <3>3. CASE Return(p) \/ Fail(p)
      BY <3>3 DEF Return, Fail, TypeInv, TypeOK
    <3> QED BY <1>4, <3>1, <3>2, <3>3
  <2>3. \A q \in Request, d \in Domain : Wants(req'[q], d) => Wants(req[q], d)
    BY <2>2 DEF Wants, Idle, Op, TypeInv, TypeOK
  <2>4. \A q \in Request : req'[q].pc = "insert" => req[q].pc = "insert"
    BY <2>2 DEF Idle, TypeInv, TypeOK
  <2> QED BY <2>1, <2>3, <2>4, OwnerQuiet DEF Live
<1>5. CASE UNCHANGED vars
  BY <1>5 DEF vars, OwnerInv, OneOwner, OneCreation, FreeToInsert, Live, Wants
<1> QED BY <1>1, <1>2, <1>3, <1>4, <1>5, OwnerCreate, OwnerCheck, OwnerInsert DEF Next, Handle

\* A custom domain has one live owner, unless two creations for it were in progress at
\* once (createEnvironment looks the domain up before it inserts).
THEOREM OneOwnerCorrect == Spec => []OneOwner
<1>1. OwnerInv => OneOwner
  BY DEF OwnerInv
<1> QED BY <1>1, TypeInvariance, OwnerInit, OwnerStep, PTL DEF Spec

-----------------------------------------------------------------------------
(* What is published.                                                      *)

\* What was taken from a revision after it was final, and not after now.
Frozen(c) == final[c.rev] /\ c.content \in sealed[c.rev] .. content[c.rev]

\* With tag environments: documents, and requests past their check, have final
\* revisions; what was built and what is in the bucket is frozen.
FinalInv ==
    kind = "tag" =>
        /\ \A e \in Env : env[e] # None => final[env[e].rev]
        /\ \A p \in Request :
              /\ req[p].pc \notin {"idle", "revision"} => final[req[p].model.rev]
              /\ req[p].pc \in {"put", "buildDomain", "putDomain"} => Frozen(req[p].config)
        /\ \A f \in File : bucket[f] # None => Frozen(bucket[f])

LEMMA FinalInit == Init => FinalInv
BY DEF Init, FinalInv, Idle

\* Revisions only become final, once, and their content only moves on.
LEMMA FrozenStays ==
  ASSUME TypeInv, [Next]_vars, NEW c \in Config, Frozen(c) PROVE Frozen(c)'
<1>1. c.rev \in Rev
  BY DEF Config
<1>2. CASE \E r \in Rev : StartEdit(r) \/ EndEdit(r) \/ Unlink(r) \/ Finalise(r)
  <2>1. /\ final[c.rev] /\ c.content \in sealed[c.rev] .. content[c.rev]
        /\ content \in [Rev -> 0 .. MaxEdits]
    BY DEF Frozen, TypeInv, TypeOK
  <2>2. final'[c.rev] /\ sealed'[c.rev] = sealed[c.rev]
    BY <1>1, <1>2, <2>1 DEF StartEdit, EndEdit, Unlink, Change, Finalise, TypeInv, TypeOK
  <2>3. content'[c.rev] \in {content[c.rev], content[c.rev] + 1}
    BY <1>1, <1>2, <2>1 DEF StartEdit, EndEdit, Unlink, Change, Finalise
  <2>4. content[c.rev] \in Nat /\ sealed[c.rev] \in Nat /\ c.content \in Nat
    BY <1>1, <2>1 DEF TypeInv, TypeOK, Config
  <2> QED BY <2>1, <2>2, <2>3, <2>4 DEF Frozen
<1>3. CASE UNCHANGED revisions
  BY <1>3 DEF revisions, Frozen
<1> QED BY <1>2, <1>3, Movers

LEMMA FinalStays ==
  ASSUME TypeInv, [Next]_vars PROVE \A r \in Rev : final[r] => final'[r]
<1>1. CASE \E r \in Rev : StartEdit(r) \/ EndEdit(r) \/ Unlink(r) \/ Finalise(r)
  BY <1>1 DEF StartEdit, EndEdit, Unlink, Change, Finalise, TypeInv, TypeOK
<1>2. CASE UNCHANGED revisions
  BY <1>2 DEF revisions
<1> QED BY <1>1, <1>2, Movers

\* The three parts of FinalInv.
LEMMA DocumentsFinal ==
  ASSUME TypeInv, FinalInv, kind = "tag", [Next]_vars, NEW e \in Env, env'[e] # None
  PROVE  final'[env'[e].rev]
<1>1. CASE env'[e] = env[e]
  BY <1>1, FinalStays DEF FinalInv, TypeInv, TypeOK, Document
<1>2. CASE env'[e] # env[e]
  <2>1. PICK p \in Request : Insert(p) \/ Save(p)
    BY <1>2, Movers
  <2>2. /\ Hand(req[p], env) /\ req[p].pc \in {"insert", "save"}
        /\ final[req[p].model.rev] /\ req[p].model \in Model /\ final' = final
    BY <2>1 DEF TypeInv, Hands, Hand, Insert, Save, FinalInv, revisions
  <2>3. CASE Insert(p)
    BY <1>2, <2>2, <2>3 DEF Insert, Inserted, TypeInv, TypeOK
  <2>4. CASE Save(p)
    <3>1. e = req[p].env /\ env'[e] = Saved(p)
      BY <1>2, <2>2, <2>4 DEF Save, TypeInv, TypeOK
    <3>2. env[e] # None
      BY <2>4, <3>1, SavedType, NoneAssumption DEF Save
    <3> QED BY <2>2, <2>4, <3>1, <3>2, SavedType DEF FinalInv, Save
  <2> QED BY <2>1, <2>3, <2>4
<1> QED BY <1>1, <1>2

LEMMA FilesFrozen ==
  ASSUME TypeInv, FinalInv, kind = "tag", [Next]_vars, NEW f \in File, bucket'[f] # None
  PROVE  Frozen(bucket[f])'
<1>1. CASE bucket'[f] = bucket[f]
  BY <1>1, FrozenStays DEF FinalInv, Frozen, TypeInv, TypeOK
<1>2. CASE bucket'[f] # bucket[f]
  <2>1. PICK p \in Request : Put(p) \/ PutDomain(p)
    BY <1>2, Movers
  <2>2. bucket'[f] = req[p].config /\ req[p].pc \in {"put", "putDomain"}
    BY <1>2, <2>1 DEF Put, PutDomain, TypeInv, TypeOK
  <2>3. Frozen(req[p].config) /\ UNCHANGED revisions
    BY <2>1, <2>2 DEF FinalInv, Put, PutDomain
  <2> QED BY <2>2, <2>3 DEF Frozen, revisions
<1> QED BY <1>1, <1>2

\* A revision has the content it had when it became final, or more.
LEMMA SealedPast ==
  ASSUME TypeInv, NEW r \in Rev
  PROVE  sealed[r] \in 0 .. content[r] /\ content[r] \in Nat
BY DEF TypeInv, TypeOK, EditsInv

Held(p) ==
    /\ req[p].pc \notin {"idle", "revision"} => final[req[p].model.rev]
    /\ req[p].pc \in {"put", "buildDomain", "putDomain"} => Frozen(req[p].config)

\* A request that goes on with what it had.
LEMMA HeldCarried ==
  ASSUME TypeInv, [Next]_vars, NEW p \in Request, Held(p),
         req'[p].model = req[p].model, req[p].pc # "idle", req[p].pc # "revision",
         req'[p].pc \in {"put", "buildDomain", "putDomain"} =>
             /\ req[p].pc \in {"put", "buildDomain", "putDomain"}
             /\ req'[p].config = req[p].config
  PROVE  Held(p)'
<1>1. Hand(req[p], env)
  BY DEF TypeInv, Hands
<1>2. final'[req'[p].model.rev]
  BY <1>1, FinalStays DEF Held, Hand, Model
<1>3. ASSUME req'[p].pc \in {"put", "buildDomain", "putDomain"} PROVE Frozen(req[p].config)'
  <2>1. Frozen(req[p].config) /\ req'[p].config = req[p].config
    BY <1>3 DEF Held
  <2>2. req[p].config \in Config
    BY <1>1, <1>3 DEF Hand
  <2> QED BY <2>1, <2>2, FrozenStays DEF Frozen
<1> QED BY <1>2, <1>3 DEF Held

\* A request that does not move.
LEMMA HeldStays ==
  ASSUME TypeInv, [Next]_vars, NEW p \in Request, Held(p),
         req'[p].pc = req[p].pc, req'[p].model = req[p].model, req'[p].config = req[p].config
  PROVE  Held(p)'
<1>1. CASE req[p].pc \in {"idle", "revision"}
  BY <1>1 DEF Held
<1>2. CASE req[p].pc \notin {"idle", "revision"}
  BY <1>2, HeldCarried
<1> QED BY <1>1, <1>2

\* A request that begins: it has the environment as it is, or has still to check.
LEMMA KeysOf ==
  ASSUME TypeInv, NEW e \in Env, Live(e), NEW k \in Key
  PROVE  {env[e].vars \cup {k}, env[e].vars \ {k}} \subseteq SUBSET Key
BY DEF TypeInv, TypeOK, Live, Document

LEMMA HeldBegun ==
  ASSUME TypeInv, FinalInv, kind = "tag", NEW p \in Request,
         BeginCreate(p) \/ BeginUpdate(p) \/ BeginVariable(p) \/ BeginDelete(p)
  PROVE  Held(p)'
<1>1. CASE BeginCreate(p) \/ BeginUpdate(p)
  <2>1. req'[p].pc = "revision"
    BY <1>1, ZenonT(30) DEF BeginCreate, BeginUpdate, Begin, Idle
  <2> QED BY <2>1 DEF Held
<1>2. CASE BeginVariable(p) \/ BeginDelete(p)
  <2>1. PICK e \in Env : Live(e) /\ req'[p].pc = "save" /\ req'[p].model.rev = env[e].rev
    <3>1. CASE BeginVariable(p)
      <4>1. PICK e \in Env, vs \in SUBSET Key :
              /\ Live(e)
              /\ Begin(p, [Idle EXCEPT !.pc = "save", !.op = "variable", !.env = e,
                                       !.was = Read(e), !.model = [Read(e) EXCEPT !.vars = vs]])
        BY <3>1, KeysOf DEF BeginVariable
      <4>2. \E b \in BOOLEAN :
              req'[p] = [pc |-> "save", op |-> "variable", env |-> e, rev |-> None,
                         was |-> Read(e), model |-> [Read(e) EXCEPT !.vars = vs],
                         config |-> None, alone |-> b]
        BY <4>1 DEF Begin, Idle
      <4> QED BY <4>1, <4>2 DEF Read
    <3>2. CASE BeginDelete(p)
      <4>1. PICK e \in Env :
              /\ Live(e)
              /\ Begin(p, [Idle EXCEPT !.pc = "save", !.op = "delete", !.env = e,
                                       !.was = Read(e), !.model = Read(e)])
        BY <3>2 DEF BeginDelete
      <4>2. \E b \in BOOLEAN :
              req'[p] = [pc |-> "save", op |-> "delete", env |-> e, rev |-> None,
                         was |-> Read(e), model |-> Read(e), config |-> None, alone |-> b]
        BY <4>1 DEF Begin, Idle
      <4> QED BY <4>1, <4>2 DEF Read
    <3> QED BY <1>2, <3>1, <3>2
  <2>2. UNCHANGED revisions
    BY <1>2 DEF BeginVariable, BeginDelete, Begin
  <2> QED BY <2>1, <2>2 DEF Held, FinalInv, Live, revisions
<1> QED BY <1>1, <1>2

\* A request that moves.
LEMMA HeldMoved ==
  ASSUME TypeInv, FinalInv, kind = "tag", [Next]_vars, NEW p \in Request, Handle(p) \/ Fail(p)
  PROVE  Held(p)'
<1>1. Held(p) /\ req[p] \in RequestState /\ Hand(req[p], env)
  BY DEF FinalInv, Held, TypeInv, TypeOK, Hands
<1>2. CASE ReadRevision(p)
  <2>1. CASE req'[p] = Idle
    BY <2>1 DEF Held, Idle
  <2>2. CASE req'[p] # Idle
    <3>1. /\ final[req[p].rev] /\ UNCHANGED revisions
          /\ req'[p] = [req[p] EXCEPT !.pc = IF req[p].op = "create" THEN "domain" ELSE "save",
                                      !.model.rev = req[p].rev]
      BY <1>2, <2>2 DEF ReadRevision, Attachable, TypeInv, TypeOK
    <3>2. req[p].model \in Model
      BY <1>1, <1>2 DEF ReadRevision, Hand
    <3>3. req'[p].pc \in {"domain", "save"} /\ req'[p].model.rev = req[p].rev
      BY <1>1, <3>1, <3>2 DEF RequestState, Model
    <3> QED BY <3>1, <3>3 DEF Held, revisions
  <2> QED BY <2>1, <2>2
<1>3. CASE CheckDomain(p) \/ Insert(p) \/ PutProvider(p) \/ Save(p) \/ Put(p) \/ PutDomain(p)
  <2>1. CASE req'[p] = Idle
    BY <2>1 DEF Held, Idle
  <2>2. CASE req'[p] # Idle
    <3>1. /\ req'[p].pc \in {"put", "buildDomain", "putDomain"} => req[p].pc = "put"
          /\ req'[p].model = req[p].model /\ req'[p].config = req[p].config
      <4>1. CASE CheckDomain(p)
        <5>1. req'[p] = [req[p] EXCEPT !.pc = "insert"]
          BY <2>2, <4>1 DEF CheckDomain, TypeInv, TypeOK
        <5> QED BY <1>1, <4>1, <5>1 DEF CheckDomain, RequestState
      <4>2. CASE Insert(p)
        <5>1. PICK e \in Env :
                 req' = [req EXCEPT ![p].env = e,
                                    ![p].pc = IF kind = "tag" THEN "build" ELSE "provider"]
          BY <4>2 DEF Insert
        <5>2. req'[p] = [req[p] EXCEPT !.env = e,
                                       !.pc = IF kind = "tag" THEN "build" ELSE "provider"]
          BY <5>1 DEF TypeInv, TypeOK
        <5> QED BY <1>1, <5>2 DEF RequestState
      <4>3. CASE PutProvider(p)
        <5>1. req'[p] = [req[p] EXCEPT !.pc = "build"]
          BY <2>2, <4>3 DEF PutProvider, TypeInv, TypeOK
        <5> QED BY <1>1, <4>3, <5>1 DEF PutProvider, RequestState
      <4>4. CASE Save(p)
        <5>1. req'[p] = [req[p] EXCEPT !.pc = IF req[p].op = "delete" THEN "done" ELSE "build"]
          BY <2>2, <4>4 DEF Save, TypeInv, TypeOK
        <5> QED BY <1>1, <4>4, <5>1 DEF Save, RequestState
      <4>5. CASE Put(p)
        <5>1. req'[p] = [req[p] EXCEPT !.pc = IF req[p].model.domain = None THEN "done"
                                         ELSE IF kind = "tag" THEN "buildDomain"
                                         ELSE "putDomain"]
          BY <2>2, <4>5 DEF Put, TypeInv, TypeOK
        <5> QED BY <1>1, <4>5, <5>1 DEF Put, RequestState
      <4>6. CASE PutDomain(p)
        <5>1. req'[p] = [req[p] EXCEPT !.pc = "done"]
          BY <2>2, <4>6 DEF PutDomain, TypeInv, TypeOK
        <5> QED BY <1>1, <4>6, <5>1 DEF PutDomain, RequestState
      <4> QED BY <1>3, <4>1, <4>2, <4>3, <4>4, <4>5, <4>6
    <3>2. req[p].pc \notin {"idle", "revision"}
      BY <1>3 DEF CheckDomain, Insert, PutProvider, Save, Put, PutDomain
    <3> QED BY <1>1, <3>1, <3>2, HeldCarried
  <2> QED BY <2>1, <2>2
<1>4. CASE Build(p)
  <2>1. /\ req[p].pc \in {"build", "buildDomain"} /\ UNCHANGED revisions
        /\ req'[p].config = Built(p) /\ req'[p].model = req[p].model
    BY <1>1, <1>4 DEF Build, TypeInv, TypeOK, RequestState
  <2>2. final[req[p].model.rev]
    BY <1>1, <2>1 DEF Held
  <2>3. Frozen(Built(p))
    <3>1. req[p].model \in Model /\ Built(p).rev = req[p].model.rev
          /\ Built(p).content = content[Built(p).rev]
      BY <2>1 DEF TypeInv, Hands, Hand, Built
    <3>2. sealed[Built(p).rev] \in 0 .. content[Built(p).rev] /\ content[Built(p).rev] \in Nat
      BY <2>2, <3>1, SealedPast DEF Model
    <3> QED BY <2>2, <3>1, <3>2 DEF Frozen
  <2> QED BY <2>1, <2>2, <2>3 DEF Held, Frozen, revisions
<1>5. CASE Return(p) \/ Fail(p)
  <2>1. req'[p] = Idle
    BY <1>5 DEF Return, Fail, TypeInv, TypeOK
  <2> QED BY <2>1 DEF Held, Idle
<1> QED BY <1>2, <1>3, <1>4, <1>5 DEF Handle

LEMMA RequestsHold ==
  ASSUME TypeInv, FinalInv, kind = "tag", [Next]_vars, NEW p \in Request PROVE Held(p)'
<1>1. Held(p) /\ req[p] \in RequestState
  BY DEF FinalInv, Held, TypeInv, TypeOK
<1>2. CASE \E r \in Rev : StartEdit(r) \/ EndEdit(r) \/ Unlink(r) \/ Finalise(r)
  <2>1. req'[p].pc = req[p].pc /\ req'[p].model = req[p].model /\ req'[p].config = req[p].config
    BY <1>1, <1>2 DEF StartEdit, EndEdit, Unlink, Change, Finalise, RequestState
  <2> QED BY <1>1, <2>1, HeldStays
<1>3. ASSUME NEW q \in Request,
             BeginCreate(q) \/ BeginUpdate(q) \/ BeginVariable(q) \/ BeginDelete(q)
      PROVE  Held(p)'
  <2>1. CASE q = p
    BY <1>3, <2>1, HeldBegun
  <2>2. CASE q # p
    <3>1. req'[p] = [req[p] EXCEPT !.alone = FALSE]
      BY <1>3, <2>2 DEF BeginCreate, BeginUpdate, BeginVariable, BeginDelete, Begin
    <3>2. req'[p].pc = req[p].pc /\ req'[p].model = req[p].model /\ req'[p].config = req[p].config
      BY <1>1, <3>1 DEF RequestState
    <3> QED BY <1>1, <3>2, HeldStays
  <2> QED BY <2>1, <2>2
<1>4. ASSUME NEW q \in Request, Handle(q) \/ Fail(q) PROVE Held(p)'
  <2>1. CASE q = p
    BY <1>4, <2>1, HeldMoved
  <2>2. CASE q # p
    <3>1. req'[p] = req[p]
      BY <1>4, <2>2 DEF Handle, ReadRevision, CheckDomain, Insert, PutProvider, Save, Build,
                        Put, PutDomain, Return, Fail, TypeInv, TypeOK
    <3> QED BY <1>1, <3>1, HeldStays
  <2> QED BY <2>1, <2>2
<1>5. CASE UNCHANGED vars
  BY <1>1, <1>5, HeldStays DEF vars
<1> QED BY <1>2, <1>3, <1>4, <1>5 DEF Next

LEMMA FinalStep == TypeInv /\ FinalInv /\ [Next]_vars => FinalInv'
<1> SUFFICES ASSUME TypeInv, FinalInv, [Next]_vars, kind' = "tag" PROVE FinalInv'
  BY DEF FinalInv
<1>1. kind = "tag"
  BY Movers
<1>2. \A e \in Env : env'[e] # None => final'[env'[e].rev]
  BY <1>1, DocumentsFinal
<1>3. \A p \in Request : Held(p)'
  BY <1>1, RequestsHold
<1>4. \A f \in File : bucket'[f] # None => Frozen(bucket[f])'
  BY <1>1, FilesFrozen
<1> QED BY <1>2, <1>3, <1>4 DEF FinalInv, Held

\* Tag clients are served final revisions only, as they were when they became final but
\* for edits that had passed their check by then and the unlinking of deleted entities.
THEOREM PublishedIsFinalCorrect == Spec => []PublishedIsFinal
<1>1. TypeInv /\ FinalInv => PublishedIsFinal
  <2> SUFFICES ASSUME TypeInv, FinalInv, kind = "tag", NEW f \in File, bucket[f] # None,
                      NEW r, r = bucket[f].rev
               PROVE  /\ final[r]
                      /\ bucket[f].content \in sealed[r] .. sealed[r] + late[r] + cuts[r]
    BY DEF PublishedIsFinal
  <2>1. /\ r \in Rev /\ final[r] /\ bucket[f].content \in sealed[r] .. content[r]
    BY DEF FinalInv, Frozen, TypeInv, TypeOK, Config
  <2>2. /\ content[r] \in Nat /\ editing[r] \in Nat /\ sealed[r] \in Nat /\ late[r] \in Nat
        /\ cuts[r] \in Nat /\ content[r] + editing[r] = sealed[r] + late[r] + cuts[r]
    BY <2>1 DEF TypeInv, TypeOK, EditsInv
  <2> QED BY <2>1, <2>2
<1> QED BY <1>1, TypeInvariance, FinalInit, FinalStep, PTL DEF Spec
-----------------------------------------------------------------------------
(* A request that runs alone.                                              *)

\* What it has read and written is what the database and the bucket have.
OnDisk == {"provider", "build", "put", "buildDomain", "putDomain"}
Kept(r) == r.pc \in OnDisk \/ (r.pc = "done" /\ r.op # "delete")
Fits(r) ==
    /\ r.op = "delete" => r.pc \in {"save", "done"}
    /\ r.pc = "save" \/ (r.pc = "revision" /\ r.op = "update") =>
          r.was = Read(r.env) /\ r.model.domain = r.was.domain
    /\ Kept(r) => r.model = Read(r.env)
    /\ r.pc = "done" /\ r.op = "delete" => env[r.env].deleted
    /\ r.pc \in {"put", "putDomain"} => r.config = Deployed(r.env)
    /\ Kept(r) /\ r.pc \in {"buildDomain", "putDomain", "done"} =>
          bucket[r.env] = Deployed(r.env)
    /\ Kept(r) /\ r.pc = "done" /\ r.model.domain # None =>
          bucket[r.model.domain] = Deployed(r.env)
AloneInv ==
    \A p \in Request : req[p].alone =>
        Fits(req[p]) /\ \A q \in Request \ {p} : req[q].pc = "idle"

\* A step of a request that has begun, for which the request itself has to answer.
LEMMA AloneHandled ==
  ASSUME TypeInv, AloneInv, NEW p \in Request, req[p].pc # "idle",
         NEW new, req' = [req EXCEPT ![p] = new],
         new.alone => req[p].alone /\ Fits(new)'
  PROVE  AloneInv'
<1>1. req'[p] = new /\ \A q \in Request \ {p} : req'[q] = req[q]
  BY DEF TypeInv, TypeOK
<1>2. \A q \in Request \ {p} : ~req[q].alone
  BY DEF AloneInv
<1>3. ASSUME NEW q \in Request, req'[q].alone
      PROVE  Fits(req[q])' /\ \A o \in Request \ {q} : req'[o].pc = "idle"
  <2>1. q = p /\ new.alone
    BY <1>1, <1>2, <1>3
  <2>2. \A o \in Request \ {p} : req'[o].pc = "idle"
    BY <1>1, <2>1 DEF AloneInv
  <2>3. Fits(req[q])'
    BY <1>1, <2>1 DEF Fits, Kept
  <2> QED BY <2>1, <2>2, <2>3
<1> QED BY <1>3 DEF AloneInv

\* A request begins: the others are no longer alone.
LEMMA AloneBegun ==
  ASSUME TypeInv, NEW p \in Request, NEW r \in RequestState, Begin(p, r),
         r.pc # "idle", Fits(r)
  PROVE  AloneInv'
<1> DEFINE b == \A q \in Request : req[q].pc = "idle"
<1>1. /\ req'[p] = [r EXCEPT !.alone = b]
      /\ \A q \in Request \ {p} : req'[q] = [req[q] EXCEPT !.alone = FALSE]
  BY DEF Begin
<1>2. UNCHANGED <<env, content, provider, bucket>>
  BY DEF Begin, revisions
<1>3. ASSUME NEW q \in Request \ {p} PROVE ~req'[q].alone /\ req'[q].pc = req[q].pc
  <2>1. req'[q] = [req[q] EXCEPT !.alone = FALSE] /\ req[q] \in RequestState
    BY <1>1 DEF TypeInv, TypeOK
  <2> QED BY <2>1 DEF RequestState
<1> HIDE DEF b
<1>4. /\ req'[p].pc = r.pc /\ req'[p].op = r.op /\ req'[p].env = r.env
      /\ req'[p].was = r.was /\ req'[p].model = r.model /\ req'[p].config = r.config
      /\ req'[p].alone = b
  BY <1>1 DEF RequestState
<1>5. PICK new : new = req'[p]
  OBVIOUS
<1>6. Fits(new)'
  BY <1>2, <1>4, <1>5 DEF Fits, Kept, Read, Deployed
<1>7. Fits(req[p])'
  BY <1>5, <1>6
<1>8. b => \A q \in Request \ {p} : req'[q].pc = "idle"
  BY <1>3 DEF b
<1> QED BY <1>3, <1>4, <1>7, <1>8 DEF AloneInv

LEMMA AloneCreates == ASSUME TypeInv, NEW p \in Request, BeginCreate(p) PROVE AloneInv'
<1>1. PICK r \in Rev, d \in Domain \cup {None}, vs \in SUBSET Key :
      /\ Begin(p, [Idle EXCEPT !.pc = "revision", !.op = "create", !.rev = r,
                               !.model = [rev |-> r, domain |-> d, vars |-> vs]])
      /\ raced' = IF \E o \in Request : req[o].op = "create" /\ req[o].model.domain = d
                  THEN raced \cup ({d} \ {None}) ELSE raced
  BY DEF BeginCreate
<1> DEFINE new == [Idle EXCEPT !.pc = "revision", !.op = "create", !.rev = r,
                               !.model = [rev |-> r, domain |-> d, vars |-> vs]]
<1>2. new \in RequestState /\ new.pc = "revision" /\ new.op = "create"
  BY DEF Idle, RequestState, Pc, Op, Model
<1> HIDE DEF new
<1>3. Fits(new)
  BY <1>2 DEF Fits, Kept, OnDisk
<1>4. Begin(p, new)
  BY <1>1 DEF new
<1> QED BY <1>2, <1>3, <1>4, AloneBegun

LEMMA AloneUpdates == ASSUME TypeInv, NEW p \in Request, BeginUpdate(p) PROVE AloneInv'
<1>1. PICK e \in Env, r \in Rev :
      /\ Live(e) /\ raced' = raced
      /\ Begin(p, [Idle EXCEPT !.pc = "revision", !.op = "update", !.env = e,
                               !.rev = r, !.was = Read(e), !.model = Read(e)])
  BY DEF BeginUpdate
<1> DEFINE new == [Idle EXCEPT !.pc = "revision", !.op = "update", !.env = e,
                               !.rev = r, !.was = Read(e), !.model = Read(e)]
<1>2. Read(e) \in Model
  BY <1>1, ReadType
<1>3. /\ new \in RequestState /\ new.pc = "revision" /\ new.op = "update"
      /\ new.env = e /\ new.was = Read(e) /\ new.model = Read(e)
  BY <1>2 DEF Idle, RequestState, Pc, Op
<1> HIDE DEF new
<1>4. Fits(new)
  BY <1>3 DEF Fits, Kept, OnDisk
<1>5. Begin(p, new)
  BY <1>1 DEF new
<1> QED BY <1>3, <1>4, <1>5, AloneBegun

LEMMA AloneVariables == ASSUME TypeInv, NEW p \in Request, BeginVariable(p) PROVE AloneInv'
<1>1. PICK e \in Env, k \in Key :
        \E vs \in {env[e].vars \cup {k}, env[e].vars \ {k}} :
          /\ Live(e) /\ raced' = raced
          /\ Begin(p, [Idle EXCEPT !.pc = "save", !.op = "variable", !.env = e,
                                   !.was = Read(e), !.model = [Read(e) EXCEPT !.vars = vs]])
  BY DEF BeginVariable
<1>2. PICK vs \in {env[e].vars \cup {k}, env[e].vars \ {k}} :
          Begin(p, [Idle EXCEPT !.pc = "save", !.op = "variable", !.env = e,
                                !.was = Read(e), !.model = [Read(e) EXCEPT !.vars = vs]])
  BY <1>1
<1>3. Read(e) \in Model /\ vs \in SUBSET Key
  BY <1>1, <1>2, ReadType DEF Document
<1> DEFINE m == [Read(e) EXCEPT !.vars = vs]
<1>4. m \in Model /\ m.domain = Read(e).domain
  BY <1>3 DEF Model
<1> HIDE DEF m
<1> DEFINE new == [Idle EXCEPT !.pc = "save", !.op = "variable", !.env = e,
                               !.was = Read(e), !.model = m]
<1>5. /\ new \in RequestState /\ new.pc = "save"
      /\ new.op = "variable" /\ new.env = e /\ new.was = Read(e) /\ new.model = m
  BY <1>3, <1>4 DEF Idle, RequestState, Pc, Op
<1>6. Begin(p, new)
  BY <1>2 DEF m
<1> HIDE DEF new
<1>7. Fits(new)
  BY <1>4, <1>5 DEF Fits, Kept, OnDisk
<1> QED BY <1>5, <1>6, <1>7, AloneBegun

LEMMA AloneDeletes == ASSUME TypeInv, NEW p \in Request, BeginDelete(p) PROVE AloneInv'
<1>1. PICK e \in Env :
      /\ Live(e) /\ raced' = raced
      /\ Begin(p, [Idle EXCEPT !.pc = "save", !.op = "delete", !.env = e,
                               !.was = Read(e), !.model = Read(e)])
  BY DEF BeginDelete
<1> DEFINE new == [Idle EXCEPT !.pc = "save", !.op = "delete", !.env = e,
                               !.was = Read(e), !.model = Read(e)]
<1>2. Read(e) \in Model
  BY <1>1, ReadType
<1>3. /\ new \in RequestState /\ new.pc = "save"
      /\ new.env = e /\ new.was = Read(e) /\ new.model = Read(e)
  BY <1>2 DEF Idle, RequestState, Pc, Op
<1> HIDE DEF new
<1>4. Fits(new)
  BY <1>3 DEF Fits, Kept, OnDisk
<1>5. Begin(p, new)
  BY <1>1 DEF new
<1> QED BY <1>3, <1>4, <1>5, AloneBegun

LEMMA AloneReads ==
  ASSUME TypeInv, AloneInv, NEW p \in Request, ReadRevision(p) \/ CheckDomain(p)
  PROVE  AloneInv'
<1>1. req[p] \in RequestState /\ Hand(req[p], env) /\ req[p].pc \in {"revision", "domain"}
  BY DEF TypeInv, TypeOK, Hands, ReadRevision, CheckDomain
<1>2. UNCHANGED <<env, content, provider, bucket>>
  BY DEF ReadRevision, CheckDomain, revisions
<1>3. CASE req' = [req EXCEPT ![p] = Idle]
  BY <1>1, <1>3, AloneHandled DEF Idle
<1>4. CASE ReadRevision(p) /\ req' # [req EXCEPT ![p] = Idle]
  <2> DEFINE new == [req[p] EXCEPT !.pc = IF req[p].op = "create" THEN "domain" ELSE "save",
                                   !.model.rev = req[p].rev]
  <2>1. req' = [req EXCEPT ![p] = new] /\ req[p].pc = "revision"
    BY <1>4 DEF ReadRevision
  <2>2. req[p].model \in Model /\ req[p].op \in {"create", "update"}
    BY <1>1, <2>1 DEF Hand
  <2>3. /\ new.pc = IF req[p].op = "create" THEN "domain" ELSE "save"
        /\ new.op = req[p].op /\ new.env = req[p].env /\ new.was = req[p].was
        /\ new.alone = req[p].alone /\ new.model.domain = req[p].model.domain
    BY <1>1, <2>2 DEF RequestState, Model
  <2> HIDE DEF new
  <2>4. PICK r : r = new
    OBVIOUS
  <2>5. req[p].alone => Fits(r)'
    <3> SUFFICES ASSUME req[p].alone PROVE Fits(r)'
      OBVIOUS
    <3>1. Fits(req[p])
      BY DEF AloneInv
    <3>2. req[p].op = "update" => r.was = Read(r.env) /\ r.model.domain = r.was.domain
      BY <2>1, <2>3, <2>4, <3>1 DEF Fits
    <3> QED BY <1>2, <2>2, <2>3, <2>4, <3>2 DEF Fits, Kept, OnDisk, Read
  <2> QED BY <1>1, <2>1, <2>3, <2>4, <2>5, AloneHandled
<1>5. CASE CheckDomain(p) /\ req' # [req EXCEPT ![p] = Idle]
  <2> DEFINE new == [req[p] EXCEPT !.pc = "insert"]
  <2>1. req' = [req EXCEPT ![p] = new] /\ req[p].pc = "domain"
    BY <1>5 DEF CheckDomain
  <2>2. new.pc = "insert" /\ new.alone = req[p].alone /\ new.op = "create"
    BY <1>1, <2>1 DEF RequestState, Hand
  <2> HIDE DEF new
  <2>3. PICK r : r = new
    OBVIOUS
  <2>4. Fits(r)'
    BY <2>2, <2>3 DEF Fits, Kept, OnDisk
  <2> QED BY <1>1, <2>1, <2>2, <2>3, <2>4, AloneHandled
<1> QED BY <1>3, <1>4, <1>5

LEMMA AloneInserts ==
  ASSUME TypeInv, AloneInv, NEW p \in Request, Insert(p) PROVE AloneInv'
<1>1. PICK e \in Env :
        /\ env' = [env EXCEPT ![e] = Inserted(req[p].model)]
        /\ req' = [req EXCEPT ![p].env = e,
                              ![p].pc = IF kind = "tag" THEN "build" ELSE "provider"]
  BY DEF Insert
<1> DEFINE c == IF kind = "tag" THEN "build" ELSE "provider"
           new == [req[p] EXCEPT !.env = e, !.pc = c]
<1>2. req[p] \in RequestState /\ Hand(req[p], env) /\ req[p].pc = "insert"
  BY DEF TypeInv, TypeOK, Hands, Insert
<1>3. req' = [req EXCEPT ![p] = new]
  BY <1>1, <1>2 DEF TypeInv, TypeOK
<1>4. c \in {"build", "provider"}
  OBVIOUS
<1> HIDE DEF c
<1>5. /\ new.pc = c /\ new.env = e /\ new.model = req[p].model /\ new.alone = req[p].alone
      /\ new.op = "create"
  BY <1>2 DEF RequestState, Hand
<1>6. req[p].model \in Model
  BY <1>2 DEF Hand
<1>7. Read(e)' = req[p].model
  <2>1. env'[e] = Inserted(req[p].model)
    BY <1>1 DEF TypeInv, TypeOK
  <2> QED BY <1>6, <2>1 DEF Read, Inserted, Model
<1> HIDE DEF new
<1>8. PICK r : r = new
  OBVIOUS
<1>9. Fits(r)'
  BY <1>4, <1>5, <1>7, <1>8 DEF Fits, Kept
<1> QED BY <1>2, <1>3, <1>5, <1>8, <1>9, AloneHandled

\* What Repo.save writes is the document in memory, if that was read from the one saved.
LEMMA SavedWhole ==
  ASSUME TypeInv, NEW p \in Request, req[p].pc = "save", req[p].was = Read(req[p].env),
         req[p].model.domain = req[p].was.domain
  PROVE  LET d == Saved(p)
         IN  [rev |-> d.rev, domain |-> d.domain, vars |-> d.vars] = req[p].model
<1> DEFINE m == req[p].model
           d == env[req[p].env]
<1>1. Hand(req[p], env)
  BY DEF TypeInv, Hands
<1>2. m \in Model /\ d \in Document
  BY <1>1 DEF Hand, AtEnv
<1>3. Saved(p) = [d EXCEPT !.rev = IF SetsRevision(p) THEN m.rev ELSE @,
                           !.vars = IF SetsVariables(p) THEN m.vars ELSE @,
                           !.deleted = @ \/ req[p].op = "delete"]
  BY DEF Saved
<1>4. d.rev = req[p].was.rev /\ d.vars = req[p].was.vars /\ d.domain = m.domain
  BY DEF Read
<1>5. /\ (IF SetsRevision(p) THEN m.rev ELSE d.rev) = m.rev
      /\ (IF SetsVariables(p) THEN m.vars ELSE d.vars) = m.vars
  BY <1>4 DEF SetsRevision, SetsVariables
<1>6. Saved(p) = [d EXCEPT !.rev = m.rev, !.vars = m.vars,
                           !.deleted = d.deleted \/ req[p].op = "delete"]
  BY <1>3, <1>5
<1>7. Saved(p).rev = m.rev /\ Saved(p).vars = m.vars /\ Saved(p).domain = m.domain
  BY <1>2, <1>4, <1>6 DEF Document
<1>8. m = [rev |-> m.rev, domain |-> m.domain, vars |-> m.vars]
  BY <1>2 DEF Model
<1> QED BY <1>7, <1>8

LEMMA AloneSaves ==
  ASSUME TypeInv, AloneInv, NEW p \in Request, Save(p) PROVE AloneInv'
<1> DEFINE c == IF req[p].op = "delete" THEN "done" ELSE "build"
           new == [req[p] EXCEPT !.pc = c]
           e == req[p].env
<1>1. req[p] \in RequestState /\ Hand(req[p], env) /\ req[p].pc = "save" /\ e \in Env
  BY DEF TypeInv, TypeOK, Hands, Save, Hand, AtEnv
<1>2. req' = [req EXCEPT ![p] = new] /\ env'[e] = Saved(p)
  BY <1>1 DEF Save, TypeInv, TypeOK
<1>3. /\ new.pc = c /\ new.op = req[p].op /\ new.env = e /\ new.model = req[p].model
      /\ new.alone = req[p].alone
  BY <1>1 DEF RequestState
<1> HIDE DEF new
<1>4. PICK r : r = new
  OBVIOUS
<1>5. PICK o : o = e
  OBVIOUS
<1>6. req[p].alone => Fits(r)'
  <2> SUFFICES ASSUME req[p].alone PROVE Fits(r)'
    OBVIOUS
  <2>1. Fits(req[p])
    BY DEF AloneInv
  <2>2. Read(o)' = req[p].model
    <3>1. LET d == Saved(p)
          IN  [rev |-> d.rev, domain |-> d.domain, vars |-> d.vars] = req[p].model
      BY <1>1, <2>1, SavedWhole DEF Fits
    <3> QED BY <1>2, <1>5, <3>1 DEF Read
  <2>3. req[p].op = "delete" => env'[o].deleted
    BY <1>1, <1>2, <1>5, SavedType
  <2>4. CASE req[p].op = "delete"
    BY <1>3, <1>4, <1>5, <2>3, <2>4 DEF Fits, Kept, OnDisk
  <2>5. CASE req[p].op # "delete"
    BY <1>3, <1>4, <1>5, <2>2, <2>5 DEF Fits, Kept, OnDisk
  <2> QED BY <2>4, <2>5
<1> QED BY <1>1, <1>2, <1>3, <1>4, <1>6, AloneHandled

LEMMA AlonePutsProvider ==
  ASSUME TypeInv, AloneInv, NEW p \in Request, PutProvider(p) PROVE AloneInv'
<1> DEFINE new == [req[p] EXCEPT !.pc = "build"]
<1>1. req[p] \in RequestState /\ req[p].pc = "provider"
  BY DEF TypeInv, TypeOK, PutProvider
<1>2. req' = [req EXCEPT ![p] = new] /\ env' = env
  BY DEF PutProvider
<1>3. /\ new.pc = "build" /\ new.env = req[p].env /\ new.model = req[p].model
      /\ new.alone = req[p].alone /\ new.op = req[p].op
  BY <1>1 DEF RequestState
<1> HIDE DEF new
<1>4. PICK r : r = new
  OBVIOUS
<1>5. req[p].alone => Fits(r)'
  <2> SUFFICES ASSUME req[p].alone PROVE Fits(r)'
    OBVIOUS
  <2>1. r.model = Read(r.env) /\ r.op # "delete"
    BY <1>1, <1>3, <1>4 DEF AloneInv, Fits, Kept, OnDisk
  <2> QED BY <1>2, <1>3, <1>4, <2>1 DEF Fits, Kept, Read
<1> QED BY <1>1, <1>2, <1>3, <1>4, <1>5, AloneHandled

LEMMA AloneBuilds ==
  ASSUME TypeInv, AloneInv, NEW p \in Request, Build(p) PROVE AloneInv'
<1> DEFINE c == IF req[p].pc = "build" THEN "put" ELSE "putDomain"
           new == [req[p] EXCEPT !.config = Built(p), !.pc = c]
<1>1. req[p] \in RequestState /\ req[p].pc \in {"build", "buildDomain"}
  BY DEF TypeInv, TypeOK, Build
<1>2. /\ req' = [req EXCEPT ![p] = new]
      /\ UNCHANGED <<env, content, provider, bucket>>
  BY <1>1 DEF Build, revisions, TypeInv, TypeOK, RequestState
<1>3. /\ new.pc = c /\ new.env = req[p].env /\ new.model = req[p].model
      /\ new.config = Built(p) /\ new.alone = req[p].alone /\ new.op = req[p].op
  BY <1>1 DEF RequestState
<1> HIDE DEF new
<1>4. PICK r : r = new
  OBVIOUS
<1>5. req[p].alone => Fits(r)'
  <2> SUFFICES ASSUME req[p].alone PROVE Fits(r)'
    OBVIOUS
  <2>1. Fits(req[p])
    BY DEF AloneInv
  <2>2. r.op # "delete" /\ r.model = Read(r.env) /\ (c = "putDomain" => bucket[r.env] = Deployed(r.env))
    BY <1>1, <1>3, <1>4, <2>1 DEF Fits, Kept, OnDisk
  <2>3. Built(p) = Deployed(r.env)
    <3>1. req[p].model.rev = env[r.env].rev /\ req[p].model.vars = env[r.env].vars
      BY <1>3, <1>4, <2>2 DEF Read
    <3> QED BY <1>3, <1>4, <3>1 DEF Built, Deployed
  <2>4. r.model = Read(r.env)' /\ Deployed(r.env)' = Deployed(r.env)
    BY <1>2, <2>2 DEF Read, Deployed
  <2>5. r.config = Deployed(r.env)' /\ (c = "putDomain" => bucket'[r.env] = Deployed(r.env)')
    BY <1>2, <1>3, <1>4, <2>2, <2>3, <2>4
  <2>6. c \in {"put", "putDomain"} /\ r.pc = c
    BY <1>3, <1>4
  <2> HIDE DEF c
  <2> QED BY <2>2, <2>4, <2>5, <2>6 DEF Fits, Kept, OnDisk
<1> QED BY <1>1, <1>2, <1>3, <1>4, <1>5, AloneHandled

LEMMA AlonePuts ==
  ASSUME TypeInv, AloneInv, NEW p \in Request, Put(p) PROVE AloneInv'
<1> DEFINE d == req[p].model.domain
           c == IF d = None THEN "done" ELSE IF kind = "tag" THEN "buildDomain" ELSE "putDomain"
           new == [req[p] EXCEPT !.pc = c]
<1>1. req[p] \in RequestState /\ Hand(req[p], env) /\ req[p].pc = "put"
  BY DEF TypeInv, TypeOK, Hands, Put
<1>2. /\ req' = [req EXCEPT ![p] = new]
      /\ bucket' = [bucket EXCEPT ![req[p].env] = req[p].config]
      /\ UNCHANGED <<env, content, provider>>
  BY DEF Put, revisions
<1>3. c \in {"done", "buildDomain", "putDomain"} /\ (c = "done" => d = None)
  BY <1>1 DEF Hand, Model
<1> HIDE DEF c
<1>4. /\ new.pc = c /\ new.env = req[p].env /\ new.model = req[p].model
      /\ new.config = req[p].config /\ new.alone = req[p].alone /\ new.op = req[p].op
  BY <1>1 DEF RequestState
<1> HIDE DEF new
<1>5. PICK r : r = new
  OBVIOUS
<1>6. req[p].alone => Fits(r)'
  <2> SUFFICES ASSUME req[p].alone PROVE Fits(r)'
    OBVIOUS
  <2>1. Fits(req[p])
    BY DEF AloneInv
  <2>2. r.model = Read(r.env) /\ r.config = Deployed(r.env)
    BY <1>1, <1>4, <1>5, <2>1 DEF Fits, Kept, OnDisk
  <2>3. r.model = Read(r.env)' /\ Deployed(r.env)' = Deployed(r.env)
    BY <1>2, <2>2 DEF Read, Deployed
  <2>4. r.env \in Env
    BY <1>1, <1>4, <1>5 DEF Hand, AtEnv
  <2>5. bucket'[r.env] = Deployed(r.env)'
    BY <1>2, <1>4, <1>5, <2>2, <2>3, <2>4 DEF TypeInv, TypeOK, File
  <2>6. r.pc \in {"done", "buildDomain", "putDomain"} /\ (r.pc = "done" => r.model.domain = None)
    BY <1>3, <1>4, <1>5
  <2>7. r.op # "delete"
    BY <1>1, <1>4, <1>5, <2>1 DEF Fits
  <2>8. r.config = Deployed(r.env)'
    BY <2>2, <2>3
  <2> QED BY <2>3, <2>5, <2>6, <2>7, <2>8 DEF Fits, Kept, OnDisk
<1> QED BY <1>1, <1>2, <1>4, <1>5, <1>6, AloneHandled

LEMMA AlonePutsDomain ==
  ASSUME TypeInv, AloneInv, NEW p \in Request, PutDomain(p) PROVE AloneInv'
<1> DEFINE new == [req[p] EXCEPT !.pc = "done"]
<1>1. req[p] \in RequestState /\ Hand(req[p], env) /\ req[p].pc = "putDomain"
  BY DEF TypeInv, TypeOK, Hands, PutDomain
<1>2. /\ req' = [req EXCEPT ![p] = new]
      /\ bucket' = [bucket EXCEPT ![req[p].model.domain] = req[p].config]
      /\ UNCHANGED <<env, content, provider>>
  BY DEF PutDomain, revisions
<1>3. /\ new.pc = "done" /\ new.env = req[p].env /\ new.model = req[p].model
      /\ new.alone = req[p].alone /\ new.op = req[p].op
  BY <1>1 DEF RequestState
<1> HIDE DEF new
<1>4. PICK r : r = new
  OBVIOUS
<1>5. req[p].alone => Fits(r)'
  <2> SUFFICES ASSUME req[p].alone PROVE Fits(r)'
    OBVIOUS
  <2>1. Fits(req[p])
    BY DEF AloneInv
  <2>2. /\ r.op # "delete" /\ r.model = Read(r.env)
        /\ req[p].config = Deployed(r.env) /\ bucket[r.env] = Deployed(r.env)
    BY <1>1, <1>3, <1>4, <2>1 DEF Fits, Kept, OnDisk
  <2>3. r.model = Read(r.env)' /\ Deployed(r.env)' = Deployed(r.env)
    BY <1>2, <2>2 DEF Read, Deployed
  <2>4. r.model.domain \in Domain
    BY <1>1, <1>3, <1>4 DEF Hand
  <2>5. bucket'[r.model.domain] = Deployed(r.env)' /\ bucket'[r.env] = Deployed(r.env)'
    BY <1>2, <1>3, <1>4, <2>2, <2>3, <2>4 DEF TypeInv, TypeOK, File
  <2> QED BY <1>3, <1>4, <2>2, <2>3, <2>5 DEF Fits, Kept, OnDisk
<1> QED BY <1>1, <1>2, <1>3, <1>4, <1>5, AloneHandled

LEMMA AloneEnds ==
  ASSUME TypeInv, AloneInv, NEW p \in Request, Return(p) \/ Fail(p) PROVE AloneInv'
<1>1. req' = [req EXCEPT ![p] = Idle] /\ req[p].pc # "idle"
  BY DEF Return, Fail
<1>2. ~Idle.alone
  BY DEF Idle
<1> QED BY <1>1, <1>2, AloneHandled

\* A change leaves nobody alone; the beginning of an edit and a finalisation change
\* nothing that a request has read.
LEMMA AloneEdits ==
  ASSUME TypeInv, AloneInv, NEW r \in Rev, StartEdit(r) \/ EndEdit(r) \/ Unlink(r) \/ Finalise(r)
  PROVE  AloneInv'
<1>1. CASE EndEdit(r) \/ Unlink(r)
  <2>1. \A p \in Request : req'[p] = [req[p] EXCEPT !.alone = FALSE]
    BY <1>1 DEF EndEdit, Unlink, Change
  <2>2. ASSUME NEW p \in Request PROVE ~req'[p].alone
    <3>1. req'[p] = [req[p] EXCEPT !.alone = FALSE] /\ req[p] \in RequestState
      BY <2>1 DEF TypeInv, TypeOK
    <3> QED BY <3>1 DEF RequestState
  <2> QED BY <2>2 DEF AloneInv
<1>2. CASE StartEdit(r) \/ Finalise(r)
  <2>1. UNCHANGED <<env, content, provider, bucket, req>>
    BY <1>2 DEF StartEdit, Finalise
  <2> QED BY <2>1 DEF AloneInv, Fits, Kept, Read, Deployed
<1> QED BY <1>1, <1>2

LEMMA AloneStep == TypeInv /\ AloneInv /\ [Next]_vars => AloneInv'
<1> SUFFICES ASSUME TypeInv, AloneInv, [Next]_vars PROVE AloneInv'
  OBVIOUS
<1>1. CASE \E r \in Rev : StartEdit(r) \/ EndEdit(r) \/ Unlink(r) \/ Finalise(r)
  BY <1>1, AloneEdits
<1>2. ASSUME NEW p \in Request,
             BeginCreate(p) \/ BeginUpdate(p) \/ BeginVariable(p) \/ BeginDelete(p)
      PROVE  AloneInv'
  BY <1>2, AloneCreates, AloneUpdates, AloneVariables, AloneDeletes
<1>3. ASSUME NEW p \in Request, Handle(p) \/ Fail(p) PROVE AloneInv'
  BY <1>3, AloneReads, AloneInserts, AlonePutsProvider, AloneSaves, AloneBuilds, AlonePuts,
     AlonePutsDomain, AloneEnds DEF Handle
<1>4. CASE UNCHANGED vars
  BY <1>4 DEF vars, revisions, AloneInv, Fits, Kept, Read, Deployed
<1> QED BY <1>1, <1>2, <1>3, <1>4 DEF Next

LEMMA AloneInvariance == Spec => []AloneInv
<1>1. Init => AloneInv
  BY DEF Init, Idle, AloneInv
<1> QED BY <1>1, TypeInvariance, AloneStep, PTL DEF Spec

\* When a request that nobody disturbed has returned, the bucket serves the environment
\* as the database has it, whatever failed, raced or was abandoned before.
THEOREM CompletedAgreesCorrect == Spec => []CompletedAgrees
<1>1. TypeInv /\ AloneInv => CompletedAgrees
  <2> SUFFICES ASSUME TypeInv, AloneInv, NEW p \in Request, req[p].pc = "done", req[p].alone,
                      Live(req[p].env)
               PROVE  /\ bucket[req[p].env] = Deployed(req[p].env)
                      /\ env[req[p].env].domain # None =>
                            bucket[env[req[p].env].domain] = Deployed(req[p].env)
    BY DEF CompletedAgrees
  <2>1. Fits(req[p]) /\ ~env[req[p].env].deleted
    BY DEF AloneInv, Live
  <2>2. Kept(req[p])
    BY <2>1 DEF Fits, Kept
  <2>3. req[p].model.domain = env[req[p].env].domain
    BY <2>1, <2>2 DEF Fits, Read
  <2> QED BY <2>1, <2>2, <2>3 DEF Fits
<1> QED BY <1>1, TypeInvariance, AloneInvariance, PTL
=============================================================================
