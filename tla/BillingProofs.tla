----------------------------- MODULE BillingProofs -----------------------------
(***************************************************************************)
(* Proofs that the accounts, the organisation and Stripe agree, for any    *)
(* plans, any number of handlers, requests and troubles.                   *)
(*                                                                         *)
(* BaseInv says what the documents and the handlers are, and what a        *)
(* handler that runs alone may rely on; the other invariants rest on it,   *)
(* one for each thing that has to agree.                                   *)
(***************************************************************************)
EXTENDS BillingProps, FiniteSetTheorems, SequenceTheorems, WellFoundedInduction, TLAPS

Pcs == {"idle", "account", "subscription", "product", "checkout", "add", "cancel", "clear",
        "repair", "trial", "flag", "delete", "insert", "item"}
Ops == {"trial", "subscribe", "unsubscribe", "view", "hook", None}
OwnType(product) == IF product = "TAG" THEN "TAG" ELSE "USER"
Todos == [product : Product, acc : Nat, was : AccountDoc \cup {None}]
ReqDoc == [pc : Pcs, op : Ops, product : Product \cup {None}, plan : Plan \cup {None},
           org : Nat, may : BOOLEAN, acc : Nat, was : AccountDoc \cup {None}, sub : Nat,
           current : SUBSET Plan, event : Nat, todo : SUBSET Todos, over : BOOLEAN]
EventDoc == [sub : Nat, items : SUBSET Plan, status : {"active", "past_due"}, done : BOOLEAN]

DocsType ==
  /\ manual \in BOOLEAN /\ orgSub \in 0 .. Len(sub) /\ mayTrial \subseteq Product
  /\ account \in Seq(AccountDoc) /\ sub \in Seq(Subscription)
  /\ event \in Seq(EventDoc) /\ open \in Seq(Plan)
  /\ \A s \in DOMAIN sub : IsFiniteSet(sub[s].items)
  /\ \A e \in DOMAIN event : event[e].sub \in DOMAIN sub

\* Which requests come to which point.
MayBe(op, pc) ==
  /\ pc = "account" => op \in {"trial", "subscribe", "unsubscribe"}
  /\ pc = "subscription" => op \in {"subscribe", "unsubscribe"}
  /\ pc = "product" => op \in {"subscribe", "unsubscribe", "view"}
  /\ pc \in {"checkout", "add"} => op = "subscribe"
  /\ pc \in {"cancel", "clear"} => op = "unsubscribe"
  /\ pc = "repair" => op = "view"
Asking == {"account", "subscription", "product", "checkout", "add", "cancel", "clear", "repair"}
WithAccount == {"subscription", "product", "checkout", "add", "cancel", "clear", "repair",
                "trial", "delete", "insert"}
\* What a handler remembers exists.
Sound(r) ==
  /\ r.org \in 0 .. Len(sub) /\ r.sub \in 0 .. Len(sub)
  /\ r.event \in 0 .. Len(event) /\ r.acc \in 0 .. Len(account)
  /\ MayBe(r.op, r.pc)
  /\ r.pc # "item" => r.event = 0 /\ r.todo = {}
  /\ r.pc \notin {"idle", "item"} => r.product \in Product
  /\ r.pc \in WithAccount => r.acc # 0 /\ account[r.acc].type \in Types(r.product)
  /\ r.pc = "trial" => r.was \in AccountDoc
  /\ r.op = "subscribe" => r.plan \in Plan /\ r.product = ProductOf[r.plan]
  /\ r.pc \in {"product", "add", "cancel"} /\ r.op # "view" => r.sub # 0
  /\ r.pc \in {"account", "subscription", "product"} => r.current = {}
  /\ r.pc = "cancel" => r.current # {}
  /\ \A x \in r.todo : x.acc # 0 =>
       /\ x.acc \in DOMAIN account /\ x.was \in AccountDoc
       /\ account[x.acc].type = OwnType(x.product)
TypeInv ==
  /\ DocsType
  /\ req \in [Request -> ReqDoc]
  /\ \A p \in Request : Sound(req[p])

Calm == "overlap" \notin past
AloneInv == Calm => \A p, q \in Request : req[p].pc # "idle" /\ req[q].pc # "idle" => p = q

\* What a handler that runs alone has read still holds.
Fits(r) ==
  /\ r.pc \in Asking => r.org = orgSub
  /\ r.pc \in WithAccount \ {"insert"} => ~account[r.acc].deleted
  /\ r.pc = "account" /\ r.op = "trial" /\ r.may => r.product \in mayTrial
  /\ r.pc = "trial" => r.product \in mayTrial /\ r.was = account[r.acc]
  /\ r.pc \in {"product", "add", "cancel"} /\ r.op # "view" =>
       r.sub = r.org \/ (r.org = 0 /\ r.sub \in Listed)
  /\ r.pc \in {"product", "cancel"} /\ r.op = "unsubscribe" => r.sub \in Listed
  /\ "unsure" \notin past /\ r.pc \in {"add", "cancel"} =>
       IF r.current = {} THEN ItemsFor(r.sub, r.product) = {}
       ELSE \E i \in ItemsFor(r.sub, r.product) : r.current = {i}
  /\ \A x \in r.todo : x.acc # 0 =>
       ~account[x.acc].deleted /\ (x.was.enabled => account[x.acc].enabled)
FitsInv == Calm => \A p \in Request : Fits(req[p])
BaseInv == TypeInv /\ AloneInv /\ FitsInv

Grown ==
  /\ Len(sub) <= Len(sub') /\ Len(event) <= Len(event') /\ Len(account) <= Len(account')
  /\ \A a \in DOMAIN account : account'[a].type = account[a].type
Keeps == UNCHANGED <<manual, orgSub, account, mayTrial, sub, open, event>>

-----------------------------------------------------------------------------
(* Documents and handlers.                                                 *)

LEMMA LeastNat ==
  ASSUME NEW S \in SUBSET Nat, S # {}
  PROVE  \E n \in S : \A m \in S : n <= m
<1> DEFINE R == OpToRel(<, Nat)
<1>1. IsWellFoundedOn(R, Nat)
  BY NatLessThanWellFounded
<1>2. \A x, y \in Nat : x < y => <<x, y>> \in R
  BY DEF OpToRel
<1> HIDE DEF R
<1>3. \E x \in S : \A y \in S : ~(<<y, x>> \in R)
  BY <1>1, WFMin, Zenon
<1>4. PICK x \in S : \A y \in S : ~(<<y, x>> \in R)
  BY <1>3
<1>5. \A y \in S : ~(y < x)
  BY <1>2, <1>4
<1> QED BY <1>5

LEMMA FirstIn == ASSUME NEW S \in SUBSET Nat, S # {} PROVE FirstOf(S) \in S
BY LeastNat DEF FirstOf

LEMMA IdleDoc ==
  /\ Idle \in ReqDoc /\ Idle.pc = "idle" /\ Idle.op = None /\ Idle.product = None
  /\ Idle.plan = None /\ Idle.org = 0 /\ Idle.may = FALSE /\ Idle.acc = 0 /\ Idle.was = None
  /\ Idle.sub = 0 /\ Idle.current = {} /\ Idle.event = 0 /\ Idle.todo = {}
  /\ Idle.over = FALSE
BY DEF Idle, ReqDoc, Pcs, Ops

LEMMA DocsSame == ASSUME DocsType, Keeps PROVE DocsType' /\ Grown
BY DEF DocsType, Keeps, Grown, Subscription, EventDoc

LEMMA DocsLen ==
  ASSUME DocsType
  PROVE  /\ Len(sub) \in Nat /\ Len(event) \in Nat /\ Len(account) \in Nat
         /\ DOMAIN sub = 1 .. Len(sub) /\ DOMAIN event = 1 .. Len(event)
         /\ DOMAIN account = 1 .. Len(account)
BY DEF DocsType

LEMMA SoundKept ==
  ASSUME Grown, DocsType, DocsType', NEW r \in ReqDoc, Sound(r) PROVE Sound(r)'
<1>1. /\ Len(sub) \in Nat /\ Len(event) \in Nat /\ Len(account) \in Nat
      /\ DOMAIN account = 1 .. Len(account)
  BY DocsLen
<1>2. /\ Len(sub') \in Nat /\ Len(event') \in Nat /\ Len(account') \in Nat
      /\ DOMAIN account' = 1 .. Len(account')
  BY DEF DocsType
<1>3. /\ \A n \in 0 .. Len(sub) : n \in 0 .. Len(sub')
      /\ \A n \in 0 .. Len(event) : n \in 0 .. Len(event')
      /\ \A n \in 0 .. Len(account) : n \in 0 .. Len(account')
      /\ \A n \in DOMAIN account : n \in DOMAIN account'
  BY <1>1, <1>2 DEF Grown
<1>4. \A n \in 0 .. Len(account) : n # 0 => account'[n].type = account[n].type
  BY <1>1 DEF Grown
<1> HIDE DEF Sound
<1>5. /\ r.org \in 0 .. Len(sub') /\ r.sub \in 0 .. Len(sub')
      /\ r.event \in 0 .. Len(event') /\ r.acc \in 0 .. Len(account')
  BY <1>3 DEF Sound
<1>6. r.pc \in WithAccount => r.acc # 0 /\ account'[r.acc].type \in Types(r.product)
  BY <1>4 DEF Sound
<1>7. \A x \in r.todo : x.acc # 0 =>
         /\ x.acc \in DOMAIN account' /\ x.was \in AccountDoc
         /\ account'[x.acc].type = OwnType(x.product)
  BY <1>3 DEF Sound, Grown
<1> QED BY <1>5, <1>6, <1>7 DEF Sound

\* The others, when one handler runs alone, and a step of it.
LEMMA TypeStep ==
  ASSUME TypeInv, DocsType', Grown, NEW p \in Request, NEW r \in ReqDoc, Sound(r), Step(p, r)
  PROVE  TypeInv' /\ req'[p] = r /\ \A q \in Request : q # p => req'[q] = req[q]
<1>1. req' = [req EXCEPT ![p] = r]
  BY DEF Step
<1>2. req' \in [Request -> ReqDoc] /\ req'[p] = r
  BY <1>1 DEF TypeInv
<1>3. \A q \in Request : q # p => req'[q] = req[q]
  BY <1>1 DEF TypeInv
<1>4. \A d \in ReqDoc : Sound(d) => Sound(d)'
  BY SoundKept DEF TypeInv
<1>5. Sound(r)'
  BY <1>4
<1>6. ASSUME NEW q \in Request PROVE Sound(req[q])'
  <2>1. CASE q = p
    BY <1>2, <1>5, <2>1
  <2>2. CASE q # p
    <3>1. Sound(req[q]) /\ req[q] \in ReqDoc
      BY DEF TypeInv
    <3>2. PICK d \in ReqDoc : d = req[q] /\ Sound(d)
      BY <3>1
    <3>3. Sound(d)'
      BY <1>4, <3>2
    <3>4. req'[q] = d
      BY <1>3, <2>2, <3>2
    <3> QED BY <3>3, <3>4
  <2> QED BY <2>1, <2>2
<1> QED BY <1>2, <1>3, <1>6 DEF TypeInv

LEMMA IdleFits == ASSUME NEW r \in ReqDoc, Sound(r), r.pc = "idle" PROVE Fits(r)
BY DEF Fits, Sound, Asking, WithAccount

LEMMA OthersIdle ==
  ASSUME BaseInv, Calm, NEW p \in Request, req[p].pc # "idle", NEW q \in Request, q # p
  PROVE  req[q].pc = "idle"
BY DEF BaseInv, AloneInv

\* What is to be shown of a step: the rest follows.
Alone(p) == \A q \in Request : q # p => req[q].pc = "idle"
LEMMA BaseStep ==
  ASSUME BaseInv, DocsType', Grown, past \subseteq past', NEW p \in Request, NEW r \in ReqDoc,
         Sound(r), Step(p, r), Calm' => Alone(p), Calm' => Fits(r)'
  PROVE  BaseInv'
<1>1. /\ TypeInv' /\ req'[p] = r /\ \A q \in Request : q # p => req'[q] = req[q]
  BY TypeStep DEF BaseInv
<1>2. Calm' => \A q \in Request : q # p => req'[q].pc = "idle"
  BY <1>1 DEF Alone
<1>3. AloneInv'
  BY <1>2 DEF AloneInv
<1>4. FitsInv'
  <2> SUFFICES ASSUME Calm', NEW q \in Request PROVE Fits(req[q])'
    BY DEF FitsInv
  <2>1. CASE q = p
    BY <1>1, <2>1
  <2>2. CASE q # p
    <3>1. req'[q] \in ReqDoc /\ Sound(req[q])' /\ req'[q].pc = "idle"
      BY <1>1, <1>2, <2>2 DEF TypeInv
    <3> QED BY <3>1 DEF Fits, Sound, Asking, WithAccount
  <2> QED BY <2>1, <2>2
<1> QED BY <1>1, <1>3, <1>4 DEF BaseInv

LEMMA EndSound == ASSUME DocsType PROVE Sound(Idle)
BY IdleDoc, NoneAssumption DEF Sound, DocsType, WithAccount, MayBe

LEMMA EndFits == Fits(Idle)'
BY IdleDoc DEF Fits, Asking, WithAccount

LEMMA EndStep ==
  ASSUME BaseInv, DocsType', Grown, past \subseteq past', NEW p \in Request, End(p),
         req[p].pc # "idle"
  PROVE  BaseInv'
<1>1. Sound(Idle)
  BY EndSound DEF BaseInv, TypeInv
<1>2. Step(p, Idle)
  BY DEF End
<1>3. Fits(Idle)'
  BY EndFits
<1>4. Calm' => Alone(p)
  BY OthersIdle DEF Calm, Alone
<1> QED BY <1>1, <1>2, <1>3, <1>4, IdleDoc, BaseStep

\* A step that changes neither the documents nor Stripe.
LEMMA ReadStep ==
  ASSUME BaseInv, Keeps, past \subseteq past', NEW p \in Request, NEW r \in ReqDoc,
         Sound(r), Step(p, r), Calm' => Alone(p), Calm' => Fits(r)'
  PROVE  BaseInv'
BY DocsSame, BaseStep DEF BaseInv, TypeInv

LEMMA ReadEnd ==
  ASSUME BaseInv, Keeps, past \subseteq past', NEW p \in Request, End(p), req[p].pc # "idle"
  PROVE  BaseInv'
BY DocsSame, EndStep DEF BaseInv, TypeInv

-----------------------------------------------------------------------------
(* The requests of the owner.                                              *)

\* The record a request begins with.
Begins(p, r) ==
  /\ Step(p, r) /\ Keeps /\ req[p].pc = "idle" /\ past \subseteq past'
  /\ Sound(r) /\ (Calm' => Alone(p)) /\ (Calm' => Fits(r)')
  /\ r.pc = "account" /\ r.todo = {} /\ r.event = 0
  /\ r.may => r.product \in mayTrial
  /\ r.over => Over(r.product)
LEMMA BeginMoves ==
  ASSUME BaseInv, NEW p \in Request, NEW c \in ReqDoc, c.product \in Product,
         c.op \in {"trial", "subscribe", "unsubscribe"},
         c.op = "subscribe" => c.plan \in Plan /\ c.product = ProductOf[c.plan],
         c.event = 0, c.todo = {}, c.acc = 0, c.sub = 0, c.current = {},
         Begin(p, c)
  PROVE  \E r \in ReqDoc : Begins(p, r)
<1> DEFINE m == c.product \in mayTrial
<1> DEFINE o == c.op = "trial" /\ Over(c.product)
<1> DEFINE n == [c EXCEPT !.pc = "account", !.org = orgSub, !.may = m, !.over = o]
<1>1. orgSub \in Nat /\ orgSub \in 0 .. Len(sub) /\ m \in BOOLEAN /\ o \in BOOLEAN
  BY DEF BaseInv, TypeInv, DocsType
<1>2. Step(p, n) /\ Keeps /\ past' = past \cup Overlap /\ req[p].pc = "idle"
  BY DEF Begin, Keeps, db, stripe
<1> HIDE DEF m, o
<1>3. /\ n \in ReqDoc /\ n.pc = "account" /\ n.org = orgSub /\ n.may = m /\ n.over = o
      /\ n.op = c.op /\ n.product = c.product /\ n.plan = c.plan
      /\ n.event = 0 /\ n.todo = {} /\ n.acc = 0 /\ n.sub = 0 /\ n.current = {}
  BY <1>1 DEF ReqDoc, Pcs
<1> HIDE DEF n
<1>4. PICK r \in ReqDoc :
        /\ Step(p, r) /\ r.pc = "account" /\ r.org = orgSub /\ r.may = m /\ r.over = o
        /\ r.op = c.op /\ r.product = c.product /\ r.plan = c.plan
        /\ r.event = 0 /\ r.todo = {} /\ r.acc = 0 /\ r.sub = 0 /\ r.current = {}
  BY <1>2, <1>3
<1>5. Sound(r)
  BY <1>1, <1>4 DEF Sound, MayBe, WithAccount, BaseInv, TypeInv, DocsType
<1>6. Calm' => Alone(p)
  BY <1>2 DEF Calm, Overlap, Alone
<1>7. r.may => r.product \in mayTrial'
  BY <1>2, <1>4 DEF Keeps, m
<1>8. Fits(r)'
  BY <1>2, <1>4, <1>7 DEF Fits, Keeps, Asking, WithAccount
<1>9. past \subseteq past'
  BY <1>2
<1>10. /\ r.may => r.product \in mayTrial
       /\ r.over => Over(r.product)
  BY <1>4 DEF m, o
<1> QED BY <1>2, <1>4, <1>5, <1>6, <1>8, <1>9, <1>10 DEF Begins

LEMMA BeginTrialMoves ==
  ASSUME BaseInv, NEW p \in Request, BeginTrial(p) PROVE \E r \in ReqDoc : Begins(p, r)
<1>1. PICK t \in Product : Begin(p, [Idle EXCEPT !.op = "trial", !.product = t])
  BY DEF BeginTrial
<1> DEFINE c == [Idle EXCEPT !.op = "trial", !.product = t]
<1>2. /\ c \in ReqDoc /\ c.product = t /\ c.op = "trial"
      /\ c.event = 0 /\ c.todo = {} /\ c.acc = 0 /\ c.sub = 0 /\ c.current = {}
  BY IdleDoc DEF ReqDoc, Ops
<1>3. Begin(p, c)
  BY <1>1
<1> HIDE DEF c
<1> QED BY <1>2, <1>3, BeginMoves

LEMMA BeginSubscribeMoves ==
  ASSUME BaseInv, BillingAssumption, NEW p \in Request, BeginSubscribe(p)
  PROVE  \E r \in ReqDoc : Begins(p, r)
<1>1. PICK i \in Plan :
        Begin(p, [Idle EXCEPT !.op = "subscribe", !.product = ProductOf[i], !.plan = i])
  BY DEF BeginSubscribe
<1> DEFINE t == ProductOf[i]
<1> DEFINE c == [Idle EXCEPT !.op = "subscribe", !.product = t, !.plan = i]
<1>2. t \in Product
  BY DEF BillingAssumption, Product
<1>3. Begin(p, c)
  BY <1>1
<1> HIDE DEF t
<1>4. /\ c \in ReqDoc /\ c.product = t /\ c.op = "subscribe" /\ c.plan = i
      /\ c.event = 0 /\ c.todo = {} /\ c.acc = 0 /\ c.sub = 0 /\ c.current = {}
  BY <1>2, IdleDoc DEF ReqDoc, Ops
<1>5. c.product = ProductOf[c.plan]
  BY <1>4 DEF t
<1> HIDE DEF c
<1> QED BY <1>2, <1>3, <1>4, <1>5, BeginMoves

LEMMA BeginUnsubscribeMoves ==
  ASSUME BaseInv, NEW p \in Request, BeginUnsubscribe(p) PROVE \E r \in ReqDoc : Begins(p, r)
<1>1. PICK t \in Product : Begin(p, [Idle EXCEPT !.op = "unsubscribe", !.product = t])
  BY DEF BeginUnsubscribe
<1> DEFINE c == [Idle EXCEPT !.op = "unsubscribe", !.product = t]
<1>2. /\ c \in ReqDoc /\ c.product = t /\ c.op = "unsubscribe"
      /\ c.event = 0 /\ c.todo = {} /\ c.acc = 0 /\ c.sub = 0 /\ c.current = {}
  BY IdleDoc DEF ReqDoc, Ops
<1>3. Begin(p, c)
  BY <1>1
<1> HIDE DEF c
<1> QED BY <1>2, <1>3, BeginMoves

Asks(p) == BeginTrial(p) \/ BeginSubscribe(p) \/ BeginUnsubscribe(p)
LEMMA AskMoves ==
  ASSUME BaseInv, BillingAssumption, NEW p \in Request, Asks(p)
  PROVE  \E r \in ReqDoc : Begins(p, r)
BY BeginTrialMoves, BeginSubscribeMoves, BeginUnsubscribeMoves DEF Asks

LEMMA AskBase ==
  ASSUME BaseInv, BillingAssumption, NEW p \in Request, Asks(p) PROVE BaseInv'
BY AskMoves, ReadStep DEF Begins

LEMMA ViewMoves ==
  ASSUME BaseInv, NEW p \in Request, BeginView(p)
  PROVE  \E r \in ReqDoc :
           /\ Step(p, r) /\ Keeps /\ req[p].pc = "idle" /\ past \subseteq past'
           /\ Sound(r) /\ (Calm' => Alone(p)) /\ (Calm' => Fits(r)')
           /\ r.pc = "product" /\ r.todo = {} /\ r.event = 0
           /\ account[r.acc].type = "SYSTEM" => "mistaken" \in past'
<1>1. PICK t \in Product : \E a \in Live(Types(t)) :
        /\ req[p].pc = "idle"
        /\ Step(p, [Idle EXCEPT !.op = "view", !.product = t, !.acc = a, !.pc = "product",
                                !.org = orgSub])
        /\ past' = past \cup Overlap \cup (IF account[a].type = "SYSTEM" THEN {"mistaken"} ELSE {})
        /\ UNCHANGED <<db, stripe>>
  BY DEF BeginView
<1>2. PICK a \in Live(Types(t)) :
        /\ req[p].pc = "idle"
        /\ Step(p, [Idle EXCEPT !.op = "view", !.product = t, !.acc = a, !.pc = "product",
                                !.org = orgSub])
        /\ past' = past \cup Overlap \cup (IF account[a].type = "SYSTEM" THEN {"mistaken"} ELSE {})
        /\ UNCHANGED <<db, stripe>>
  BY <1>1
<1> DEFINE n == [Idle EXCEPT !.op = "view", !.product = t, !.acc = a, !.pc = "product",
                             !.org = orgSub]
<1>3. /\ orgSub \in Nat /\ orgSub \in 0 .. Len(sub) /\ a \in Nat /\ a \in 1 .. Len(account)
      /\ account[a].type \in Types(t) /\ ~account[a].deleted
  BY <1>2 DEF BaseInv, TypeInv, DocsType, Live
<1>4. /\ n \in ReqDoc /\ n.pc = "product" /\ n.org = orgSub /\ n.op = "view" /\ n.product = t
      /\ n.acc = a /\ n.event = 0 /\ n.todo = {} /\ n.sub = 0 /\ n.current = {}
  BY <1>3, IdleDoc DEF ReqDoc, Pcs, Ops
<1>5. Step(p, n)
  BY <1>2
<1> HIDE DEF n
<1>6. PICK r \in ReqDoc :
      /\ Step(p, r) /\ r.pc = "product" /\ r.org = orgSub /\ r.op = "view" /\ r.product = t
      /\ r.acc = a /\ r.event = 0 /\ r.todo = {} /\ r.sub = 0 /\ r.current = {}
  BY <1>4, <1>5
<1>7. Keeps /\ past \subseteq past' /\ (account[r.acc].type = "SYSTEM" => "mistaken" \in past')
  BY <1>2, <1>6 DEF Keeps, db, stripe
<1>8. Sound(r)
  BY <1>3, <1>6 DEF Sound, MayBe, WithAccount, BaseInv, TypeInv, DocsType
<1>9. Calm' => Alone(p)
  BY <1>2 DEF Calm, Overlap, Alone
<1>10. Fits(r)'
  BY <1>3, <1>6, <1>7 DEF Fits, Keeps, Asking, WithAccount
<1> QED BY <1>2, <1>6, <1>7, <1>8, <1>9, <1>10

LEMMA ViewBase == ASSUME BaseInv, NEW p \in Request, BeginView(p) PROVE BaseInv'
BY ViewMoves, ReadStep

\* A handler that runs, and what it may rely on.
LEMMA Runs ==
  ASSUME BaseInv, NEW p \in Request
  PROVE  /\ req[p] \in ReqDoc /\ Sound(req[p]) /\ (Calm => Fits(req[p]))
         /\ (req[p].pc # "idle" => (past \subseteq past' => (Calm' => Alone(p))))
BY OthersIdle DEF BaseInv, TypeInv, FitsInv, Alone, Calm

LEMMA AccountIn ==
  ASSUME BaseInv, NEW product, AccountFor(product) # 0
  PROVE  AccountFor(product) \in Live(Types(product))
<1>1. Live(Types(product)) \in SUBSET Nat
  BY DEF Live, BaseInv, TypeInv, DocsType
<1>2. Live(Types(product)) # {}
  BY DEF AccountFor, FirstOf
<1> QED BY <1>1, <1>2, FirstIn DEF AccountFor

LEMMA ReadAccountMoves ==
  ASSUME BaseInv, NEW p \in Request, ReadAccount(p)
  PROVE  \E r \in ReqDoc :
           /\ Step(p, r) /\ Keeps /\ req[p].pc = "account" /\ past \subseteq past'
           /\ Sound(r) /\ (Calm' => Fits(r)')
           /\ r.todo = {} /\ r.event = 0
           /\ \/ r.pc = "idle"
              \/ /\ r.pc \in {"trial", "subscription", "delete"} /\ (r.pc = "delete" => manual)
                 /\ account[r.acc].type = "SYSTEM" => "mistaken" \in past'
                 /\ r.pc = "trial" =>
                      /\ req[p].op = "trial" /\ req[p].may /\ r.over = req[p].over
                      /\ r.product = req[p].product
<1> DEFINE a == AccountFor(req[p].product)
<1>1. /\ req[p].pc = "account" /\ Keeps /\ past \subseteq past'
      /\ (a # 0 /\ account[a].type = "SYSTEM" => "mistaken" \in past')
  BY DEF ReadAccount, Keeps, db, stripe
<1>2. /\ req[p] \in ReqDoc /\ Sound(req[p]) /\ (Calm => Fits(req[p])) /\ req[p].product \in Product
      /\ req[p].op \in {"trial", "subscribe", "unsubscribe"} /\ req[p].todo = {} /\ req[p].event = 0
  BY <1>1, Runs DEF Sound, MayBe
<1>3. Calm' => Calm
  BY <1>1 DEF Calm
<1>4. CASE End(p)
  <2>1. Step(p, Idle) /\ Sound(Idle)
    BY <1>4, EndSound DEF End, BaseInv, TypeInv
  <2> QED BY <1>1, <2>1, IdleDoc, EndFits
<1>5. CASE ~End(p)
  <2>1. a # 0 /\ (req[p].op = "trial" => req[p].may)
    BY <1>5 DEF ReadAccount
  <2>2. /\ a \in Nat /\ a \in 0 .. Len(account) /\ account[a].type \in Types(req[p].product)
        /\ ~account[a].deleted /\ account[a] \in AccountDoc /\ a # 0
    BY <2>1, AccountIn DEF BaseInv, TypeInv, DocsType, Live
  <2> HIDE DEF a
  <2>3. CASE req[p].op = "trial"
    <3> DEFINE w == account[a]
    <3> DEFINE n == [Idle EXCEPT !.pc = "trial", !.product = req[p].product, !.acc = a, !.was = w,
                                 !.over = req[p].over]
    <3>1. Step(p, n)
      BY <1>5, <2>1, <2>3 DEF ReadAccount, a
    <3>2. w \in AccountDoc /\ req[p].over \in BOOLEAN
      BY <1>2, <2>2 DEF ReqDoc
    <3> HIDE DEF w
    <3>3. /\ n \in ReqDoc /\ n.pc = "trial" /\ n.product = req[p].product /\ n.acc = a /\ n.was = w
          /\ n.todo = {} /\ n.event = 0 /\ n.org = 0 /\ n.sub = 0 /\ n.op = None
          /\ n.over = req[p].over
      BY <1>2, <2>2, <3>2, IdleDoc DEF ReqDoc, Pcs
    <3> HIDE DEF n
    <3>4. PICK r \in ReqDoc :
          /\ Step(p, r) /\ r.pc = "trial" /\ r.product = req[p].product /\ r.acc = a /\ r.was = w
          /\ r.todo = {} /\ r.event = 0 /\ r.org = 0 /\ r.sub = 0 /\ r.op = None
          /\ r.over = req[p].over
      BY <3>1, <3>3
    <3>5. Sound(r)
      BY <1>2, <2>2, <3>2, <3>4, NoneAssumption DEF Sound, MayBe, WithAccount, BaseInv, TypeInv, DocsType
    <3>6. Calm' => Fits(r)'
      <4>1. Calm => req[p].product \in mayTrial
        BY <1>1, <1>2, <2>1, <2>3 DEF Fits
      <4> QED BY <1>1, <1>3, <2>2, <3>4, <4>1 DEF Fits, Keeps, Asking, WithAccount, w
    <3>7. account[r.acc].type = "SYSTEM" => "mistaken" \in past'
      BY <1>1, <2>1, <3>4
    <3> QED BY <1>1, <2>1, <2>3, <3>4, <3>5, <3>6, <3>7
  <2>4. CASE req[p].op = "unsubscribe" /\ manual
    <3> DEFINE n == [Idle EXCEPT !.pc = "delete", !.product = req[p].product, !.acc = a]
    <3>1. Step(p, n)
      BY <1>5, <2>1, <2>4 DEF ReadAccount, a
    <3>2. /\ n \in ReqDoc /\ n.pc = "delete" /\ n.product = req[p].product /\ n.acc = a
          /\ n.todo = {} /\ n.event = 0 /\ n.org = 0 /\ n.sub = 0 /\ n.op = None
      BY <1>2, <2>2, IdleDoc DEF ReqDoc, Pcs
    <3> HIDE DEF n
    <3>3. PICK r \in ReqDoc :
          /\ Step(p, r) /\ r.pc = "delete" /\ r.product = req[p].product /\ r.acc = a
          /\ r.todo = {} /\ r.event = 0 /\ r.org = 0 /\ r.sub = 0 /\ r.op = None
      BY <3>1, <3>2
    <3>4. Sound(r)
      BY <1>2, <2>2, <3>3, NoneAssumption DEF Sound, MayBe, WithAccount, BaseInv, TypeInv, DocsType
    <3>5. Fits(r)'
      BY <1>1, <2>2, <3>3 DEF Fits, Keeps, Asking, WithAccount
    <3>6. account[r.acc].type = "SYSTEM" => "mistaken" \in past'
      BY <1>1, <2>1, <3>3
    <3> QED BY <1>1, <2>4, <3>3, <3>4, <3>5, <3>6
  <2>5. CASE req[p].op # "trial" /\ ~(req[p].op = "unsubscribe" /\ manual)
    <3> DEFINE n == [req[p] EXCEPT !.pc = "subscription", !.acc = a, !.may = FALSE]
    <3>1. Step(p, n)
      BY <1>5, <2>1, <2>5 DEF ReadAccount, a
    <3>2. /\ n \in ReqDoc /\ n.pc = "subscription" /\ n.product = req[p].product /\ n.acc = a
          /\ n.todo = {} /\ n.event = 0 /\ n.org = req[p].org /\ n.sub = req[p].sub
          /\ n.op = req[p].op /\ n.plan = req[p].plan /\ n.current = req[p].current
      BY <1>2, <2>2 DEF ReqDoc, Pcs
    <3> HIDE DEF n
    <3>3. PICK r \in ReqDoc :
          /\ Step(p, r) /\ r.pc = "subscription" /\ r.product = req[p].product /\ r.acc = a
          /\ r.todo = {} /\ r.event = 0 /\ r.org = req[p].org /\ r.sub = req[p].sub
          /\ r.op = req[p].op /\ r.plan = req[p].plan /\ r.current = req[p].current
      BY <3>1, <3>2
    <3>4. Sound(r)
      BY <1>1, <1>2, <2>2, <2>5, <3>3 DEF Sound, MayBe, WithAccount
    <3>5. Calm' => Fits(r)'
      BY <1>1, <1>2, <1>3, <2>2, <3>3 DEF Fits, Keeps, Asking, WithAccount
    <3>6. account[r.acc].type = "SYSTEM" => "mistaken" \in past'
      BY <1>1, <2>1, <3>3
    <3> QED BY <1>1, <3>3, <3>4, <3>5, <3>6
  <2> QED BY <2>3, <2>4, <2>5
<1> QED BY <1>4, <1>5

LEMMA ReadAccountBase == ASSUME BaseInv, NEW p \in Request, ReadAccount(p) PROVE BaseInv'
<1>1. req[p].pc # "idle"
  BY DEF ReadAccount
<1> QED BY <1>1, ReadAccountMoves, Runs, ReadStep

\* A save of an account touches it alone, and sets no more than it says.
SavedAt(a, was, enabled, trial) ==
  /\ account' \in Seq(AccountDoc) /\ Len(account') = Len(account)
  /\ \A b \in DOMAIN account : b # a => account'[b] = account[b]
  /\ account'[a].type = account[a].type /\ account'[a].deleted = account[a].deleted
  /\ account'[a].enabled = IF was.enabled # enabled THEN enabled ELSE account[a].enabled
  /\ account'[a].trial = IF was.trial # trial THEN trial ELSE account[a].trial
LEMMA SavedIs ==
  ASSUME account \in Seq(AccountDoc), NEW a \in DOMAIN account, NEW was \in AccountDoc,
         NEW enabled \in BOOLEAN, NEW trial \in BOOLEAN,
         account' = Saved(a, was, enabled, trial)
  PROVE  SavedAt(a, was, enabled, trial)
<1> DEFINE x == account[a]
<1> DEFINE e == IF was.enabled # enabled THEN enabled ELSE x.enabled
<1> DEFINE t == IF was.trial # trial THEN trial ELSE x.trial
<1> DEFINE y == [x EXCEPT !.enabled = e]
<1> DEFINE d == [y EXCEPT !.trial = t]
<1>1. x \in AccountDoc
  OBVIOUS
<1>2. account' = [account EXCEPT ![a].enabled = e, ![a].trial = t]
  BY DEF Saved
<1>3. account' = [[account EXCEPT ![a] = y] EXCEPT ![a].trial = t]
  BY <1>2
<1>4. account' = [account EXCEPT ![a] = d]
  <2> HIDE DEF y, t
  <2>1. account' = [[account EXCEPT ![a] = y] EXCEPT ![a].trial = t]
    BY <1>3
  <2> QED BY <2>1
<1> HIDE DEF x
<1>5. e \in BOOLEAN /\ t \in BOOLEAN
  BY <1>1 DEF AccountDoc
<1> HIDE DEF e, t
<1>6. y \in AccountDoc /\ y.type = x.type /\ y.enabled = e /\ y.deleted = x.deleted
  BY <1>1, <1>5 DEF AccountDoc
<1> HIDE DEF y
<1>7. d \in AccountDoc /\ d.type = x.type /\ d.enabled = e /\ d.trial = t /\ d.deleted = x.deleted
  BY <1>5, <1>6 DEF AccountDoc
<1> HIDE DEF d
<1>8. account' \in Seq(AccountDoc) /\ Len(account') = Len(account)
  BY <1>4, <1>7
<1>9. account'[a] = d /\ \A b \in DOMAIN account : b # a => account'[b] = account[b]
  BY <1>4
<1> QED BY <1>7, <1>8, <1>9 DEF SavedAt, e, t, x

LEMMA SavedDocs ==
  ASSUME DocsType, NEW a \in DOMAIN account, NEW was, NEW enabled, NEW trial,
         SavedAt(a, was, enabled, trial), mayTrial' \subseteq Product,
         UNCHANGED <<manual, orgSub, sub, open, event>>
  PROVE  DocsType' /\ Grown
<1>1. DOMAIN account = 1 .. Len(account) /\ Len(account) \in Nat
  BY DocsLen
<1>2. account' \in Seq(AccountDoc) /\ Len(account') = Len(account)
  BY DEF SavedAt
<1>3. \A b \in DOMAIN account : account'[b].type = account[b].type
  BY DEF SavedAt
<1>4. DocsType'
  BY <1>2 DEF DocsType
<1> QED BY <1>1, <1>2, <1>3, <1>4 DEF Grown, DocsType

LEMMA SaveTrialMoves ==
  ASSUME BaseInv, NEW p \in Request, SaveTrial(p)
  PROVE  \E r \in ReqDoc :
           /\ Step(p, r) /\ DocsType' /\ Grown
           /\ UNCHANGED <<manual, orgSub, mayTrial, stripe>>
           /\ req[p].pc = "trial" /\ past' = past
           /\ Sound(r) /\ (Calm' => Fits(r)')
           /\ r.pc = "flag" /\ r.product = req[p].product /\ r.todo = {} /\ r.event = 0
           /\ req[p].acc \in DOMAIN account /\ SavedAt(req[p].acc, req[p].was, TRUE, TRUE)
<1>1. /\ req[p].pc = "trial" /\ account' = Saved(req[p].acc, req[p].was, TRUE, TRUE)
      /\ past' = past /\ UNCHANGED <<manual, orgSub, mayTrial, stripe>>
      /\ Step(p, [req[p] EXCEPT !.pc = "flag"])
  BY DEF SaveTrial, Goto
<1>2. /\ req[p] \in ReqDoc /\ Sound(req[p]) /\ req[p].product \in Product /\ DocsType
      /\ req[p].todo = {} /\ req[p].event = 0 /\ req[p].was \in AccountDoc
  BY <1>1, Runs DEF Sound, BaseInv, TypeInv
<1>3. req[p].acc \in DOMAIN account
  BY <1>1, <1>2, DocsLen DEF Sound, WithAccount
<1>4. SavedAt(req[p].acc, req[p].was, TRUE, TRUE)
  BY <1>1, <1>2, <1>3, SavedIs DEF DocsType
<1>5. DocsType' /\ Grown
  BY <1>1, <1>2, <1>3, <1>4, SavedDocs DEF stripe, DocsType
<1> DEFINE n == [req[p] EXCEPT !.pc = "flag"]
<1>6. /\ n \in ReqDoc /\ n.pc = "flag" /\ n.product = req[p].product /\ n.acc = req[p].acc
      /\ n.todo = {} /\ n.event = 0 /\ n.org = req[p].org /\ n.sub = req[p].sub /\ n.op = req[p].op
      /\ n.plan = req[p].plan
  BY <1>2 DEF ReqDoc, Pcs
<1> HIDE DEF n
<1>7. PICK r \in ReqDoc :
      /\ Step(p, r) /\ r.pc = "flag" /\ r.product = req[p].product /\ r.acc = req[p].acc
      /\ r.todo = {} /\ r.event = 0 /\ r.org = req[p].org /\ r.sub = req[p].sub /\ r.op = req[p].op
      /\ r.plan = req[p].plan
  BY <1>1, <1>6 DEF n
<1>8. Sound(r)
  BY <1>2, <1>7 DEF Sound, MayBe, WithAccount
<1>9. Fits(r)'
  BY <1>7 DEF Fits, Asking, WithAccount
<1> QED BY <1>1, <1>3, <1>4, <1>5, <1>7, <1>8, <1>9

LEMMA SaveTrialBase == ASSUME BaseInv, NEW p \in Request, SaveTrial(p) PROVE BaseInv'
<1>1. req[p].pc # "idle"
  BY DEF SaveTrial
<1>2. PICK r \in ReqDoc :
        /\ Step(p, r) /\ DocsType' /\ Grown /\ past' = past
        /\ Sound(r) /\ (Calm' => Fits(r)')
  BY SaveTrialMoves
<1>3. Calm' => Alone(p)
  BY <1>1, <1>2, Runs
<1> QED BY <1>2, <1>3, BaseStep

LEMMA SaveFlagBase ==
  ASSUME BaseInv, NEW p \in Request, SaveFlag(p) PROVE BaseInv'
<1>1. /\ req[p].pc = "flag" /\ mayTrial' \subseteq mayTrial /\ End(p)
      /\ UNCHANGED <<manual, orgSub, account, stripe>> /\ past \subseteq past'
  BY DEF SaveFlag, Spent
<1>2. DocsType' /\ Grown
  BY <1>1 DEF BaseInv, TypeInv, DocsType, Grown, stripe
<1> QED BY <1>1, <1>2, EndStep

\* A subscription that is found.
LEMMA FoundIn ==
  ASSUME BaseInv, NEW r \in ReqDoc, Sound(r), NEW s \in Found(r), s # 0
  PROVE  /\ s \in DOMAIN sub /\ s \in Nat /\ s \in 0 .. Len(sub)
         /\ (s = r.org \/ (r.org = 0 /\ s \in Listed))
BY DEF Found, Listed, Sound, BaseInv, TypeInv, DocsType

LEMMA FindSubscriptionMoves ==
  ASSUME BaseInv, NEW p \in Request, FindSubscription(p)
  PROVE  \E r \in ReqDoc :
           /\ Step(p, r) /\ Keeps /\ open' = open /\ req[p].pc = "subscription" /\ past \subseteq past'
           /\ Sound(r) /\ (Calm' => Fits(r)')
           /\ r.todo = {} /\ r.event = 0
           /\ \/ r.pc = "idle"
              \/ r.pc = "product" /\ r.acc = req[p].acc
              \/ /\ r.pc = "checkout" /\ r.acc = req[p].acc /\ (open # <<>> => "twice" \in past')
                 /\ (Calm' => Listed = {})
<1>1. /\ req[p].pc = "subscription" /\ Keeps /\ open' = open /\ past \subseteq past'
      /\ (req[p].op = "subscribe" /\ open # <<>> => "twice" \in past')
      /\ past' \subseteq past \cup {"twice"}
  BY DEF FindSubscription, Keeps, db, stripe
<1>2. /\ req[p] \in ReqDoc /\ Sound(req[p]) /\ (Calm => Fits(req[p])) /\ req[p].product \in Product
      /\ req[p].op \in {"subscribe", "unsubscribe"} /\ req[p].todo = {} /\ req[p].event = 0
      /\ DocsType /\ req[p].acc # 0 /\ account[req[p].acc].type \in Types(req[p].product)
  BY <1>1, Runs DEF Sound, MayBe, BaseInv, TypeInv, WithAccount
<1>3. (Calm' => Calm) /\ (Calm => req[p].org = orgSub /\ ~account[req[p].acc].deleted)
  BY <1>1, <1>2 DEF Calm, Fits, Asking, WithAccount
<1>4. PICK s \in Found(req[p]) :
           IF s = 0 THEN IF req[p].op = "subscribe" THEN Goto(p, "checkout") ELSE End(p)
           ELSE IF req[p].op = "unsubscribe" /\ sub[s].status # "active" THEN End(p)
           ELSE Step(p, [req[p] EXCEPT !.sub = s, !.pc = "product"])
  BY DEF FindSubscription
<1>5. CASE End(p)
  <2>1. Step(p, Idle) /\ Sound(Idle)
    BY <1>2, <1>5, EndSound DEF End
  <2> QED BY <1>1, <2>1, IdleDoc, EndFits
<1>6. CASE s = 0 /\ req[p].op = "subscribe"
  <2> DEFINE n == [req[p] EXCEPT !.pc = "checkout"]
  <2>1. /\ n \in ReqDoc /\ n.pc = "checkout" /\ n.product = req[p].product /\ n.acc = req[p].acc
        /\ n.todo = {} /\ n.event = 0 /\ n.org = req[p].org /\ n.sub = req[p].sub
        /\ n.op = req[p].op /\ n.plan = req[p].plan /\ n.current = req[p].current
    BY <1>2 DEF ReqDoc, Pcs
  <2> HIDE DEF n
  <2>2. PICK r \in ReqDoc :
        /\ Step(p, r) /\ r.pc = "checkout" /\ r.product = req[p].product /\ r.acc = req[p].acc
        /\ r.todo = {} /\ r.event = 0 /\ r.org = req[p].org /\ r.sub = req[p].sub
        /\ r.op = req[p].op /\ r.plan = req[p].plan /\ r.current = req[p].current
    BY <1>4, <1>6, <2>1 DEF Goto, n
  <2>3. Sound(r)
    BY <1>2, <1>6, <2>2 DEF Sound, MayBe, WithAccount
  <2>4. Calm' => Fits(r)'
    BY <1>1, <1>3, <2>2 DEF Fits, Keeps, Asking, WithAccount
  <2>5. Listed = {}
    BY <1>2, <1>4, <1>6 DEF Found, Listed, DocsType
  <2> QED BY <1>1, <1>6, <2>2, <2>3, <2>4, <2>5
<1>7. CASE s # 0 /\ ~End(p)
  <2>1. /\ s \in DOMAIN sub /\ s \in Nat /\ s \in 0 .. Len(sub)
        /\ (s = req[p].org \/ (req[p].org = 0 /\ s \in Listed))
    BY <1>2, <1>7, FoundIn
  <2> DEFINE n == [req[p] EXCEPT !.sub = s, !.pc = "product"]
  <2>2. /\ n \in ReqDoc /\ n.pc = "product" /\ n.product = req[p].product /\ n.acc = req[p].acc
        /\ n.todo = {} /\ n.event = 0 /\ n.org = req[p].org /\ n.sub = s
        /\ n.op = req[p].op /\ n.plan = req[p].plan /\ n.current = req[p].current
    BY <1>2, <2>1 DEF ReqDoc, Pcs
  <2> HIDE DEF n
  <2>3. PICK r \in ReqDoc :
        /\ Step(p, r) /\ r.pc = "product" /\ r.product = req[p].product /\ r.acc = req[p].acc
        /\ r.todo = {} /\ r.event = 0 /\ r.org = req[p].org /\ r.sub = s
        /\ r.op = req[p].op /\ r.plan = req[p].plan /\ r.current = req[p].current
    BY <1>4, <1>7, <2>2 DEF n
  <2>4. Sound(r)
    BY <1>1, <1>2, <1>7, <2>1, <2>3 DEF Sound, MayBe, WithAccount
  <2>5. r.op = "unsubscribe" => s \in Listed
    BY <1>4, <1>7, <2>1, <2>3 DEF Listed
  <2>6. Listed' = Listed
    BY <1>1 DEF Listed, Keeps
  <2>7. Calm' => Fits(r)'
    BY <1>1, <1>3, <2>1, <2>3, <2>5, <2>6 DEF Fits, Keeps, Asking, WithAccount
  <2> QED BY <1>1, <2>3, <2>4, <2>7
<1> QED BY <1>4, <1>5, <1>6, <1>7

LEMMA FindSubscriptionBase ==
  ASSUME BaseInv, NEW p \in Request, FindSubscription(p) PROVE BaseInv'
<1>1. req[p].pc # "idle"
  BY DEF FindSubscription
<1> QED BY <1>1, FindSubscriptionMoves, Runs, ReadStep

\* A handler that runs alone finds the subscription it found before.
LEMMA FindsAgain ==
  ASSUME BaseInv, Calm, NEW p \in Request, req[p].pc \in {"product", "cancel"}, req[p].op # "view",
         NEW s \in Found(req[p])
  PROVE  s # 0 /\ (Unsure(req[p]) = {} => s = req[p].sub)
<1>1. /\ req[p] \in ReqDoc /\ Sound(req[p]) /\ Fits(req[p]) /\ req[p].sub # 0
  BY Runs DEF Sound
<1>2. req[p].sub = req[p].org \/ (req[p].org = 0 /\ req[p].sub \in Listed)
  BY <1>1 DEF Fits
<1>3. req[p].sub \in Found(req[p])
  BY <1>1, <1>2 DEF Found
<1>4. s # 0
  BY <1>1, <1>2 DEF Found, Listed, BaseInv, TypeInv, DocsType
<1> QED BY <1>3, <1>4 DEF Unsure

LEMMA ReadProductMoves ==
  ASSUME BaseInv, NEW p \in Request, ReadProduct(p)
  PROVE  \E r \in ReqDoc :
           /\ Step(p, r) /\ Keeps /\ open' = open /\ req[p].pc = "product"
           /\ past \subseteq past' /\ past' \subseteq past \cup {"unsure"}
           /\ Sound(r) /\ (Calm' => Fits(r)')
           /\ r.todo = {} /\ r.event = 0 /\ Unsure(req[p]) \subseteq past'
           /\ \/ r.pc = "idle"
              \/ r.pc \in {"add", "cancel"} /\ r.acc = req[p].acc /\ r.product = req[p].product
              \/ /\ r.pc = "repair" /\ r.acc = req[p].acc /\ r.product = req[p].product
                 /\ req[p].op = "view"
                 /\ \E s \in Found(req[p]) : s # 0 /\ ItemsFor(s, r.product) # {}
<1>1. /\ req[p].pc = "product" /\ Keeps /\ open' = open /\ past' = past \cup Unsure(req[p])
  BY DEF ReadProduct, Keeps, db, stripe
<1>2. /\ req[p] \in ReqDoc /\ Sound(req[p]) /\ (Calm => Fits(req[p])) /\ req[p].product \in Product
      /\ req[p].op \in {"subscribe", "unsubscribe", "view"} /\ req[p].todo = {} /\ req[p].event = 0
      /\ DocsType /\ req[p].acc # 0 /\ account[req[p].acc].type \in Types(req[p].product)
      /\ req[p].current = {} /\ (req[p].op # "view" => req[p].sub # 0)
  BY <1>1, Runs DEF Sound, MayBe, BaseInv, TypeInv, WithAccount
<1>3. /\ Calm' => Calm
      /\ Calm => /\ req[p].org = orgSub /\ ~account[req[p].acc].deleted
                 /\ req[p].op # "view" =>
                      req[p].sub = req[p].org \/ (req[p].org = 0 /\ req[p].sub \in Listed)
                 /\ req[p].op = "unsubscribe" => req[p].sub \in Listed
  BY <1>1, <1>2 DEF Calm, Fits, Asking, WithAccount
<1>4. past \subseteq past' /\ past' \subseteq past \cup {"unsure"} /\ Unsure(req[p]) \subseteq past'
  BY <1>1 DEF Unsure
<1>5. Listed' = Listed /\ \A s, t : ItemsFor(s, t)' = ItemsFor(s, t)
  BY <1>1 DEF Listed, ItemsFor, Keeps
<1>6. PICK s \in Found(req[p]) :
           LET items == IF s = 0 THEN {} ELSE ItemsFor(s, req[p].product)
           IN  \/ items = {} /\ req[p].op # "subscribe" /\ End(p)
               \/ items = {} /\ req[p].op = "subscribe" /\ Goto(p, "add")
               \/ \E i \in items :
                    IF req[p].op = "subscribe" /\ i = req[p].plan THEN End(p)
                    ELSE Step(p, [req[p] EXCEPT !.current = {i}, !.pc = After(req[p].op)])
  BY DEF ReadProduct
<1>7. Calm' /\ "unsure" \notin past' /\ req[p].op # "view" => s = req[p].sub /\ s # 0
  <2> SUFFICES ASSUME Calm', "unsure" \notin past', req[p].op # "view"
               PROVE  s = req[p].sub /\ s # 0
    OBVIOUS
  <2>1. Unsure(req[p]) = {} /\ Calm
    BY <1>3, <1>4 DEF Unsure
  <2> QED BY <1>1, <2>1, FindsAgain
<1>8. CASE End(p)
  <2>1. Step(p, Idle) /\ Sound(Idle)
    BY <1>2, <1>8, EndSound DEF End
  <2> QED BY <1>1, <1>4, <2>1, IdleDoc, EndFits
<1>9. CASE /\ s = 0 \/ ItemsFor(s, req[p].product) = {}
           /\ req[p].op = "subscribe" /\ Goto(p, "add")
  <2> DEFINE n == [req[p] EXCEPT !.pc = "add"]
  <2>1. /\ n \in ReqDoc /\ n.pc = "add" /\ n.product = req[p].product /\ n.acc = req[p].acc
        /\ n.todo = {} /\ n.event = 0 /\ n.org = req[p].org /\ n.sub = req[p].sub
        /\ n.op = req[p].op /\ n.plan = req[p].plan /\ n.current = req[p].current
    BY <1>2 DEF ReqDoc, Pcs
  <2> HIDE DEF n
  <2>2. PICK r \in ReqDoc :
        /\ Step(p, r) /\ r.pc = "add" /\ r.product = req[p].product /\ r.acc = req[p].acc
        /\ r.todo = {} /\ r.event = 0 /\ r.org = req[p].org /\ r.sub = req[p].sub
        /\ r.op = req[p].op /\ r.plan = req[p].plan /\ r.current = {}
    BY <1>2, <1>9, <2>1 DEF Goto, n
  <2>3. Sound(r)
    BY <1>2, <1>9, <2>2 DEF Sound, MayBe, WithAccount
  <2>4. Calm' /\ "unsure" \notin past' => ItemsFor(r.sub, r.product)' = {}
    BY <1>5, <1>7, <1>9, <2>2
  <2>5. Calm' => Fits(r)'
    BY <1>1, <1>3, <1>5, <1>9, <2>2, <2>4 DEF Fits, Keeps, Asking, WithAccount
  <2> QED BY <1>1, <1>4, <2>2, <2>3, <2>5
<1>10. CASE \E i \in ItemsFor(s, req[p].product) : s # 0 /\
              Step(p, [req[p] EXCEPT !.current = {i}, !.pc = After(req[p].op)])
  <2>1. PICK i \in ItemsFor(s, req[p].product) : s # 0 /\
              Step(p, [req[p] EXCEPT !.current = {i}, !.pc = After(req[p].op)])
    BY <1>10
  <2> DEFINE c == After(req[p].op)
  <2>2. /\ c \in {"add", "cancel", "repair"} /\ (c = "add" <=> req[p].op = "subscribe")
        /\ (c = "cancel" <=> req[p].op = "unsubscribe") /\ (c = "repair" <=> req[p].op = "view")
    BY <1>2 DEF After
  <2>3. i \in Plan
    <3>1. s \in DOMAIN sub
      BY <1>2, <2>1, FoundIn
    <3>2. sub[s] \in Subscription
      BY <1>2, <3>1 DEF DocsType
    <3> QED BY <2>1, <3>2 DEF ItemsFor, Subscription
  <2> DEFINE n == [req[p] EXCEPT !.current = {i}, !.pc = c]
  <2>4. Step(p, n)
    BY <2>1
  <2> HIDE DEF c
  <2>5. /\ n \in ReqDoc /\ n.pc = c /\ n.product = req[p].product /\ n.acc = req[p].acc
        /\ n.todo = {} /\ n.event = 0 /\ n.org = req[p].org /\ n.sub = req[p].sub
        /\ n.op = req[p].op /\ n.plan = req[p].plan /\ n.current = {i}
    BY <1>2, <2>2, <2>3 DEF ReqDoc, Pcs
  <2> HIDE DEF n
  <2>6. PICK r \in ReqDoc :
        /\ Step(p, r) /\ r.pc = c /\ r.product = req[p].product /\ r.acc = req[p].acc
        /\ r.todo = {} /\ r.event = 0 /\ r.org = req[p].org /\ r.sub = req[p].sub
        /\ r.op = req[p].op /\ r.plan = req[p].plan /\ r.current = {i}
    BY <2>4, <2>5
  <2>7. Sound(r)
    BY <1>2, <2>2, <2>6 DEF Sound, MayBe, WithAccount
  <2>8. Calm' /\ "unsure" \notin past' /\ r.op # "view" => i \in ItemsFor(r.sub, r.product)'
    BY <1>5, <1>7, <2>1, <2>6
  <2>9. Calm' => Fits(r)'
    BY <1>1, <1>3, <1>5, <2>2, <2>6, <2>8 DEF Fits, Keeps, Asking, WithAccount
  <2>10. r.pc = "repair" => \E t \in Found(req[p]) : t # 0 /\ ItemsFor(t, r.product) # {}
    BY <1>6, <2>1, <2>6
  <2> QED BY <1>1, <1>4, <2>2, <2>6, <2>7, <2>9, <2>10
<1> QED BY <1>6, <1>8, <1>9, <1>10

LEMMA ReadProductBase ==
  ASSUME BaseInv, NEW p \in Request, ReadProduct(p) PROVE BaseInv'
<1>1. req[p].pc # "idle"
  BY DEF ReadProduct
<1> QED BY <1>1, ReadProductMoves, Runs, ReadStep

LEMMA RepairMoves ==
  ASSUME BaseInv, NEW p \in Request, Repair(p)
  PROVE  /\ End(p) /\ DocsType' /\ Grown /\ UNCHANGED <<manual, orgSub, mayTrial, stripe, past>>
         /\ req[p].pc = "repair" /\ req[p].acc \in DOMAIN account
         /\ account' = account \/ SavedAt(req[p].acc, account[req[p].acc], TRUE, FALSE)
<1> DEFINE a == req[p].acc
<1>1. /\ req[p].pc = "repair" /\ End(p) /\ UNCHANGED <<manual, orgSub, mayTrial, stripe, past>>
      /\ account' = IF account[a].deleted THEN account ELSE Saved(a, account[a], TRUE, FALSE)
  BY DEF Repair
<1>2. Sound(req[p]) /\ DocsType
  BY Runs DEF BaseInv, TypeInv
<1>3. a \in DOMAIN account
  BY <1>1, <1>2, DocsLen DEF Sound, WithAccount
<1>4. account[a] \in AccountDoc /\ account \in Seq(AccountDoc)
  BY <1>2, <1>3 DEF DocsType
<1> HIDE DEF a
<1>5. CASE account' = account
  <2>1. Keeps
    BY <1>1, <1>5 DEF Keeps, stripe
  <2> QED BY <1>1, <1>2, <1>3, <1>5, <2>1, DocsSame DEF a
<1>6. CASE account' = Saved(a, account[a], TRUE, FALSE)
  <2>1. SavedAt(a, account[a], TRUE, FALSE)
    BY <1>3, <1>4, <1>6, SavedIs
  <2>2. DocsType' /\ Grown
    BY <1>1, <1>2, <1>3, <2>1, SavedDocs DEF stripe, DocsType
  <2> QED BY <1>1, <1>3, <2>1, <2>2 DEF a
<1> QED BY <1>1, <1>5, <1>6

LEMMA RepairBase == ASSUME BaseInv, NEW p \in Request, Repair(p) PROVE BaseInv'
BY RepairMoves, EndStep

LEMMA CheckoutMoves ==
  ASSUME BaseInv, NEW p \in Request, Checkout(p)
  PROVE  /\ End(p) /\ DocsType' /\ Grown /\ UNCHANGED <<db, sub, event, past>>
         /\ req[p].pc = "checkout" /\ open' = Append(open, req[p].plan) /\ open \in Seq(Plan)
         /\ req[p].plan \in Plan
<1>1. req[p].pc = "checkout" /\ open' = Append(open, req[p].plan) /\ End(p) /\ UNCHANGED <<db, sub, event, past>>
  BY DEF Checkout
<1>2. Sound(req[p]) /\ DocsType
  BY Runs DEF BaseInv, TypeInv
<1>3. req[p].plan \in Plan
  BY <1>1, <1>2 DEF Sound, MayBe
<1>4. open \in Seq(Plan) /\ open' \in Seq(Plan)
  BY <1>1, <1>2, <1>3 DEF DocsType
<1>5. DocsType' /\ Grown
  BY <1>1, <1>2, <1>4 DEF DocsType, Grown, db
<1> QED BY <1>1, <1>3, <1>4, <1>5

LEMMA CheckoutBase == ASSUME BaseInv, NEW p \in Request, Checkout(p) PROVE BaseInv'
BY CheckoutMoves, EndStep

\* A change at Stripe, and the event that tells of it.
Told1(s, what) ==
  /\ sub' \in Seq(Subscription) /\ Len(sub') = Len(sub)
  /\ sub'[s] = what /\ \A t \in DOMAIN sub : t # s => sub'[t] = sub[t]
  /\ Len(event') = Len(event) + 1 /\ \A e \in DOMAIN event : event'[e] = event[e]
  /\ event'[Len(event) + 1] = Event(s, what)
LEMMA BecomesDocs ==
  ASSUME DocsType, NEW s \in DOMAIN sub, NEW what \in Subscription, what.status # "canceled",
         IsFiniteSet(what.items), Becomes(s, what), UNCHANGED <<db, open>>
  PROVE  DocsType' /\ Grown /\ Told1(s, what)
<1> DEFINE e == Event(s, what)
<1>1. /\ sub \in Seq(Subscription) /\ event \in Seq(EventDoc) /\ s \in Nat
      /\ DOMAIN sub = 1 .. Len(sub) /\ DOMAIN event = 1 .. Len(event)
  BY DEF DocsType
<1>2. sub' = [sub EXCEPT ![s] = what] /\ event' = Append(event, e)
  BY DEF Becomes
<1>3. e \in EventDoc /\ e.sub = s
  BY <1>1 DEF EventDoc, Event, Subscription
<1> HIDE DEF e
<1>4. /\ sub' \in Seq(Subscription) /\ Len(sub') = Len(sub) /\ sub'[s] = what
      /\ \A t \in DOMAIN sub : t # s => sub'[t] = sub[t]
  BY <1>1, <1>2
<1>5. /\ event' \in Seq(EventDoc) /\ Len(event') = Len(event) + 1
      /\ \A i \in DOMAIN event : event'[i] = event[i]
      /\ event'[Len(event) + 1] = e
  BY <1>1, <1>2, <1>3
<1>6. Told1(s, what)
  BY <1>4, <1>5 DEF Told1, e
<1>7. DOMAIN sub' = DOMAIN sub /\ DOMAIN event' = 1 .. (Len(event) + 1) /\ Len(event) \in Nat
  BY <1>1, <1>4, <1>5
<1>8. \A t \in DOMAIN sub' : IsFiniteSet(sub'[t].items)
  BY <1>4, <1>7 DEF DocsType
<1>9. \A i \in DOMAIN event' : event'[i].sub \in DOMAIN sub'
  <2> SUFFICES ASSUME NEW i \in DOMAIN event' PROVE event'[i].sub \in DOMAIN sub'
    OBVIOUS
  <2>1. CASE i \in DOMAIN event
    <3>1. event[i].sub \in DOMAIN sub
      BY <2>1 DEF DocsType
    <3> QED BY <2>1, <3>1, <1>5, <1>7
  <2>2. CASE i = Len(event) + 1
    BY <2>2, <1>3, <1>5, <1>7
  <2> QED BY <2>1, <2>2, <1>1, <1>7
<1>10. DocsType'
  BY <1>4, <1>5, <1>7, <1>8, <1>9 DEF DocsType, db
<1>11. Grown
  BY <1>4, <1>5, <1>7, DocsLen DEF Grown, db
<1> QED BY <1>6, <1>10, <1>11

LEMMA AddItemMoves ==
  ASSUME BaseInv, BillingAssumption, NEW p \in Request, AddItem(p)
  PROVE  /\ End(p) /\ DocsType' /\ Grown /\ UNCHANGED <<db, open, past>> /\ req[p].pc = "add"
         /\ \/ UNCHANGED <<sub, event>>
            \/ \E what \in Subscription :
                 /\ req[p].sub \in DOMAIN sub /\ sub[req[p].sub].status # "canceled"
                 /\ req[p].plan \in Plan /\ req[p].product = ProductOf[req[p].plan]
                 /\ what.items = (sub[req[p].sub].items \ req[p].current) \cup {req[p].plan}
                 /\ what.status = sub[req[p].sub].status
                 /\ Told1(req[p].sub, what)
<1> DEFINE s == req[p].sub
<1> DEFINE new == (sub[s].items \ req[p].current) \cup {req[p].plan}
<1>1. /\ req[p].pc = "add" /\ End(p) /\ UNCHANGED <<db, open, past>>
      /\ \/ UNCHANGED <<sub, event>>
         \/ sub[s].status # "canceled" /\ Becomes(s, [sub[s] EXCEPT !.items = new])
  BY DEF AddItem
<1>2. Sound(req[p]) /\ DocsType /\ req[p] \in ReqDoc
  BY Runs DEF BaseInv, TypeInv
<1>3. s \in DOMAIN sub /\ req[p].plan \in Plan /\ req[p].product = ProductOf[req[p].plan]
  BY <1>1, <1>2, DocsLen DEF Sound, MayBe
<1>4. CASE UNCHANGED <<sub, event>>
  <2>1. DocsType' /\ Grown
    BY <1>1, <1>2, <1>4, DocsSame DEF Keeps, db
  <2> QED BY <1>1, <1>4, <2>1
<1>5. CASE sub[s].status # "canceled" /\ Becomes(s, [sub[s] EXCEPT !.items = new])
  <2> HIDE DEF s
  <2>1. sub[s] \in Subscription /\ IsFiniteSet(sub[s].items)
    BY <1>2, <1>3 DEF DocsType
  <2>2. new \in SUBSET Plan
    BY <1>3, <2>1 DEF Subscription
  <2>3. IsFiniteSet(new)
    BY <2>1, FS_AddElement, FS_Difference
  <2> HIDE DEF new
  <2>4. PICK what \in Subscription : /\ what = [sub[s] EXCEPT !.items = new]
                                     /\ what.items = new /\ what.status = sub[s].status
    <3> DEFINE x == sub[s]
    <3> DEFINE w == [x EXCEPT !.items = new]
    <3>1. x \in Subscription
      BY <2>1
    <3> HIDE DEF x
    <3>2. w \in Subscription /\ w.items = new /\ w.status = x.status
      BY <3>1, <2>2 DEF Subscription
    <3> QED BY <3>2 DEF x
  <2>5. Becomes(s, what)
    BY <1>5, <2>4
  <2>6. DocsType' /\ Grown /\ Told1(s, what)
    BY <1>1, <1>2, <1>3, <1>5, <2>3, <2>4, <2>5, BecomesDocs
  <2> QED BY <1>1, <1>3, <1>5, <2>4, <2>6 DEF s, new
<1> QED BY <1>1, <1>4, <1>5

LEMMA AddItemBase ==
  ASSUME BaseInv, BillingAssumption, NEW p \in Request, AddItem(p) PROVE BaseInv'
BY AddItemMoves, EndStep

\* The account is about to be deleted.
LEMMA DeletesMoves ==
  ASSUME BaseInv, NEW p \in Request, req[p].pc \in {"cancel", "clear"}, Deletes(p)
  PROVE  \E r \in ReqDoc :
           /\ Step(p, r) /\ Sound(r) /\ (UNCHANGED account /\ Calm => Fits(r)')
           /\ r.pc = "delete" /\ r.product = req[p].product /\ r.acc = req[p].acc
           /\ r.todo = {} /\ r.event = 0
<1>1. /\ req[p] \in ReqDoc /\ Sound(req[p]) /\ (Calm => Fits(req[p])) /\ DocsType
  BY Runs DEF BaseInv, TypeInv
<1>2. /\ req[p].acc \in Nat /\ req[p].acc \in 0 .. Len(account) /\ req[p].acc # 0
      /\ account[req[p].acc].type \in Types(req[p].product) /\ req[p].product \in Product
      /\ (Calm => ~account[req[p].acc].deleted)
  BY <1>1 DEF Sound, Fits, WithAccount, ReqDoc
<1> DEFINE n == [Idle EXCEPT !.pc = "delete", !.product = req[p].product, !.acc = req[p].acc]
<1>3. Step(p, n)
  BY DEF Deletes
<1>4. /\ n \in ReqDoc /\ n.pc = "delete" /\ n.product = req[p].product /\ n.acc = req[p].acc
      /\ n.todo = {} /\ n.event = 0 /\ n.org = 0 /\ n.sub = 0 /\ n.op = None
  BY <1>2, IdleDoc DEF ReqDoc, Pcs
<1> HIDE DEF n
<1>5. PICK r \in ReqDoc :
      /\ Step(p, r) /\ r.pc = "delete" /\ r.product = req[p].product /\ r.acc = req[p].acc
      /\ r.todo = {} /\ r.event = 0 /\ r.org = 0 /\ r.sub = 0 /\ r.op = None
  BY <1>3, <1>4
<1>6. Sound(r)
  BY <1>1, <1>2, <1>5, NoneAssumption DEF Sound, MayBe, WithAccount, DocsType
<1>7. UNCHANGED account /\ Calm => Fits(r)'
  BY <1>2, <1>5 DEF Fits, Asking, WithAccount
<1> QED BY <1>5, <1>6, <1>7

LEMMA CancelItemMoves ==
  ASSUME BaseInv, NEW p \in Request, CancelItem(p)
  PROVE  \E r \in ReqDoc : \E s \in Found(req[p]) :
           /\ Step(p, r) /\ Sound(r) /\ (Calm' => Fits(r)') /\ DocsType' /\ Grown
           /\ UNCHANGED <<db, open>> /\ req[p].pc = "cancel"
           /\ past \subseteq past' /\ past' \subseteq past \cup {"unsure"}
           /\ Unsure(req[p]) \subseteq past'
           /\ r.todo = {} /\ r.event = 0
           /\ r.pc # "idle" => r.acc = req[p].acc /\ r.product = req[p].product
           /\ \/ /\ r.pc \in {"idle", "delete"} /\ UNCHANGED <<sub, event>>
                 /\ (r.pc = "delete" => s = 0)
              \/ /\ s # 0 /\ r.pc = "delete" /\ req[p].current \subseteq sub[s].items
                 /\ s \in DOMAIN sub /\ sub[s].status # "canceled"
                 /\ \E what \in Subscription :
                      /\ what.items = sub[s].items \ req[p].current /\ what.status = sub[s].status
                      /\ Told1(s, what)
              \/ /\ s # 0 /\ r.pc = "clear" /\ r.org = req[p].org /\ UNCHANGED event
                 /\ s \in DOMAIN sub /\ sub[s].status # "canceled"
                 /\ Cardinality(sub[s].items) <= 1 /\ sub' \in Seq(Subscription)
                 /\ Len(sub') = Len(sub) /\ sub'[s].items = sub[s].items
                 /\ sub'[s].status = "canceled"
                 /\ \A t \in DOMAIN sub : t # s => sub'[t] = sub[t]
<1>1. /\ req[p].pc = "cancel" /\ UNCHANGED <<db, open>> /\ past' = past \cup Unsure(req[p])
  BY DEF CancelItem
<1>2. /\ req[p] \in ReqDoc /\ Sound(req[p]) /\ (Calm => Fits(req[p])) /\ req[p].product \in Product
      /\ req[p].op = "unsubscribe" /\ req[p].todo = {} /\ req[p].event = 0
      /\ DocsType /\ req[p].acc # 0 /\ account[req[p].acc].type \in Types(req[p].product)
      /\ (Calm => req[p].org = orgSub /\ ~account[req[p].acc].deleted)
  BY <1>1, Runs DEF Sound, MayBe, BaseInv, TypeInv, WithAccount, Fits, Asking
<1>3. /\ past \subseteq past' /\ past' \subseteq past \cup {"unsure"} /\ Unsure(req[p]) \subseteq past'
      /\ (Calm' => Calm) /\ UNCHANGED <<account, orgSub>>
  BY <1>1 DEF Unsure, Calm, db
<1>4. PICK s \in Found(req[p]) :
           \/ s = 0 /\ Deletes(p) /\ UNCHANGED <<sub, event>>
           \/ /\ s # 0 /\ Cardinality(sub[s].items) > 1
              /\ \/ /\ req[p].current \subseteq sub[s].items /\ sub[s].status # "canceled"
                    /\ Deletes(p)
                    /\ Becomes(s, [sub[s] EXCEPT !.items = sub[s].items \ req[p].current])
                 \/ /\ ~(req[p].current \subseteq sub[s].items /\ sub[s].status # "canceled")
                    /\ End(p) /\ UNCHANGED <<sub, event>>
           \/ /\ s # 0 /\ Cardinality(sub[s].items) <= 1
              /\ IF sub[s].status = "canceled" THEN End(p) ELSE Goto(p, "clear")
              /\ sub' = [sub EXCEPT ![s].status = "canceled"]
              /\ UNCHANGED event
  BY DEF CancelItem
<1>5. s # 0 => s \in DOMAIN sub /\ sub[s] \in Subscription /\ IsFiniteSet(sub[s].items)
  BY <1>2, FoundIn DEF DocsType
<1>6. CASE End(p) /\ UNCHANGED <<sub, event>>
  <2>1. Step(p, Idle) /\ Sound(Idle)
    BY <1>2, <1>6, EndSound DEF End
  <2>2. DocsType' /\ Grown
    BY <1>1, <1>2, <1>6, DocsSame DEF Keeps, db
  <2> QED BY <1>1, <1>3, <1>6, <2>1, <2>2, IdleDoc, EndFits
<1>7. CASE s = 0 /\ Deletes(p) /\ UNCHANGED <<sub, event>>
  <2>1. PICK r \in ReqDoc :
           /\ Step(p, r) /\ Sound(r) /\ (UNCHANGED account /\ Calm => Fits(r)')
           /\ r.pc = "delete" /\ r.product = req[p].product /\ r.acc = req[p].acc
           /\ r.todo = {} /\ r.event = 0
    BY <1>1, <1>7, DeletesMoves
  <2>2. DocsType' /\ Grown
    BY <1>1, <1>2, <1>7, DocsSame DEF Keeps, db
  <2> QED BY <1>1, <1>3, <1>7, <2>1, <2>2
<1>8. CASE /\ s # 0 /\ req[p].current \subseteq sub[s].items /\ sub[s].status # "canceled"
           /\ Deletes(p) /\ Becomes(s, [sub[s] EXCEPT !.items = sub[s].items \ req[p].current])
  <2>1. PICK r \in ReqDoc :
           /\ Step(p, r) /\ Sound(r) /\ (UNCHANGED account /\ Calm => Fits(r)')
           /\ r.pc = "delete" /\ r.product = req[p].product /\ r.acc = req[p].acc
           /\ r.todo = {} /\ r.event = 0
    BY <1>1, <1>8, DeletesMoves
  <2> DEFINE x == sub[s]
  <2> DEFINE new == x.items \ req[p].current
  <2> DEFINE w == [x EXCEPT !.items = new]
  <2>2. x \in Subscription /\ IsFiniteSet(x.items) /\ Becomes(s, w) /\ x.status # "canceled"
    BY <1>5, <1>8
  <2> HIDE DEF x
  <2>3. new \in SUBSET Plan /\ IsFiniteSet(new)
    BY <2>2, FS_Difference DEF Subscription
  <2> HIDE DEF new
  <2>4. w \in Subscription /\ w.items = new /\ w.status = x.status
    BY <2>2, <2>3 DEF Subscription
  <2> HIDE DEF w
  <2>5. PICK what \in Subscription : /\ Becomes(s, what) /\ what.items = new /\ what.status = x.status
    BY <2>2, <2>4
  <2>6. DocsType' /\ Grown /\ Told1(s, what)
    BY <1>1, <1>2, <1>5, <1>8, <2>2, <2>3, <2>5, BecomesDocs
  <2>7. /\ what.items = sub[s].items \ req[p].current /\ what.status = sub[s].status
    BY <2>5 DEF new, x
  <2> QED BY <1>1, <1>3, <1>5, <1>8, <2>1, <2>6, <2>7
<1>9. CASE /\ s # 0 /\ sub[s].status = "canceled" /\ End(p)
           /\ sub' = [sub EXCEPT ![s].status = "canceled"] /\ UNCHANGED event
  <2> DEFINE x == sub[s]
  <2>1. x \in Subscription /\ x.status = "canceled" /\ sub' = [sub EXCEPT ![s] = [x EXCEPT !.status = "canceled"]]
    BY <1>5, <1>9
  <2>2. [x EXCEPT !.status = "canceled"] = x
    <3> HIDE DEF x
    <3> QED BY <2>1 DEF Subscription
  <2>3. sub' = sub
    BY <1>2, <1>5, <1>9, <2>1, <2>2 DEF DocsType
  <2> QED BY <1>6, <1>9, <2>3
<1>10. CASE /\ s # 0 /\ sub[s].status # "canceled" /\ Goto(p, "clear")
            /\ Cardinality(sub[s].items) <= 1
            /\ sub' = [sub EXCEPT ![s].status = "canceled"] /\ UNCHANGED event
  <2> DEFINE n == [req[p] EXCEPT !.pc = "clear"]
  <2>1. /\ n \in ReqDoc /\ n.pc = "clear" /\ n.product = req[p].product /\ n.acc = req[p].acc
        /\ n.todo = {} /\ n.event = 0 /\ n.org = req[p].org /\ n.sub = req[p].sub
        /\ n.op = req[p].op /\ n.plan = req[p].plan
    BY <1>2 DEF ReqDoc, Pcs
  <2> HIDE DEF n
  <2>2. PICK r \in ReqDoc :
        /\ Step(p, r) /\ r.pc = "clear" /\ r.product = req[p].product /\ r.acc = req[p].acc
        /\ r.todo = {} /\ r.event = 0 /\ r.org = req[p].org /\ r.sub = req[p].sub
        /\ r.op = req[p].op /\ r.plan = req[p].plan
    BY <1>10, <2>1 DEF Goto, n
  <2>3. Sound(r)
    BY <1>2, <2>2 DEF Sound, MayBe, WithAccount
  <2>4. Calm' => Fits(r)'
    BY <1>2, <1>3, <2>2 DEF Fits, Asking, WithAccount
  <2> DEFINE x == sub[s]
  <2> DEFINE w == [x EXCEPT !.status = "canceled"]
  <2>5. x \in Subscription /\ sub' = [sub EXCEPT ![s] = w]
    BY <1>5, <1>10
  <2>6. w \in Subscription /\ w.items = x.items /\ w.status = "canceled"
    <3> HIDE DEF x
    <3> QED BY <2>5 DEF Subscription
  <2> HIDE DEF w
  <2>7. /\ sub' \in Seq(Subscription) /\ Len(sub') = Len(sub) /\ sub'[s] = w
        /\ \A t \in DOMAIN sub : t # s => sub'[t] = sub[t]
    <3> HIDE DEF x
    <3>1. /\ sub \in Seq(Subscription) /\ s \in DOMAIN sub /\ s \in Nat
          /\ DOMAIN sub = 1 .. Len(sub)
      BY <1>2, <1>5, <1>10 DEF DocsType
    <3> QED BY <2>5, <2>6, <3>1
  <2>8. DOMAIN sub' = DOMAIN sub
    BY <2>5, <1>2 DEF DocsType
  <2>9. \A t \in DOMAIN sub' : IsFiniteSet(sub'[t].items)
    BY <1>2, <1>5, <1>10, <2>6, <2>7, <2>8 DEF DocsType
  <2>10. DocsType'
    BY <1>1, <1>2, <1>10, <2>7, <2>8, <2>9 DEF DocsType, db
  <2>11. Grown
    BY <1>1, <1>2, <1>10, <2>7, DocsLen DEF Grown, db
  <2> QED BY <1>1, <1>3, <1>5, <1>10, <2>2, <2>3, <2>4, <2>6, <2>7, <2>10, <2>11
<1> QED BY <1>4, <1>6, <1>7, <1>8, <1>9, <1>10

LEMMA CancelItemBase ==
  ASSUME BaseInv, NEW p \in Request, CancelItem(p) PROVE BaseInv'
<1>1. req[p].pc # "idle"
  BY DEF CancelItem
<1>2. PICK r \in ReqDoc :
        /\ Step(p, r) /\ Sound(r) /\ (Calm' => Fits(r)') /\ DocsType' /\ Grown
        /\ past \subseteq past'
  BY CancelItemMoves
<1> QED BY <1>1, <1>2, Runs, BaseStep

LEMMA ClearOrgMoves ==
  ASSUME BaseInv, NEW p \in Request, ClearOrg(p)
  PROVE  \E r \in ReqDoc :
           /\ Step(p, r) /\ Sound(r) /\ (Calm' => Fits(r)') /\ DocsType' /\ Grown
           /\ UNCHANGED <<manual, account, mayTrial, stripe, past>> /\ req[p].pc = "clear"
           /\ orgSub' = Cleared(req[p])
           /\ r.pc = "delete" /\ r.product = req[p].product /\ r.acc = req[p].acc
           /\ r.todo = {} /\ r.event = 0
<1>1. /\ req[p].pc = "clear" /\ UNCHANGED <<manual, account, mayTrial, stripe, past>>
      /\ orgSub' = Cleared(req[p]) /\ Deletes(p)
  BY DEF ClearOrg
<1>2. PICK r \in ReqDoc :
           /\ Step(p, r) /\ Sound(r) /\ (UNCHANGED account /\ Calm => Fits(r)')
           /\ r.pc = "delete" /\ r.product = req[p].product /\ r.acc = req[p].acc
           /\ r.todo = {} /\ r.event = 0
  BY <1>1, DeletesMoves
<1>3. DocsType' /\ Grown
  BY <1>1 DEF BaseInv, TypeInv, DocsType, Grown, Cleared, stripe
<1>4. Calm' => Fits(r)'
  BY <1>1, <1>2 DEF Calm
<1> QED BY <1>1, <1>2, <1>3, <1>4

LEMMA ClearOrgBase == ASSUME BaseInv, NEW p \in Request, ClearOrg(p) PROVE BaseInv'
<1>1. PICK r \in ReqDoc :
        /\ Step(p, r) /\ Sound(r) /\ (Calm' => Fits(r)') /\ DocsType' /\ Grown
        /\ UNCHANGED past /\ req[p].pc = "clear"
  BY ClearOrgMoves
<1>2. Calm' => Alone(p)
  BY <1>1, Runs
<1> QED BY <1>1, <1>2, BaseStep

LEMMA DeleteAccountMoves ==
  ASSUME BaseInv, NEW p \in Request, DeleteAccount(p)
  PROVE  \E r \in ReqDoc :
           /\ Step(p, r) /\ Sound(r) /\ (Calm' => Fits(r)') /\ DocsType' /\ Grown
           /\ UNCHANGED <<manual, orgSub, mayTrial, stripe, past>> /\ req[p].pc = "delete"
           /\ r.pc = "insert" /\ r.product = req[p].product /\ r.acc = req[p].acc
           /\ r.todo = {} /\ r.event = 0
           /\ req[p].acc \in DOMAIN account /\ account'[req[p].acc].deleted
           /\ Len(account') = Len(account)
           /\ \A b \in DOMAIN account : b # req[p].acc => account'[b] = account[b]
<1>1. /\ req[p].pc = "delete" /\ UNCHANGED <<manual, orgSub, mayTrial, stripe, past>>
      /\ account' = [account EXCEPT ![req[p].acc].deleted = TRUE]
      /\ Step(p, [req[p] EXCEPT !.pc = "insert"])
  BY DEF DeleteAccount, Goto
<1>2. /\ req[p] \in ReqDoc /\ Sound(req[p]) /\ req[p].product \in Product /\ DocsType
      /\ req[p].todo = {} /\ req[p].event = 0
  BY <1>1, Runs DEF Sound, BaseInv, TypeInv
<1> DEFINE a == req[p].acc
<1>3. a \in DOMAIN account /\ a \in Nat /\ account \in Seq(AccountDoc) /\ DOMAIN account = 1 .. Len(account)
  BY <1>1, <1>2, DocsLen DEF Sound, WithAccount, DocsType
<1> DEFINE x == account[a]
<1> DEFINE d == [x EXCEPT !.deleted = TRUE]
<1>4. x \in AccountDoc /\ account' = [account EXCEPT ![a] = d]
  BY <1>1, <1>3
<1> HIDE DEF a
<1>5. d \in AccountDoc /\ d.deleted /\ d.type = x.type
  <2> HIDE DEF x
  <2> QED BY <1>4 DEF AccountDoc
<1> HIDE DEF d
<1>6. /\ account' \in Seq(AccountDoc) /\ Len(account') = Len(account) /\ account'[a] = d
      /\ \A b \in DOMAIN account : b # a => account'[b] = account[b]
  BY <1>3, <1>4, <1>5
<1>7. DocsType'
  BY <1>1, <1>2, <1>6 DEF DocsType, stripe
<1>8. Grown
  BY <1>1, <1>2, <1>3, <1>5, <1>6, DocsLen DEF Grown, stripe
<1> DEFINE n == [req[p] EXCEPT !.pc = "insert"]
<1>9. /\ n \in ReqDoc /\ n.pc = "insert" /\ n.product = req[p].product /\ n.acc = req[p].acc
      /\ n.todo = {} /\ n.event = 0 /\ n.org = req[p].org /\ n.sub = req[p].sub
      /\ n.op = req[p].op /\ n.plan = req[p].plan
  BY <1>2 DEF ReqDoc, Pcs
<1> HIDE DEF n
<1>10. PICK r \in ReqDoc :
       /\ Step(p, r) /\ r.pc = "insert" /\ r.product = req[p].product /\ r.acc = req[p].acc
       /\ r.todo = {} /\ r.event = 0 /\ r.org = req[p].org /\ r.sub = req[p].sub
       /\ r.op = req[p].op /\ r.plan = req[p].plan
  BY <1>1, <1>9 DEF n
<1>11. Sound(r)
  BY <1>1, <1>2, <1>10 DEF Sound, MayBe, WithAccount
<1>12. Fits(r)'
  BY <1>10 DEF Fits, Asking, WithAccount
<1> QED BY <1>1, <1>3, <1>5, <1>6, <1>7, <1>8, <1>10, <1>11, <1>12 DEF a

LEMMA DeleteAccountBase ==
  ASSUME BaseInv, NEW p \in Request, DeleteAccount(p) PROVE BaseInv'
<1>1. PICK r \in ReqDoc :
        /\ Step(p, r) /\ Sound(r) /\ (Calm' => Fits(r)') /\ DocsType' /\ Grown
        /\ UNCHANGED past /\ req[p].pc = "delete"
  BY DeleteAccountMoves
<1>2. Calm' => Alone(p)
  BY <1>1, Runs
<1> QED BY <1>1, <1>2, BaseStep

LEMMA InsertAccountMoves ==
  ASSUME BaseInv, NEW p \in Request, InsertAccount(p)
  PROVE  /\ End(p) /\ DocsType' /\ Grown /\ UNCHANGED <<manual, orgSub, mayTrial, stripe, past>>
         /\ req[p].pc = "insert" /\ req[p].product \in Product
         /\ Len(account') = Len(account) + 1
         /\ \A b \in DOMAIN account : account'[b] = account[b]
         /\ account'[Len(account) + 1] = NewAccount(OwnType(req[p].product), manual)
<1> DEFINE d == NewAccount(OwnType(req[p].product), manual)
<1>1. /\ req[p].pc = "insert" /\ End(p) /\ UNCHANGED <<manual, orgSub, mayTrial, stripe, past>>
      /\ account' = Append(account, d)
  BY DEF InsertAccount, Fresh, OwnType
<1>2. /\ Sound(req[p]) /\ req[p].product \in Product /\ DocsType
  BY <1>1, Runs DEF Sound, BaseInv, TypeInv
<1>3. d \in AccountDoc
  BY <1>2 DEF AccountDoc, NewAccount, OwnType, DocsType
<1> HIDE DEF d
<1>4. /\ account' \in Seq(AccountDoc) /\ Len(account') = Len(account) + 1
      /\ \A b \in DOMAIN account : account'[b] = account[b]
      /\ account'[Len(account) + 1] = d
  BY <1>1, <1>2, <1>3 DEF DocsType
<1>5. DocsType'
  BY <1>1, <1>2, <1>4 DEF DocsType, stripe
<1>6. Grown
  BY <1>1, <1>2, <1>4, DocsLen DEF Grown, stripe
<1> QED BY <1>1, <1>2, <1>4, <1>5, <1>6 DEF d

LEMMA InsertAccountBase ==
  ASSUME BaseInv, NEW p \in Request, InsertAccount(p) PROVE BaseInv'
BY InsertAccountMoves, EndStep

-----------------------------------------------------------------------------
(* The webhook.                                                            *)

LEMMA BeginHookMoves ==
  ASSUME BaseInv, BillingAssumption, NEW p \in Request, BeginHook(p)
  PROVE  \E r \in ReqDoc : \E e \in DOMAIN event :
           /\ Step(p, r) /\ Sound(r) /\ (Calm' => Fits(r)') /\ DocsType' /\ Grown
           /\ UNCHANGED <<manual, account, mayTrial, stripe>> /\ req[p].pc = "idle"
           /\ past \subseteq past' /\ past' \subseteq past \cup {"overlap", "late"}
           /\ (Calm' => Alone(p))
           /\ (Late(e) => "late" \in past') /\ orgSub' = event[e].sub
           /\ ~event[e].done /\ r.pc = "item" /\ r.event = e
           /\ \A x \in r.todo : /\ x.acc = 0 /\ event[e].status = "active"
                                /\ \E i \in event[e].items : ProductOf[i] = x.product
           /\ event[e].status = "active" =>
                \A i \in event[e].items : \E x \in r.todo : x.product = ProductOf[i]
<1>1. PICK e \in DOMAIN event :
        /\ req[p].pc = "idle" /\ ~event[e].done /\ orgSub' = event[e].sub
        /\ Step(p, [Idle EXCEPT !.op = "hook", !.event = e, !.pc = "item",
             !.todo = IF event[e].status = "active"
                      THEN {[product |-> t, acc |-> 0, was |-> None] :
                              t \in {ProductOf[i] : i \in event[e].items}}
                      ELSE {}])
        /\ past' = past \cup Overlap \cup (IF Late(e) THEN {"late"} ELSE {})
        /\ UNCHANGED <<manual, account, mayTrial, stripe>>
  BY DEF BeginHook
<1>2. DocsType /\ e \in Nat /\ e \in 0 .. Len(event) /\ event[e] \in EventDoc /\ event[e].sub \in DOMAIN sub
  BY <1>1 DEF BaseInv, TypeInv, DocsType
<1> DEFINE items == event[e].items
<1> DEFINE types == {ProductOf[i] : i \in items}
<1> DEFINE T == IF event[e].status = "active"
                THEN {[product |-> t, acc |-> 0, was |-> None] : t \in types} ELSE {}
<1>3. items \subseteq Plan
  BY <1>2 DEF EventDoc
<1>4. types \subseteq Product
  BY <1>3 DEF BillingAssumption, Product
<1>5. \A x \in T : /\ x \in Todos /\ x.acc = 0 /\ event[e].status = "active"
                   /\ \E i \in items : ProductOf[i] = x.product
  BY <1>4 DEF Todos
<1>6. event[e].status = "active" => \A i \in items : \E x \in T : x.product = ProductOf[i]
  <2> SUFFICES ASSUME event[e].status = "active", NEW i \in items
               PROVE  \E x \in T : x.product = ProductOf[i]
    OBVIOUS
  <2> DEFINE x == [product |-> ProductOf[i], acc |-> 0, was |-> None]
  <2>1. x \in T /\ x.product = ProductOf[i]
    OBVIOUS
  <2> QED BY <2>1
<1> DEFINE n == [Idle EXCEPT !.op = "hook", !.event = e, !.pc = "item", !.todo = T]
<1>7. Step(p, n)
  BY <1>1
<1> HIDE DEF T, items
<1>8. /\ n \in ReqDoc /\ n.pc = "item" /\ n.event = e /\ n.todo = T /\ n.op = "hook"
      /\ n.org = 0 /\ n.sub = 0 /\ n.acc = 0
  BY <1>2, <1>5, IdleDoc DEF ReqDoc, Pcs, Ops
<1> HIDE DEF n
<1>9. PICK r \in ReqDoc :
      /\ Step(p, r) /\ r.pc = "item" /\ r.event = e /\ r.todo = T /\ r.op = "hook"
      /\ r.org = 0 /\ r.sub = 0 /\ r.acc = 0
  BY <1>7, <1>8
<1>10. Sound(r)
  BY <1>2, <1>5, <1>9 DEF Sound, MayBe, WithAccount, DocsType
<1>11. Fits(r)'
  BY <1>5, <1>9 DEF Fits, Asking, WithAccount
<1>12. DocsType' /\ Grown
  BY <1>1, <1>2 DEF DocsType, Grown, stripe
<1>13. /\ past \subseteq past' /\ past' \subseteq past \cup {"overlap", "late"}
       /\ (Late(e) => "late" \in past')
  BY <1>1 DEF Overlap
<1>14. Calm' => Alone(p)
  BY <1>1 DEF Calm, Overlap, Alone
<1>15. /\ \A x \in r.todo : /\ x.acc = 0 /\ event[e].status = "active"
                            /\ \E i \in event[e].items : ProductOf[i] = x.product
       /\ event[e].status = "active" =>
            \A i \in event[e].items : \E x \in r.todo : x.product = ProductOf[i]
  BY <1>5, <1>6, <1>9 DEF items
<1> QED BY <1>1, <1>9, <1>10, <1>11, <1>12, <1>13, <1>14, <1>15

LEMMA BeginHookBase ==
  ASSUME BaseInv, BillingAssumption, NEW p \in Request, BeginHook(p) PROVE BaseInv'
<1>1. PICK r \in ReqDoc :
        /\ Step(p, r) /\ Sound(r) /\ (Calm' => Fits(r)') /\ DocsType' /\ Grown
        /\ past \subseteq past' /\ (Calm' => Alone(p))
  BY BeginHookMoves
<1> QED BY <1>1, BaseStep

LEMMA HookAccountIn ==
  ASSUME DocsType, NEW product
  PROVE  /\ HookAccount(product) = 0 <=> Own(product) = {}
         /\ HookAccount(product) # 0 => HookAccount(product) \in Own(product)
<1>1. Own(product) \in SUBSET (Nat \ {0})
  BY DEF Own, Live, DocsType
<1>2. HookAccount(product) = FirstOf(Own(product))
  BY DEF HookAccount, Own
<1>3. CASE Own(product) = {}
  BY <1>2, <1>3 DEF FirstOf
<1>4. CASE Own(product) # {}
  BY <1>1, <1>2, <1>4, FirstIn
<1> QED BY <1>3, <1>4

LEMMA OwnIs ==
  ASSUME DocsType, NEW t \in Product, NEW a
  PROVE  a \in Own(t) <=> a \in DOMAIN account /\ account[a].type = OwnType(t) /\ ~account[a].deleted
BY DEF Own, Live, OwnType

LEMMA FindItemMoves ==
  ASSUME BaseInv, NEW p \in Request, FindItem(p)
  PROVE  \E r \in ReqDoc : \E x \in req[p].todo :
           /\ Step(p, r) /\ Sound(r) /\ (Calm' => Fits(r)') /\ Keeps
           /\ UNCHANGED <<open, past>> /\ req[p].pc = "item" /\ r.pc = "item"
           /\ \/ /\ r.event = 0 /\ r.todo = req[p].todo \ {x} /\ Own(x.product) = {}
              \/ /\ r.event = req[p].event
                 /\ \E y \in Todos : y.product = x.product /\ r.todo = (req[p].todo \ {x}) \cup {y}
<1>1. PICK x \in req[p].todo :
       LET a == HookAccount(x.product)
       IN  /\ x.acc = 0
           /\ Step(p, IF a = 0 THEN [req[p] EXCEPT !.todo = req[p].todo \ {x}, !.event = 0]
                      ELSE [req[p] EXCEPT
                        !.todo = (req[p].todo \ {x}) \cup {[x EXCEPT !.acc = a, !.was = account[a]]}])
  BY DEF FindItem
<1>2. req[p].pc = "item" /\ Keeps /\ UNCHANGED <<open, past>>
  BY DEF FindItem, Keeps, db, stripe
<1>3. /\ req[p] \in ReqDoc /\ Sound(req[p]) /\ (Calm => Fits(req[p])) /\ DocsType
  BY <1>1, Runs DEF BaseInv, TypeInv
<1>4. x \in Todos /\ req[p].todo \subseteq Todos /\ x.product \in Product
  BY <1>3 DEF ReqDoc, Todos
<1>5. Calm' => Calm
  BY <1>2 DEF Calm
<1> DEFINE a == HookAccount(x.product)
<1>6. CASE a = 0
  <2> DEFINE T == req[p].todo \ {x}
  <2> DEFINE n == [req[p] EXCEPT !.todo = T, !.event = 0]
  <2>1. Step(p, n) /\ T \in SUBSET Todos /\ Own(x.product) = {}
    BY <1>1, <1>3, <1>4, <1>6, HookAccountIn
  <2> HIDE DEF T
  <2>2. /\ n \in ReqDoc /\ n.pc = "item" /\ n.todo = T /\ n.event = 0 /\ n.op = req[p].op
        /\ n.product = req[p].product /\ n.plan = req[p].plan
        /\ n.acc = req[p].acc /\ n.org = req[p].org /\ n.sub = req[p].sub
    BY <1>2, <1>3, <2>1 DEF ReqDoc, Pcs
  <2> HIDE DEF n
  <2>3. PICK r \in ReqDoc :
        /\ Step(p, r) /\ r.pc = "item" /\ r.todo = T /\ r.event = 0 /\ r.op = req[p].op
        /\ r.product = req[p].product /\ r.plan = req[p].plan
        /\ r.acc = req[p].acc /\ r.org = req[p].org /\ r.sub = req[p].sub
    BY <2>1, <2>2
  <2>4. Sound(r)
    BY <1>2, <1>3, <2>3, DocsLen DEF Sound, MayBe, WithAccount, T
  <2>5. Calm' => Fits(r)'
    BY <1>2, <1>3, <1>5, <2>3 DEF Fits, Keeps, Asking, WithAccount, T
  <2> QED BY <1>2, <2>1, <2>3, <2>4, <2>5 DEF T
<1>7. CASE a # 0
  <2>1. /\ a \in DOMAIN account /\ account[a].type = OwnType(x.product) /\ ~account[a].deleted
        /\ a \in Nat /\ account[a] \in AccountDoc
    BY <1>3, <1>4, <1>7, HookAccountIn, OwnIs DEF DocsType
  <2> DEFINE w == account[a]
  <2> DEFINE y == [x EXCEPT !.acc = a, !.was = w]
  <2> DEFINE T == (req[p].todo \ {x}) \cup {y}
  <2> DEFINE n == [req[p] EXCEPT !.todo = T]
  <2>2. Step(p, n)
    BY <1>1, <1>7
  <2> HIDE DEF a
  <2>3. w \in AccountDoc
    BY <2>1
  <2> HIDE DEF w
  <2>4. y \in Todos /\ y.acc = a /\ y.was = w /\ y.product = x.product
    BY <1>4, <2>1, <2>3 DEF Todos
  <2>5. PICK z \in Todos : z = y /\ z.acc = a /\ z.was = w /\ z.product = x.product
    BY <2>4
  <2> HIDE DEF y
  <2>6. T \in SUBSET Todos /\ T = (req[p].todo \ {x}) \cup {z}
    BY <1>4, <2>5
  <2> HIDE DEF T
  <2>7. /\ n \in ReqDoc /\ n.pc = "item" /\ n.todo = T /\ n.event = req[p].event /\ n.op = req[p].op
        /\ n.product = req[p].product /\ n.plan = req[p].plan
        /\ n.acc = req[p].acc /\ n.org = req[p].org /\ n.sub = req[p].sub
    BY <1>2, <1>3, <2>6 DEF ReqDoc, Pcs
  <2> HIDE DEF n
  <2>8. PICK r \in ReqDoc :
        /\ Step(p, r) /\ r.pc = "item" /\ r.todo = T /\ r.event = req[p].event /\ r.op = req[p].op
        /\ r.product = req[p].product /\ r.plan = req[p].plan
        /\ r.acc = req[p].acc /\ r.org = req[p].org /\ r.sub = req[p].sub
    BY <2>2, <2>7
  <2>9. Sound(r)
    BY <1>2, <1>3, <2>1, <2>3, <2>5, <2>6, <2>8 DEF Sound, MayBe, WithAccount
  <2>10. Calm' => Fits(r)'
    <3>1. w = account[a]
      BY DEF w
    <3> QED BY <1>2, <1>3, <1>5, <2>1, <2>5, <2>6, <2>8, <3>1 DEF Fits, Keeps, Asking, WithAccount
  <2>11. r.todo = (req[p].todo \ {x}) \cup {z} /\ z.product = x.product
    BY <2>5, <2>6, <2>8
  <2> QED BY <1>2, <2>8, <2>9, <2>10, <2>11
<1> QED BY <1>6, <1>7

LEMMA FindItemBase == ASSUME BaseInv, NEW p \in Request, FindItem(p) PROVE BaseInv'
<1>1. PICK r \in ReqDoc :
        /\ Step(p, r) /\ Sound(r) /\ (Calm' => Fits(r)') /\ Keeps /\ UNCHANGED past
        /\ req[p].pc = "item"
  BY FindItemMoves
<1>2. Calm' => Alone(p)
  BY <1>1, Runs
<1> QED BY <1>1, <1>2, ReadStep

LEMMA SaveItemMoves ==
  ASSUME BaseInv, NEW p \in Request, SaveItem(p)
  PROVE  \E r \in ReqDoc : \E x \in req[p].todo :
           /\ Step(p, r) /\ Sound(r) /\ (Calm' => Fits(r)') /\ DocsType' /\ Grown
           /\ UNCHANGED <<manual, orgSub, stripe>> /\ req[p].pc = "item" /\ r.pc = "item"
           /\ past' = past /\ x.product \in Product
           /\ mayTrial' = mayTrial \ {x.product}
           /\ x.acc \in DOMAIN account /\ account[x.acc].type = OwnType(x.product)
           /\ (Calm => ~account[x.acc].deleted) /\ SavedAt(x.acc, x.was, TRUE, FALSE)
           /\ (Calm => account'[x.acc].enabled)
           /\ r.todo = req[p].todo \ {x} /\ r.event = req[p].event
<1>1. PICK x \in req[p].todo :
       /\ x.acc # 0
       /\ account' = Saved(x.acc, x.was, TRUE, FALSE)
       /\ mayTrial' = mayTrial \ {x.product}
       /\ Step(p, [req[p] EXCEPT !.todo = req[p].todo \ {x}])
       /\ past' = past
  BY DEF SaveItem
<1>2. req[p].pc = "item" /\ UNCHANGED <<manual, orgSub, stripe>>
  BY DEF SaveItem
<1>3. /\ req[p] \in ReqDoc /\ Sound(req[p]) /\ (Calm => Fits(req[p])) /\ DocsType
  BY <1>1, Runs DEF BaseInv, TypeInv
<1>4. x \in Todos /\ req[p].todo \subseteq Todos /\ x.product \in Product
  BY <1>3 DEF ReqDoc, Todos
<1>5. /\ x.acc \in DOMAIN account /\ x.was \in AccountDoc
      /\ account[x.acc].type = OwnType(x.product)
      /\ (Calm => ~account[x.acc].deleted)
      /\ (Calm => (x.was.enabled => account[x.acc].enabled))
  BY <1>1, <1>3 DEF Sound, Fits
<1>6. SavedAt(x.acc, x.was, TRUE, FALSE)
  BY <1>1, <1>3, <1>5, SavedIs DEF DocsType
<1>7. DocsType' /\ Grown
  <2>1. mayTrial' \subseteq Product
    BY <1>1, <1>3 DEF DocsType
  <2> QED BY <1>2, <1>3, <1>5, <1>6, <2>1, SavedDocs DEF stripe
<1>8. Calm' => Calm
  BY <1>1 DEF Calm
<1>9. x.was.enabled \in BOOLEAN
  BY <1>5 DEF AccountDoc
<1>10. Calm => account'[x.acc].enabled
  BY <1>5, <1>6, <1>9 DEF SavedAt
<1>11. \A a \in DOMAIN account :
         /\ account'[a].deleted = account[a].deleted
         /\ Calm => (account[a].enabled => account'[a].enabled)
  BY <1>6, <1>10 DEF SavedAt
<1> DEFINE T == req[p].todo \ {x}
<1> DEFINE n == [req[p] EXCEPT !.todo = T]
<1>12. Step(p, n) /\ T \in SUBSET Todos
  BY <1>1, <1>4
<1> HIDE DEF T
<1>13. /\ n \in ReqDoc /\ n.pc = "item" /\ n.todo = T /\ n.event = req[p].event /\ n.op = req[p].op
       /\ n.product = req[p].product /\ n.plan = req[p].plan
       /\ n.acc = req[p].acc /\ n.org = req[p].org /\ n.sub = req[p].sub
  BY <1>2, <1>3, <1>12 DEF ReqDoc, Pcs
<1> HIDE DEF n
<1>14. PICK r \in ReqDoc :
       /\ Step(p, r) /\ r.pc = "item" /\ r.todo = T /\ r.event = req[p].event /\ r.op = req[p].op
       /\ r.product = req[p].product /\ r.plan = req[p].plan
       /\ r.acc = req[p].acc /\ r.org = req[p].org /\ r.sub = req[p].sub
  BY <1>12, <1>13
<1>15. Sound(r)
  BY <1>2, <1>3, <1>14 DEF Sound, MayBe, WithAccount, T
<1>16. Calm' => Fits(r)'
  <2> SUFFICES ASSUME Calm' PROVE Fits(r)'
    OBVIOUS
  <2>1. \A y \in T : y.acc # 0 => y.acc \in DOMAIN account /\ ~account[y.acc].deleted
                                  /\ (y.was.enabled => account[y.acc].enabled)
    BY <1>3, <1>8 DEF T, Fits, Sound
  <2>2. \A y \in r.todo : y.acc # 0 => ~account'[y.acc].deleted /\ (y.was.enabled => account'[y.acc].enabled)
    BY <1>8, <1>11, <1>14, <2>1
  <2> QED BY <1>14, <2>2 DEF Fits, Asking, WithAccount
<1> QED BY <1>1, <1>2, <1>4, <1>5, <1>6, <1>7, <1>10, <1>14, <1>15, <1>16 DEF T

LEMMA SaveItemBase == ASSUME BaseInv, NEW p \in Request, SaveItem(p) PROVE BaseInv'
<1>1. PICK r \in ReqDoc : \E x \in req[p].todo :
        /\ Step(p, r) /\ Sound(r) /\ (Calm' => Fits(r)') /\ DocsType' /\ Grown
        /\ past' = past /\ req[p].pc = "item"
  BY SaveItemMoves
<1>2. past \subseteq past' /\ req[p].pc # "idle"
  BY <1>1
<1>3. Calm' => Alone(p)
  BY <1>2, Runs
<1> QED BY <1>1, <1>2, <1>3, BaseStep

LEMMA EndHookMoves ==
  ASSUME BaseInv, NEW p \in Request, EndHook(p)
  PROVE  /\ End(p) /\ DocsType' /\ Grown /\ UNCHANGED <<db, sub, open, past>>
         /\ req[p].pc = "item" /\ req[p].todo = {} /\ Len(event') = Len(event)
         /\ \A e \in DOMAIN event :
              /\ event'[e].sub = event[e].sub /\ event'[e].items = event[e].items
              /\ event'[e].status = event[e].status
              /\ event'[e].done <=> event[e].done \/ e = req[p].event
<1>1. /\ End(p) /\ UNCHANGED <<db, sub, open, past>> /\ req[p].pc = "item" /\ req[p].todo = {}
      /\ event' = [e \in DOMAIN event |->
                    [event[e] EXCEPT !.done = event[e].done \/ e = req[p].event]]
  BY DEF EndHook
<1>2. DocsType /\ event \in Seq(EventDoc) /\ Len(event) \in Nat /\ DOMAIN event = 1 .. Len(event)
  BY DocsLen DEF BaseInv, TypeInv, DocsType
<1> DEFINE b(e) == event[e].done \/ e = req[p].event
<1>3. ASSUME NEW e \in DOMAIN event
      PROVE  /\ event'[e] \in EventDoc /\ event'[e].sub = event[e].sub
             /\ event'[e].items = event[e].items /\ event'[e].status = event[e].status
             /\ event'[e].done = b(e)
  <2> DEFINE x == event[e]
  <2> DEFINE c == b(e)
  <2>1. x \in EventDoc /\ event'[e] = [x EXCEPT !.done = c]
    BY <1>1, <1>2
  <2>2. c \in BOOLEAN
    OBVIOUS
  <2> HIDE DEF x, b
  <2>3. PICK d : d = c /\ d \in BOOLEAN
    BY <2>2
  <2>4. event'[e] = [x EXCEPT !.done = d]
    BY <2>1, <2>3
  <2> HIDE DEF c
  <2>5. [x EXCEPT !.done = d] \in EventDoc
    BY <2>1, <2>3 DEF EventDoc
  <2>6. /\ [x EXCEPT !.done = d].sub = x.sub /\ [x EXCEPT !.done = d].items = x.items
        /\ [x EXCEPT !.done = d].status = x.status /\ [x EXCEPT !.done = d].done = d
    BY <2>1 DEF EventDoc
  <2> QED BY <2>3, <2>4, <2>5, <2>6 DEF x, c
<1>4. event' \in Seq(EventDoc) /\ Len(event') = Len(event) /\ DOMAIN event' = DOMAIN event
  <2>1. DOMAIN event' = 1 .. Len(event)
    BY <1>1, <1>2
  <2>2. event' = [e \in 1 .. Len(event) |-> event'[e]]
    BY <1>1, <1>2
  <2>3. \A e \in 1 .. Len(event) : event'[e] \in EventDoc
    BY <1>2, <1>3
  <2> QED BY <1>2, <2>1, <2>2, <2>3
<1>5. DocsType'
  BY <1>1, <1>2, <1>3, <1>4 DEF DocsType, db
<1>6. Grown
  BY <1>1, <1>2, <1>4, DocsLen DEF Grown, db
<1> QED BY <1>1, <1>3, <1>4, <1>5, <1>6

LEMMA EndHookBase == ASSUME BaseInv, NEW p \in Request, EndHook(p) PROVE BaseInv'
BY EndHookMoves, EndStep

LEMMA FailBase == ASSUME BaseInv, NEW p \in Request, Fail(p) PROVE BaseInv'
<1>1. /\ req[p].pc # "idle" /\ past' = past \cup {"failed"} /\ End(p) /\ Keeps
  BY DEF Fail, Keeps, db, stripe
<1> QED BY <1>1, ReadEnd

-----------------------------------------------------------------------------
(* Stripe.                                                                 *)

\* Nothing a handler relies on changes at Stripe by itself.
Follows ==
  /\ Len(sub) <= Len(sub')
  /\ \A s \in DOMAIN sub : sub'[s].items = sub[s].items
                           /\ (sub'[s].status = "canceled" <=> sub[s].status = "canceled")
LEMMA StripeBase ==
  ASSUME BaseInv, DocsType', Grown, Follows, UNCHANGED <<db, req, past>>
  PROVE  BaseInv'
<1>1. \A d \in ReqDoc : Sound(d) => Sound(d)'
  BY SoundKept DEF BaseInv, TypeInv
<1>2. /\ DOMAIN sub = 1 .. Len(sub) /\ DOMAIN sub' = 1 .. Len(sub')
      /\ Len(sub) \in Nat /\ Len(sub') \in Nat
  BY DEF DocsType, BaseInv, TypeInv
<1>3. \A s \in DOMAIN sub : s \in DOMAIN sub' /\ (s \in Listed => s \in Listed')
                            /\ \A t : ItemsFor(s, t)' = ItemsFor(s, t)
  BY <1>2 DEF Follows, Listed, ItemsFor
<1>4. ASSUME NEW d \in ReqDoc, Sound(d), Fits(d) PROVE Fits(d)'
  <2>1. UNCHANGED <<account, orgSub, mayTrial, past>>
    BY DEF db
  <2>2. d.pc \in {"product", "add", "cancel"} /\ d.op # "view" => d.sub \in DOMAIN sub
    BY <1>2, <1>4 DEF Sound
  <2>3. d.op # "view" \/ d.pc \notin {"add", "cancel"}
    BY <1>4 DEF Sound, MayBe
  <2>4. \A t : d.sub \in DOMAIN sub => ItemsFor(d.sub, t)' = ItemsFor(d.sub, t)
    BY <1>3
  <2>5. d.sub \in Listed => d.sub \in Listed'
    BY <1>3 DEF Listed
  <2> QED BY <1>4, <2>1, <2>2, <2>3, <2>4, <2>5 DEF Fits
<1>5. ASSUME NEW p \in Request PROVE Sound(req[p])' /\ (Calm' => Fits(req[p])')
  <2>1. PICK d \in ReqDoc : d = req[p] /\ Sound(d) /\ (Calm => Fits(d))
    BY Runs
  <2>2. req'[p] = d /\ (Calm' => Calm)
    BY <2>1 DEF Calm
  <2>3. Sound(d)' /\ (Calm => Fits(d)')
    BY <1>1, <1>4, <2>1
  <2> QED BY <2>2, <2>3
<1>6. TypeInv'
  BY <1>5 DEF TypeInv, BaseInv
<1>7. AloneInv'
  BY DEF AloneInv, BaseInv, Calm
<1>8. FitsInv'
  BY <1>5 DEF FitsInv
<1> QED BY <1>6, <1>7, <1>8 DEF BaseInv

LEMMA PayMoves ==
  ASSUME BaseInv, Pay
  PROVE  /\ DocsType' /\ Grown /\ Follows /\ UNCHANGED <<db, req, past>> /\ open # <<>>
         /\ Len(open') = Len(open) - 1 /\ open \in Seq(Plan) /\ open' \in Seq(Plan)
         /\ Len(sub') = Len(sub) + 1 /\ \A s \in DOMAIN sub : sub'[s] = sub[s]
         /\ Len(event') = Len(event) + 1 /\ \A e \in DOMAIN event : event'[e] = event[e]
         /\ \E i \in Plan :
              /\ sub'[Len(sub) + 1] = [items |-> {i}, status |-> "active"]
              /\ event'[Len(event) + 1] = Event(Len(sub) + 1, [items |-> {i}, status |-> "active"])
<1>1. PICK o \in DOMAIN open :
        /\ open' = RemoveAt(open, o)
        /\ sub' = Append(sub, [items |-> {open[o]}, status |-> "active"])
        /\ event' = Append(event, Event(Len(sub) + 1, [items |-> {open[o]}, status |-> "active"]))
        /\ UNCHANGED <<db, req, past>>
  BY DEF Pay
<1>2. DocsType /\ open \in Seq(Plan) /\ o \in 1 .. Len(open) /\ Len(open) \in Nat
  BY <1>1 DEF BaseInv, TypeInv, DocsType
<1> DEFINE i == open[o]
<1> DEFINE new == [items |-> {i}, status |-> "active"]
<1> DEFINE ev == Event(Len(sub) + 1, new)
<1>3. i \in Plan
  BY <1>2
<1>4. /\ Len(open') = Len(open) - 1 /\ open' \in Seq(Plan)
  <2>1. open' = SubSeq(open, 1, o - 1) \o SubSeq(open, o + 1, Len(open))
    BY <1>1 DEF RemoveAt
  <2>2. /\ SubSeq(open, 1, o - 1) \in Seq(Plan) /\ Len(SubSeq(open, 1, o - 1)) = o - 1
    BY <1>2
  <2>3. /\ SubSeq(open, o + 1, Len(open)) \in Seq(Plan)
        /\ Len(SubSeq(open, o + 1, Len(open))) = Len(open) - o
    BY <1>2
  <2> DEFINE a == SubSeq(open, 1, o - 1)
  <2> DEFINE b == SubSeq(open, o + 1, Len(open))
  <2> HIDE DEF a, b
  <2>4. a \in Seq(Plan) /\ Len(a) = o - 1 /\ b \in Seq(Plan) /\ Len(b) = Len(open) - o
    BY <2>2, <2>3 DEF a, b
  <2>5. a \o b \in Seq(Plan) /\ Len(a \o b) = Len(a) + Len(b)
    BY <2>4, ConcatProperties
  <2>6. open' = a \o b
    BY <2>1 DEF a, b
  <2>7. o \in Nat /\ Len(open) \in Nat
    BY <1>2
  <2>8. Len(a) + Len(b) = Len(open) - 1
    <3> HIDE DEF i
    <3> QED BY <2>4, <2>7
  <2> QED BY <2>5, <2>6, <2>8
<1> HIDE DEF i
<1>5. new \in Subscription /\ IsFiniteSet(new.items) /\ new.status = "active"
  BY <1>3, FS_Singleton DEF Subscription
<1>6. ev \in EventDoc /\ ev.sub = Len(sub) + 1
  BY <1>2, <1>3, DocsLen DEF Event, EventDoc
<1> HIDE DEF new, ev
<1>7. /\ sub' \in Seq(Subscription) /\ Len(sub') = Len(sub) + 1
      /\ sub'[Len(sub) + 1] = new /\ \A s \in DOMAIN sub : sub'[s] = sub[s]
      /\ DOMAIN sub' = 1 .. (Len(sub) + 1) /\ DOMAIN sub = 1 .. Len(sub) /\ Len(sub) \in Nat
  BY <1>1, <1>2, <1>5 DEF DocsType, new, i
<1>8. /\ event' \in Seq(EventDoc) /\ Len(event') = Len(event) + 1
      /\ event'[Len(event) + 1] = ev /\ \A e \in DOMAIN event : event'[e] = event[e]
      /\ DOMAIN event' = 1 .. (Len(event) + 1) /\ DOMAIN event = 1 .. Len(event) /\ Len(event) \in Nat
  <2>1. event' = Append(event, ev)
    BY <1>1 DEF ev, new, i
  <2> QED BY <1>2, <1>6, <2>1 DEF DocsType
<1>9. \A s \in DOMAIN sub' : IsFiniteSet(sub'[s].items)
  BY <1>2, <1>5, <1>7 DEF DocsType
<1>10. \A e \in DOMAIN event' : event'[e].sub \in DOMAIN sub'
  <2> SUFFICES ASSUME NEW e \in DOMAIN event' PROVE event'[e].sub \in DOMAIN sub'
    OBVIOUS
  <2>1. CASE e \in DOMAIN event
    BY <1>2, <1>7, <1>8, <2>1 DEF DocsType
  <2>2. CASE e = Len(event) + 1
    BY <1>6, <1>7, <1>8, <2>2
  <2> QED BY <1>8, <2>1, <2>2
<1>11. DocsType'
  <2>1. /\ manual' \in BOOLEAN /\ orgSub' \in 0 .. Len(sub') /\ mayTrial' \subseteq Product
        /\ account' \in Seq(AccountDoc)
    BY <1>1, <1>2, <1>7 DEF DocsType, db
  <2> QED BY <1>4, <1>7, <1>8, <1>9, <1>10, <2>1 DEF DocsType
<1>12. Grown /\ Follows
  BY <1>1, <1>2, <1>7, <1>8, DocsLen DEF Grown, Follows, db
<1>13. open # <<>>
  BY <1>2
<1>14. /\ sub'[Len(sub) + 1] = [items |-> {i}, status |-> "active"]
       /\ event'[Len(event) + 1] = Event(Len(sub) + 1, [items |-> {i}, status |-> "active"])
  BY <1>7, <1>8 DEF new, ev
<1> QED BY <1>1, <1>2, <1>3, <1>4, <1>7, <1>8, <1>11, <1>12, <1>13, <1>14

LEMMA PayBase == ASSUME BaseInv, Pay PROVE BaseInv'
BY PayMoves, StripeBase

LEMMA ChargeMoves ==
  ASSUME BaseInv, Charge
  PROVE  /\ DocsType' /\ Grown /\ Follows /\ UNCHANGED <<db, open, req, past>>
         /\ \E s \in DOMAIN sub : \E what \in Subscription :
              /\ what.items = sub[s].items /\ sub[s].status # "canceled"
              /\ what.status # "canceled" /\ Told1(s, what)
<1>1. PICK s \in DOMAIN sub : \E status \in {"active", "past_due"} :
        /\ sub[s].status \notin {"canceled", status}
        /\ Becomes(s, [sub[s] EXCEPT !.status = status])
        /\ UNCHANGED <<db, open, req, past>>
  BY DEF Charge
<1>2. PICK status \in {"active", "past_due"} :
        /\ sub[s].status \notin {"canceled", status}
        /\ Becomes(s, [sub[s] EXCEPT !.status = status])
        /\ UNCHANGED <<db, open, req, past>>
  BY <1>1
<1>3. DocsType /\ sub[s] \in Subscription /\ IsFiniteSet(sub[s].items)
  BY DEF BaseInv, TypeInv, DocsType
<1> DEFINE x == sub[s]
<1> DEFINE w == [x EXCEPT !.status = status]
<1>4. x \in Subscription /\ Becomes(s, w)
  BY <1>2, <1>3
<1> HIDE DEF x
<1>5. w \in Subscription /\ w.items = x.items /\ w.status = status
  BY <1>4 DEF Subscription
<1> HIDE DEF w
<1>6. PICK what \in Subscription :
        Becomes(s, what) /\ what.items = x.items /\ what.status = status
  BY <1>4, <1>5
<1>7. what.items = sub[s].items /\ sub[s].status # "canceled" /\ what.status # "canceled"
  BY <1>2, <1>6 DEF x
<1>8. DocsType' /\ Grown /\ Told1(s, what)
  BY <1>2, <1>3, <1>6, <1>7, BecomesDocs
<1>9. Follows
  BY <1>3, <1>7, <1>8, DocsLen DEF Follows, Told1
<1> QED BY <1>2, <1>7, <1>8, <1>9

LEMMA ChargeBase == ASSUME BaseInv, Charge PROVE BaseInv'
BY ChargeMoves, StripeBase

-----------------------------------------------------------------------------
LEMMA Triple ==
  ASSUME NEW S, NEW a \in S, NEW b \in S, NEW c \in S
  PROVE  /\ <<a, b, c>> \in Seq(S) /\ Len(<<a, b, c>>) = 3
         /\ <<a, b, c>>[1] = a /\ <<a, b, c>>[2] = b /\ <<a, b, c>>[3] = c
OBVIOUS

LEMMA InitDocs ==
  ASSUME Init
  PROVE  /\ DocsType /\ sub = <<>> /\ event = <<>> /\ open = <<>> /\ past = {}
         /\ \A p \in Request : req[p] = Idle
         /\ Len(account) = 3 /\ account[1] = NewAccount("TAG", manual)
         /\ account[2] = NewAccount("USER", manual) /\ account[3] = NewAccount("SYSTEM", TRUE)
<1>1. /\ manual \in BOOLEAN /\ orgSub = 0 /\ mayTrial = Product
      /\ account = <<NewAccount("TAG", manual), NewAccount("USER", manual), NewAccount("SYSTEM", TRUE)>>
      /\ sub = <<>> /\ open = <<>> /\ event = <<>>
  BY DEF Init
<1>2. /\ NewAccount("TAG", manual) \in AccountDoc /\ NewAccount("USER", manual) \in AccountDoc
      /\ NewAccount("SYSTEM", TRUE) \in AccountDoc
  BY <1>1 DEF NewAccount, AccountDoc
<1>3. /\ account \in Seq(AccountDoc) /\ Len(account) = 3 /\ account[1] = NewAccount("TAG", manual)
      /\ account[2] = NewAccount("USER", manual) /\ account[3] = NewAccount("SYSTEM", TRUE)
  BY <1>1, <1>2, Triple
<1>4. DocsType
  <2>1. sub \in Seq(Subscription) /\ event \in Seq(EventDoc) /\ open \in Seq(Plan)
        /\ DOMAIN sub = {} /\ DOMAIN event = {} /\ Len(sub) = 0
    BY <1>1
  <2>2. manual \in BOOLEAN /\ orgSub \in 0 .. Len(sub) /\ mayTrial \subseteq Product
    BY <1>1, <2>1
  <2>3. /\ \A s \in DOMAIN sub : IsFiniteSet(sub[s].items)
        /\ \A e \in DOMAIN event : event[e].sub \in DOMAIN sub
    BY <2>1
  <2> QED BY <1>3, <2>1, <2>2, <2>3 DEF DocsType
<1> QED BY <1>1, <1>3, <1>4 DEF Init

LEMMA InitBase == Init => BaseInv
<1> SUFFICES ASSUME Init PROVE BaseInv
  OBVIOUS
<1>1. req \in [Request -> ReqDoc] /\ \A p \in Request : req[p] = Idle
  BY IdleDoc DEF Init
<1>2. DocsType
  BY InitDocs
<1>3. \A p \in Request : Sound(req[p])
  BY <1>1, <1>2, EndSound
<1>4. Fits(Idle)
  BY IdleDoc DEF Fits, Asking, WithAccount
<1> QED BY <1>1, <1>2, <1>3, <1>4, IdleDoc DEF BaseInv, TypeInv, AloneInv, FitsInv

LEMMA NextBase == BaseInv /\ [Next]_vars => BaseInv'
<1> SUFFICES ASSUME BaseInv, [Next]_vars PROVE BaseInv'
  OBVIOUS
<1>1. ASSUME NEW p \in Request, Asks(p) \/ BeginView(p) \/ BeginHook(p)
      PROVE  BaseInv'
  BY <1>1, BillingAssumption, AskBase, ViewBase, BeginHookBase
<1>2. ASSUME NEW p \in Request, Handle(p) PROVE BaseInv'
  BY <1>2, BillingAssumption, ReadAccountBase, SaveTrialBase, SaveFlagBase, FindSubscriptionBase,
     ReadProductBase, RepairBase, CheckoutBase, AddItemBase, CancelItemBase, ClearOrgBase,
     DeleteAccountBase, InsertAccountBase, FindItemBase, SaveItemBase, EndHookBase DEF Handle
<1>3. ASSUME NEW p \in Request, Fail(p) PROVE BaseInv'
  BY <1>3, FailBase
<1>4. CASE Pay \/ Charge
  BY <1>4, PayBase, ChargeBase
<1>5. CASE UNCHANGED vars
  <2>1. UNCHANGED <<db, req, past>> /\ Keeps /\ UNCHANGED sub
    BY <1>5 DEF vars, db, Keeps
  <2>2. DocsType' /\ Grown
    BY <2>1, DocsSame DEF BaseInv, TypeInv
  <2>3. Follows
    BY <2>1 DEF Follows, BaseInv, TypeInv, DocsType
  <2> QED BY <2>1, <2>2, <2>3, StripeBase
<1> QED BY <1>1, <1>2, <1>3, <1>4, <1>5 DEF Next, Asks

THEOREM BaseCorrect == Spec => []BaseInv
BY InitBase, NextBase, PTL DEF Spec

\* The shape of the documents, of what Stripe keeps and of what the handlers remember.
THEOREM TypeSafety == Spec => []TypeOK
<1>1. BaseInv => TypeOK
  <2> SUFFICES ASSUME BaseInv PROVE TypeOK
    OBVIOUS
  <2>1. /\ DOMAIN sub = 1 .. Len(sub) /\ DOMAIN event = 1 .. Len(event)
        /\ DOMAIN account = 1 .. Len(account) /\ Len(event) \in Nat
        /\ Len(sub) \in Nat /\ Len(account) \in Nat
    BY DocsLen DEF BaseInv, TypeInv
  <2>2. \A e \in 1 .. Len(event) : event[e] \in Told
    <3> SUFFICES ASSUME NEW e \in 1 .. Len(event) PROVE event[e] \in Told
      OBVIOUS
    <3>1. PICK x \in EventDoc : x = event[e] /\ x.sub \in DOMAIN sub
      BY <2>1 DEF BaseInv, TypeInv, DocsType
    <3> QED BY <3>1 DEF EventDoc, Told
  <2>3. event \in Seq(Told)
    BY <2>1, <2>2, SeqMonotonic DEF BaseInv, TypeInv, DocsType
  <2>4. ASSUME NEW p \in Request
        PROVE  /\ {req[p].org, req[p].sub} \subseteq 0 .. Len(sub)
               /\ req[p].acc \in 0 .. Len(account) /\ req[p].event \in 0 .. Len(event)
               /\ req[p].current \subseteq Plan /\ req[p].todo \subseteq Todo
    <3>1. req[p] \in ReqDoc /\ Sound(req[p])
      BY Runs
    <3>2. \A x \in req[p].todo : x \in Todos /\ x.acc \in 0 .. Len(account)
      BY <2>1, <3>1 DEF ReqDoc, Sound, Todos
    <3>3. \A x \in req[p].todo : x \in Todo
      BY <3>2 DEF Todos, Todo
    <3> QED BY <3>1, <3>3 DEF ReqDoc, Sound
  <2> QED BY <2>3, <2>4 DEF TypeOK, BaseInv, TypeInv, DocsType
<1> QED BY <1>1, BaseCorrect, PTL

-----------------------------------------------------------------------------
(* One subscription.                                                       *)

\* A second subscription needs a second checkout, and that one is ordered where none is
\* open and no subscription is listed.
OneInv == Never({"overlap", "twice"}) =>
  /\ \A s, t \in Listed : s = t
  /\ open # <<>> => Listed = {} /\ Len(open) = 1
  /\ \A p \in Request : req[p].pc = "checkout" => Listed = {} /\ open = <<>>

LEMMA OneKept ==
  ASSUME BaseInv, OneInv, past \subseteq past', Listed' \subseteq Listed, UNCHANGED open,
         \A p \in Request : req'[p].pc = "checkout" =>
            req[p].pc = "checkout" \/ (Never({"overlap", "twice"})' => Listed = {} /\ open = <<>>)
  PROVE  OneInv'
BY DEF OneInv, Never

LEMMA OneStep ==
  ASSUME BaseInv, OneInv, past \subseteq past', Listed' \subseteq Listed, UNCHANGED open,
         NEW p \in Request, NEW r \in ReqDoc, Step(p, r),
         r.pc = "checkout" => (Never({"overlap", "twice"})' => Listed = {} /\ open = <<>>)
  PROVE  OneInv'
<1>1. \A q \in Request : IF q = p THEN req'[q] = r ELSE req'[q] = req[q]
  BY DEF Step, BaseInv, TypeInv
<1> QED BY <1>1, OneKept

LEMMA OneEnd ==
  ASSUME BaseInv, OneInv, past \subseteq past', Listed' \subseteq Listed, UNCHANGED open,
         NEW p \in Request, End(p)
  PROVE  OneInv'
BY IdleDoc, OneStep DEF End

LEMMA ToldListed ==
  ASSUME DocsType, NEW s \in DOMAIN sub, NEW what \in Subscription, what.status # "canceled",
         sub[s].status # "canceled", Told1(s, what)
  PROVE  Listed' = Listed
BY DocsLen DEF Told1, Listed

LEMMA OneHandle ==
  ASSUME BaseInv, OneInv, BillingAssumption, NEW p \in Request, Handle(p) PROVE OneInv'
<1>1. CASE ReadAccount(p) \/ ReadProduct(p) \/ FindItem(p)
  <2>1. PICK r \in ReqDoc : /\ Step(p, r) /\ Keeps /\ past \subseteq past'
                            /\ r.pc # "checkout"
    BY <1>1, ReadAccountMoves, ReadProductMoves, FindItemMoves
  <2> QED BY <2>1, OneStep DEF Keeps, Listed
<1>2. CASE FindSubscription(p)
  <2>1. PICK r \in ReqDoc :
          /\ Step(p, r) /\ Keeps /\ past \subseteq past'
          /\ r.pc = "checkout" => (open # <<>> => "twice" \in past') /\ (Calm' => Listed = {})
    BY <1>2, FindSubscriptionMoves
  <2>2. r.pc = "checkout" => (Never({"overlap", "twice"})' => Listed = {} /\ open = <<>>)
    BY <2>1 DEF Never, Calm
  <2> QED BY <2>1, <2>2, OneStep DEF Keeps, Listed
<1>3. CASE SaveTrial(p) \/ ClearOrg(p) \/ DeleteAccount(p) \/ SaveItem(p)
  <2>1. PICK r \in ReqDoc : /\ Step(p, r) /\ UNCHANGED stripe /\ past \subseteq past'
                            /\ r.pc # "checkout"
    BY <1>3, SaveTrialMoves, ClearOrgMoves, DeleteAccountMoves, SaveItemMoves
  <2> QED BY <2>1, OneStep DEF stripe, Listed
<1>4. CASE SaveFlag(p) \/ Repair(p) \/ InsertAccount(p) \/ EndHook(p)
  <2>1. End(p) /\ UNCHANGED <<sub, open>> /\ past \subseteq past'
    BY <1>4, RepairMoves, InsertAccountMoves, EndHookMoves DEF SaveFlag, stripe
  <2> QED BY <2>1, OneEnd DEF Listed
<1>5. CASE Checkout(p)
  <2>1. /\ req[p].pc = "checkout" /\ End(p) /\ UNCHANGED <<sub, past>>
        /\ open' = Append(open, req[p].plan) /\ open \in Seq(Plan)
    BY <1>5, CheckoutMoves
  <2> SUFFICES ASSUME Never({"overlap", "twice"}) PROVE OneInv'
    BY <2>1 DEF OneInv, Never
  <2>2. Listed = {} /\ open = <<>> /\ Listed' = Listed
    BY <2>1 DEF OneInv, Listed
  <2>3. Len(open') = 1
    BY <2>1, <2>2
  <2>4. ASSUME NEW q \in Request PROVE req'[q].pc # "checkout"
    <3>1. Calm
      BY DEF Never, Calm
    <3>2. q # p => req[q].pc = "idle"
      BY <2>1, <3>1, OthersIdle
    <3>3. IF q = p THEN req'[q] = Idle ELSE req'[q] = req[q]
      BY <2>1 DEF End, Step, BaseInv, TypeInv
    <3> QED BY <3>2, <3>3, IdleDoc
  <2> QED BY <2>2, <2>3, <2>4 DEF OneInv
<1>6. CASE AddItem(p)
  <2>1. /\ End(p) /\ UNCHANGED <<open, past>> /\ DocsType
        /\ \/ UNCHANGED sub
           \/ \E what \in Subscription :
                /\ req[p].sub \in DOMAIN sub /\ sub[req[p].sub].status # "canceled"
                /\ what.status = sub[req[p].sub].status /\ Told1(req[p].sub, what)
    BY <1>6, AddItemMoves DEF BaseInv, TypeInv
  <2>2. Listed' = Listed
    BY <2>1, ToldListed DEF Listed
  <2> QED BY <2>1, <2>2, OneEnd
<1>7. CASE CancelItem(p)
  <2>1. PICK r \in ReqDoc : \E s \in Found(req[p]) :
           /\ Step(p, r) /\ UNCHANGED open /\ past \subseteq past'
           /\ \/ r.pc \in {"idle", "delete"} /\ UNCHANGED <<sub, event>>
              \/ /\ r.pc = "delete" /\ s \in DOMAIN sub /\ sub[s].status # "canceled"
                 /\ \E what \in Subscription : what.status = sub[s].status /\ Told1(s, what)
              \/ /\ r.pc = "clear" /\ s \in DOMAIN sub /\ sub' \in Seq(Subscription)
                 /\ Len(sub') = Len(sub) /\ sub'[s].status = "canceled"
                 /\ \A t \in DOMAIN sub : t # s => sub'[t] = sub[t]
    BY <1>7, CancelItemMoves
  <2>2. DocsType
    BY DEF BaseInv, TypeInv
  <2>3. Listed' \subseteq Listed
    <3>1. CASE UNCHANGED sub
      BY <3>1 DEF Listed
    <3>2. CASE \E s \in DOMAIN sub : /\ sub[s].status # "canceled"
                 /\ \E what \in Subscription : what.status = sub[s].status /\ Told1(s, what)
      BY <2>2, <3>2, ToldListed
    <3>3. CASE \E s \in DOMAIN sub : /\ sub' \in Seq(Subscription)
                 /\ Len(sub') = Len(sub) /\ sub'[s].status = "canceled"
                 /\ \A t \in DOMAIN sub : t # s => sub'[t] = sub[t]
      BY <2>2, <3>3, DocsLen DEF Listed
    <3> QED BY <2>1, <3>1, <3>2, <3>3
  <2>4. r.pc # "checkout"
    BY <2>1
  <2> QED BY <2>1, <2>3, <2>4, OneStep
<1> QED BY <1>1, <1>2, <1>3, <1>4, <1>5, <1>6, <1>7 DEF Handle

LEMMA OneNext == BaseInv /\ OneInv /\ [Next]_vars => OneInv'
<1> SUFFICES ASSUME BaseInv, OneInv, [Next]_vars PROVE OneInv'
  OBVIOUS
<1>1. ASSUME NEW p \in Request, Asks(p) \/ BeginView(p) PROVE OneInv'
  <2>1. PICK r \in ReqDoc : /\ Step(p, r) /\ Keeps /\ past \subseteq past' /\ r.pc # "checkout"
    BY <1>1, BillingAssumption, AskMoves, ViewMoves DEF Begins
  <2> QED BY <2>1, OneStep DEF Keeps, Listed
<1>2. ASSUME NEW p \in Request, BeginHook(p) PROVE OneInv'
  <2>1. PICK r \in ReqDoc : /\ Step(p, r) /\ UNCHANGED stripe /\ past \subseteq past' /\ r.pc # "checkout"
    BY <1>2, BillingAssumption, BeginHookMoves
  <2> QED BY <2>1, OneStep DEF stripe, Listed
<1>3. ASSUME NEW p \in Request, Fail(p) PROVE OneInv'
  <2>1. End(p) /\ UNCHANGED <<sub, open>> /\ past \subseteq past'
    BY <1>3 DEF Fail, stripe
  <2> QED BY <2>1, OneEnd DEF Listed
<1>4. CASE Pay
  <2>1. /\ UNCHANGED <<req, past>> /\ open # <<>> /\ Len(open') = Len(open) - 1
        /\ open' \in Seq(Plan) /\ Len(sub') = Len(sub) + 1 /\ DocsType /\ DocsType'
        /\ \A s \in DOMAIN sub : sub'[s] = sub[s]
    BY <1>4, PayMoves DEF BaseInv, TypeInv
  <2> SUFFICES ASSUME Never({"overlap", "twice"}) PROVE OneInv'
    BY <2>1 DEF OneInv, Never
  <2>2. Listed = {} /\ Len(open) = 1 /\ \A p \in Request : req[p].pc # "checkout"
    BY <2>1 DEF OneInv
  <2>3. open' = <<>>
    BY <2>1, <2>2
  <2>4. ASSUME NEW s \in Listed' PROVE s = Len(sub) + 1
    <3>1. DOMAIN sub = 1 .. Len(sub) /\ DOMAIN sub' = 1 .. Len(sub') /\ Len(sub) \in Nat
      BY <2>1 DEF DocsType
    <3>2. s \in DOMAIN sub' /\ sub'[s].status # "canceled"
      BY DEF Listed
    <3>3. s \notin DOMAIN sub
      BY <2>1, <2>2, <3>2 DEF Listed
    <3> QED BY <2>1, <3>1, <3>2, <3>3
  <2> QED BY <2>1, <2>2, <2>3, <2>4 DEF OneInv
<1>5. CASE Charge
  <2>1. UNCHANGED <<open, req, past>> /\ \E s \in DOMAIN sub : \E what \in Subscription :
          /\ sub[s].status # "canceled" /\ what.status # "canceled" /\ Told1(s, what)
    BY <1>5, ChargeMoves
  <2>2. Listed' = Listed
    BY <2>1, ToldListed DEF BaseInv, TypeInv
  <2> QED BY <2>1, <2>2, OneKept
<1>6. CASE UNCHANGED vars
  <2>1. UNCHANGED <<sub, open, req, past>>
    BY <1>6 DEF vars
  <2> QED BY <2>1, OneKept DEF Listed
<1>7. ASSUME NEW p \in Request, Handle(p) PROVE OneInv'
  BY <1>7, BillingAssumption, OneHandle
<1> QED BY <1>1, <1>2, <1>3, <1>4, <1>5, <1>6, <1>7 DEF Next, Asks

LEMMA InitOne == Init => OneInv
<1> SUFFICES ASSUME Init PROVE OneInv
  OBVIOUS
<1> QED BY InitDocs, IdleDoc DEF OneInv, Listed

THEOREM OneCorrect == Spec => []OneInv
BY InitOne, OneNext, BaseCorrect, PTL DEF Spec

\* However many orders, checkouts and payments: as long as the owner's requests do not
\* overlap and nothing is ordered while a checkout is open, at most one is listed.
THEOREM SubscribedOnce == Spec => []OneSubscription
<1>1. BaseInv /\ OneInv => OneSubscription
  <2> SUFFICES ASSUME OneInv, Never({"overlap", "twice"}) PROVE Cardinality(Listed) <= 1
    BY DEF OneSubscription
  <2>1. \A s, t \in Listed : s = t
    BY DEF OneInv
  <2>2. CASE Listed = {}
    BY <2>2, FS_EmptySet
  <2>3. CASE Listed # {}
    <3>1. PICK s \in Listed : TRUE
      BY <2>3
    <3>2. Listed = {s}
      BY <2>1, <3>1
    <3>3. Cardinality({s}) = 1
      BY FS_Singleton
    <3> QED BY <3>2, <3>3
  <2> QED BY <2>2, <2>3
<1> QED BY <1>1, BaseCorrect, OneCorrect, PTL

-----------------------------------------------------------------------------
(* What may go wrong is noted, and nothing else.                           *)

LEMMA Stepped ==
  ASSUME BaseInv, NEW p \in Request, NEW r, Step(p, r)
  PROVE  req'[p] = r /\ \A q \in Request : q # p => req'[q] = req[q]
BY DEF Step, BaseInv, TypeInv

Troubles == {"overlap", "late", "mistaken", "twice", "failed", "unsure"}
LEMMA Marks ==
  ASSUME NEW p \in Request,
         \/ Asks(p) \/ BeginView(p) \/ ReadAccount(p) \/ FindSubscription(p) \/ ReadProduct(p)
         \/ CancelItem(p) \/ BeginHook(p) \/ Fail(p)
  PROVE  past \subseteq past' /\ past' \subseteq past \cup Troubles
<1>1. CASE Asks(p)
  <2>1. \E c : Begin(p, c)
    BY <1>1 DEF Asks, BeginTrial, BeginSubscribe, BeginUnsubscribe
  <2> QED BY <2>1 DEF Begin, Overlap, Troubles
<1>2. CASE BeginView(p)
  BY <1>2 DEF BeginView, Overlap, Troubles
<1>3. CASE ReadAccount(p)
  BY <1>3 DEF ReadAccount, Troubles
<1>4. CASE FindSubscription(p)
  BY <1>4 DEF FindSubscription, Troubles
<1>5. CASE ReadProduct(p) \/ CancelItem(p)
  BY <1>5 DEF ReadProduct, CancelItem, Unsure, Troubles
<1>6. CASE BeginHook(p)
  BY <1>6 DEF BeginHook, Overlap, Troubles
<1>7. CASE Fail(p)
  BY <1>7 DEF Fail, Troubles
<1> QED BY <1>1, <1>2, <1>3, <1>4, <1>5, <1>6, <1>7

\* It is unsure which subscription is meant where several are listed, which takes orders
\* that overlap or an order beside an open checkout.
SureInv == "unsure" \in past => past \cap {"overlap", "twice"} # {}

LEMMA SureFound ==
  ASSUME OneInv, NEW r, Unsure(r) # {} PROVE past \cap {"overlap", "twice"} # {}
<1>1. PICK s, t \in Found(r) : s # t
  BY DEF Unsure
<1>2. s \in Listed /\ t \in Listed
  BY <1>1 DEF Found
<1> QED BY <1>1, <1>2 DEF OneInv, Never

LEMMA SureNext == BaseInv /\ OneInv /\ SureInv /\ [Next]_vars => SureInv'
<1> SUFFICES ASSUME BaseInv, OneInv, SureInv, [Next]_vars PROVE SureInv'
  OBVIOUS
<1>1. ASSUME past \subseteq past', "unsure" \in past' => "unsure" \in past PROVE SureInv'
  BY <1>1 DEF SureInv
<1>2. ASSUME NEW p \in Request, ReadProduct(p) \/ CancelItem(p) PROVE SureInv'
  <2>1. past' = past \cup Unsure(req[p])
    BY <1>2 DEF ReadProduct, CancelItem
  <2> QED BY <2>1, SureFound DEF SureInv
<1>3. ASSUME NEW p \in Request, Asks(p) PROVE SureInv'
  <2>1. \E c : Begin(p, c)
    BY <1>3 DEF Asks, BeginTrial, BeginSubscribe, BeginUnsubscribe
  <2> QED BY <1>1, <2>1 DEF Begin, Overlap
<1>4. ASSUME NEW p \in Request, BeginView(p) \/ BeginHook(p) \/ Fail(p) PROVE SureInv'
  <2>1. CASE BeginView(p)
    <3>1. \E a : past' = past \cup Overlap \cup (IF account[a].type = "SYSTEM" THEN {"mistaken"} ELSE {})
      BY <2>1 DEF BeginView
    <3> QED BY <1>1, <3>1 DEF Overlap
  <2>2. CASE BeginHook(p)
    <3>1. \E e : past' = past \cup Overlap \cup (IF Late(e) THEN {"late"} ELSE {})
      BY <2>2 DEF BeginHook
    <3> QED BY <1>1, <3>1 DEF Overlap
  <2>3. CASE Fail(p)
    BY <1>1, <2>3 DEF Fail
  <2> QED BY <1>4, <2>1, <2>2, <2>3
<1>5. ASSUME NEW p \in Request, ReadAccount(p) \/ FindSubscription(p) PROVE SureInv'
  <2>1. past' = past \/ past' = past \cup {"mistaken"} \/ past' = past \cup {"twice"}
    BY <1>5 DEF ReadAccount, FindSubscription
  <2> QED BY <1>1, <2>1
<1>6. ASSUME NEW p \in Request, SaveFlag(p) PROVE SureInv'
  <2>1. past' = past \cup {req[p].product} /\ req[p].product \in Product
    BY <1>6, Runs DEF SaveFlag, Sound
  <2> QED BY <1>1, <2>1 DEF Product
<1>8. ASSUME UNCHANGED past PROVE SureInv'
  BY <1>1, <1>8
<1>9. ASSUME NEW p \in Request, Handle(p) PROVE SureInv'
  <2>1. CASE SaveTrial(p) \/ Repair(p) \/ Checkout(p) \/ AddItem(p) \/ ClearOrg(p)
    BY <1>8, <2>1 DEF SaveTrial, Repair, Checkout, AddItem, ClearOrg
  <2>2. CASE DeleteAccount(p) \/ InsertAccount(p) \/ FindItem(p) \/ SaveItem(p) \/ EndHook(p)
    BY <1>8, <2>2 DEF DeleteAccount, InsertAccount, FindItem, SaveItem, EndHook
  <2> QED BY <1>2, <1>5, <1>6, <1>9, <2>1, <2>2 DEF Handle
<1>10. CASE Pay \/ Charge \/ UNCHANGED vars
  BY <1>8, <1>10 DEF Pay, Charge, vars
<1> QED BY <1>3, <1>4, <1>9, <1>10 DEF Next, Asks

THEOREM SureCorrect == Spec => []SureInv
<1>1. Init => SureInv
  BY DEF Init, SureInv
<1> QED BY <1>1, SureNext, BaseCorrect, OneCorrect, PTL DEF Spec

-----------------------------------------------------------------------------
(* One trial.                                                              *)

\* The right to a trial is gone when one was granted or an event of a payment answered; of
\* the event that a handler is at work on, what is not yet done is still to do; and a
\* trial goes on only for a request that found it open.
Covered(r) ==
  r.pc = "item" /\ r.event # 0 /\ event[r.event].status = "active" =>
    \A i \in event[r.event].items :
      ProductOf[i] \notin mayTrial \/ \E x \in r.todo : x.product = ProductOf[i]
FoundOpen(r) == r.pc = "trial" \/ (r.pc = "account" /\ r.op = "trial" /\ r.may) => ~r.over
TrialInv ==
  /\ \A t \in Product : Over(t) => t \notin mayTrial
  /\ \A p \in Request : Covered(req[p]) /\ FoundOpen(req[p])

\* Events stay as they are, but for the answer.
Tells ==
  \A e \in DOMAIN event : /\ event'[e].items = event[e].items
                          /\ event'[e].status = event[e].status
LEMMA TrialStep ==
  ASSUME BaseInv, TrialInv, Tells, mayTrial' \subseteq mayTrial,
         \A t \in Product : Over(t)' => t \notin mayTrial',
         NEW p \in Request, NEW r, Step(p, r), Covered(r)', FoundOpen(r)
  PROVE  TrialInv'
<1>1. req'[p] = r /\ \A q \in Request : q # p => req'[q] = req[q]
  BY Stepped
<1>2. ASSUME NEW q \in Request, q # p PROVE Covered(req[q])' /\ FoundOpen(req[q])'
  <2>1. req'[q] = req[q] /\ Covered(req[q]) /\ FoundOpen(req[q])
    BY <1>1, <1>2 DEF TrialInv
  <2>2. req[q].event # 0 => req[q].event \in DOMAIN event
    BY DocsLen, Runs DEF Sound, BaseInv, TypeInv
  <2> QED BY <2>1, <2>2 DEF Covered, Tells
<1>3. \A q \in Request : Covered(req[q])' /\ FoundOpen(req[q])'
  BY <1>1, <1>2
<1> QED BY <1>3 DEF TrialInv, Covered, FoundOpen

\* Where nothing more is over: no event is answered and no trial granted.
LEMMA OverSame ==
  ASSUME TrialInv, past' \cap Product \subseteq past, mayTrial' \subseteq mayTrial,
         \A e \in DOMAIN event' : event'[e].done => e \in DOMAIN event /\ event'[e] = event[e]
  PROVE  \A t \in Product : Over(t)' => t \notin mayTrial'
<1> SUFFICES ASSUME NEW t \in Product, Over(t)' PROVE Over(t)
  BY DEF TrialInv
<1> QED BY DEF Over

\* A step that takes part in neither, and changes nothing of the two.
LEMMA TrialPasses ==
  ASSUME BaseInv, TrialInv, UNCHANGED <<mayTrial, event>>, past' \cap Product \subseteq past,
         NEW p \in Request, NEW r, Step(p, r), r.pc # "item",
         r.pc \in {"trial", "account"} => FoundOpen(r)
  PROVE  TrialInv'
<1>1. Tells /\ \A t \in Product : Over(t)' => t \notin mayTrial'
  BY OverSame DEF Tells
<1>2. Covered(r)' /\ FoundOpen(r)
  BY DEF Covered, FoundOpen
<1> QED BY <1>1, <1>2, TrialStep

\* Events are added, unanswered.
LEMMA Adds ==
  ASSUME DocsType, DocsType', Len(event') = Len(event) + 1,
         \A e \in DOMAIN event : event'[e] = event[e],
         NEW s, NEW what, event'[Len(event) + 1] = Event(s, what)
  PROVE  /\ Tells
         /\ \A e \in DOMAIN event' : event'[e].done => e \in DOMAIN event /\ event'[e] = event[e]
<1>1. DOMAIN event = 1 .. Len(event) /\ DOMAIN event' = 1 .. Len(event) + 1 /\ Len(event) \in Nat
  BY DEF DocsType
<1>2. ~Event(s, what).done
  BY DEF Event
<1>3. \A e \in DOMAIN event' : e \in DOMAIN event \/ e = Len(event) + 1
  BY <1>1
<1> QED BY <1>2, <1>3 DEF Tells

LEMMA TrialSaveFlag ==
  ASSUME BaseInv, TrialInv, NEW p \in Request, SaveFlag(p) PROVE TrialInv'
<1>1. /\ Step(p, Idle) /\ mayTrial' = mayTrial \ {req[p].product}
      /\ past' = past \cup {req[p].product} /\ UNCHANGED event
  BY DEF SaveFlag, Spent, End, stripe
<1>2. ASSUME NEW t \in Product, Over(t)' PROVE t \notin mayTrial'
  <2>1. Over(t) \/ t = req[p].product
    BY <1>1, <1>2 DEF Over
  <2> QED BY <1>1, <2>1 DEF TrialInv
<1>3. Covered(Idle)' /\ FoundOpen(Idle)
  BY IdleDoc DEF Covered, FoundOpen
<1>4. Tells /\ mayTrial' \subseteq mayTrial
  BY <1>1 DEF Tells
<1> QED BY <1>1, <1>2, <1>3, <1>4, TrialStep

LEMMA TrialBeginHook ==
  ASSUME BaseInv, TrialInv, BillingAssumption, NEW p \in Request, BeginHook(p) PROVE TrialInv'
<1>1. PICK r \in ReqDoc, e \in DOMAIN event :
        /\ Step(p, r) /\ UNCHANGED <<mayTrial, stripe>> /\ r.pc = "item" /\ r.event = e
        /\ event[e].status = "active" =>
             \A i \in event[e].items : \E x \in r.todo : x.product = ProductOf[i]
  BY BeginHookMoves
<1>2. past' \cap Product \subseteq past
  BY Marks DEF Troubles, Product
<1>3. Covered(r)' /\ FoundOpen(r)
  BY <1>1 DEF Covered, FoundOpen, stripe
<1>4. Tells /\ \A t \in Product : Over(t)' => t \notin mayTrial'
  BY <1>1, <1>2, OverSame DEF Tells, stripe
<1> QED BY <1>1, <1>3, <1>4, TrialStep

LEMMA TrialFindItem ==
  ASSUME BaseInv, TrialInv, NEW p \in Request, FindItem(p) PROVE TrialInv'
<1>1. PICK r \in ReqDoc, x \in req[p].todo :
        /\ Step(p, r) /\ Keeps /\ UNCHANGED past /\ req[p].pc = "item" /\ r.pc = "item"
        /\ \/ r.event = 0
           \/ /\ r.event = req[p].event
              /\ \E y \in Todos : y.product = x.product /\ r.todo = (req[p].todo \ {x}) \cup {y}
  BY FindItemMoves
<1>2. Covered(r)'
  <2>1. CASE r.event = 0
    BY <2>1 DEF Covered
  <2>2. CASE r.event = req[p].event
    <3>1. Covered(req[p])
      BY DEF TrialInv
    <3>2. r.event = 0 \/ \A t : (\E z \in req[p].todo : z.product = t) => \E z \in r.todo : z.product = t
      BY <1>1
    <3> QED BY <1>1, <2>2, <3>1, <3>2 DEF Covered, Keeps
  <2> QED BY <1>1, <2>1, <2>2
<1>3. Tells /\ FoundOpen(r) /\ \A t \in Product : Over(t)' => t \notin mayTrial'
  BY <1>1, OverSame DEF Tells, Keeps, FoundOpen
<1> QED BY <1>1, <1>2, <1>3, TrialStep DEF Keeps

LEMMA TrialSaveItem ==
  ASSUME BaseInv, TrialInv, NEW p \in Request, SaveItem(p) PROVE TrialInv'
<1>1. PICK r \in ReqDoc, x \in req[p].todo :
        /\ Step(p, r) /\ UNCHANGED <<stripe, past>> /\ req[p].pc = "item" /\ r.pc = "item"
        /\ mayTrial' = mayTrial \ {x.product}
        /\ r.todo = req[p].todo \ {x} /\ r.event = req[p].event
  BY SaveItemMoves
<1>2. Covered(r)'
  <2>1. Covered(req[p])
    BY DEF TrialInv
  <2>2. \A t : (\E z \in req[p].todo : z.product = t) => t \notin mayTrial' \/ \E z \in r.todo : z.product = t
    BY <1>1
  <2> QED BY <1>1, <2>1, <2>2 DEF Covered, stripe
<1>3. Tells /\ FoundOpen(r) /\ \A t \in Product : Over(t)' => t \notin mayTrial'
  BY <1>1, OverSame DEF Tells, stripe, FoundOpen
<1> QED BY <1>1, <1>2, <1>3, TrialStep

LEMMA TrialEndHook ==
  ASSUME BaseInv, TrialInv, NEW p \in Request, EndHook(p) PROVE TrialInv'
<1>1. /\ Step(p, Idle) /\ UNCHANGED <<mayTrial, past>> /\ req[p].pc = "item" /\ req[p].todo = {}
      /\ Len(event') = Len(event) /\ DocsType'
      /\ \A e \in DOMAIN event :
           /\ event'[e].items = event[e].items /\ event'[e].status = event[e].status
           /\ event'[e].done <=> event[e].done \/ e = req[p].event
  BY EndHookMoves DEF End, db
<1>2. DOMAIN event' = DOMAIN event /\ 0 \notin DOMAIN event
  BY <1>1 DEF DocsType, BaseInv, TypeInv
<1>3. ASSUME NEW t \in Product, Over(t)' PROVE t \notin mayTrial'
  <2>1. Covered(req[p])
    BY DEF TrialInv
  <2>2. CASE t \in past
    BY <1>1, <2>2 DEF Over, TrialInv
  <2>3. CASE t \notin past
    <3>1. PICK e \in DOMAIN event :
            /\ event'[e].done /\ event'[e].status = "active"
            /\ \E i \in event'[e].items : ProductOf[i] = t
      BY <1>1, <1>2, <1>3, <2>3 DEF Over
    <3>2. /\ event[e].done \/ e = req[p].event
          /\ event[e].status = "active" /\ \E i \in event[e].items : ProductOf[i] = t
      BY <1>1, <3>1
    <3>3. CASE event[e].done
      BY <1>1, <3>2, <3>3 DEF Over, TrialInv
    <3>4. CASE e = req[p].event
      BY <1>1, <1>2, <2>1, <3>2, <3>4 DEF Covered
    <3> QED BY <3>2, <3>3, <3>4
  <2> QED BY <2>2, <2>3
<1>4. Covered(Idle)' /\ FoundOpen(Idle)
  BY IdleDoc DEF Covered, FoundOpen
<1>5. Tells
  BY <1>1 DEF Tells
<1> QED BY <1>1, <1>3, <1>4, <1>5, TrialStep

LEMMA TrialReads ==
  ASSUME BaseInv, TrialInv, NEW p \in Request,
         ReadAccount(p) \/ FindSubscription(p) \/ ReadProduct(p) \/ SaveTrial(p)
  PROVE  TrialInv'
<1>1. CASE ReadAccount(p)
  <2>1. PICK r \in ReqDoc :
          /\ Step(p, r) /\ Keeps /\ req[p].pc = "account"
          /\ \/ r.pc = "idle"
             \/ /\ r.pc \in {"trial", "subscription", "delete"}
                /\ r.pc = "trial" =>
                     req[p].op = "trial" /\ req[p].may /\ r.over = req[p].over
    BY <1>1, ReadAccountMoves
  <2>2. FoundOpen(req[p])
    BY DEF TrialInv
  <2>3. FoundOpen(r)
    BY <2>1, <2>2 DEF FoundOpen
  <2>4. past' \cap Product \subseteq past
    BY <1>1, Marks DEF Troubles, Product
  <2> QED BY <2>1, <2>3, <2>4, TrialPasses DEF Keeps
<1>2. CASE FindSubscription(p) \/ ReadProduct(p)
  <2>1. PICK r \in ReqDoc :
          Step(p, r) /\ Keeps /\ r.pc \in {"idle", "product", "checkout", "add", "cancel", "repair"}
    BY <1>2, FindSubscriptionMoves, ReadProductMoves
  <2>2. past' \cap Product \subseteq past
    BY <1>2, Marks DEF Troubles, Product
  <2> QED BY <2>1, <2>2, TrialPasses DEF Keeps
<1>3. CASE SaveTrial(p)
  <2>1. PICK r \in ReqDoc :
          Step(p, r) /\ UNCHANGED <<mayTrial, stripe>> /\ r.pc = "flag" /\ past' = past
    BY <1>3, SaveTrialMoves
  <2> QED BY <2>1, TrialPasses DEF stripe
<1> QED BY <1>1, <1>2, <1>3

LEMMA TrialStripe ==
  ASSUME BaseInv, TrialInv, BillingAssumption, NEW p \in Request, AddItem(p) \/ CancelItem(p)
  PROVE  TrialInv'
<1>1. PICK r :
        /\ Step(p, r) /\ UNCHANGED mayTrial /\ DocsType /\ DocsType'
        /\ r.pc \in {"idle", "delete", "clear"}
        /\ UNCHANGED event \/ \E s \in DOMAIN sub, what \in Subscription : Told1(s, what)
  <2>1. CASE AddItem(p)
    BY <2>1, AddItemMoves, IdleDoc DEF End, db, BaseInv, TypeInv
  <2>2. CASE CancelItem(p)
    <3>1. PICK r \in ReqDoc, s \in Found(req[p]) :
            /\ Step(p, r) /\ DocsType' /\ UNCHANGED db
            /\ \/ r.pc \in {"idle", "delete"} /\ UNCHANGED event
               \/ /\ r.pc = "delete" /\ s \in DOMAIN sub
                  /\ \E what \in Subscription : Told1(s, what)
               \/ r.pc = "clear" /\ UNCHANGED event
      BY <2>2, CancelItemMoves
    <3> QED BY <3>1 DEF db, BaseInv, TypeInv
  <2> QED BY <2>1, <2>2
<1>2. past' \cap Product \subseteq past
  <2>1. CASE AddItem(p)
    BY <2>1 DEF AddItem
  <2>2. CASE CancelItem(p)
    BY <2>2, Marks DEF Troubles, Product
  <2> QED BY <2>1, <2>2
<1>3. CASE UNCHANGED event
  BY <1>1, <1>2, <1>3, TrialPasses
<1>4. CASE \E s \in DOMAIN sub, what \in Subscription : Told1(s, what)
  <2>1. /\ Tells
        /\ \A e \in DOMAIN event' : event'[e].done => e \in DOMAIN event /\ event'[e] = event[e]
    BY <1>1, <1>4, Adds DEF Told1
  <2>2. \A t \in Product : Over(t)' => t \notin mayTrial'
    BY <1>1, <1>2, <2>1, OverSame
  <2>3. Covered(r)' /\ FoundOpen(r)
    BY <1>1 DEF Covered, FoundOpen
  <2> QED BY <1>1, <2>1, <2>2, <2>3, TrialStep
<1> QED BY <1>1, <1>3, <1>4

LEMMA TrialWrites ==
  ASSUME BaseInv, TrialInv, NEW p \in Request,
         \/ Repair(p) \/ Checkout(p) \/ ClearOrg(p) \/ DeleteAccount(p) \/ InsertAccount(p)
         \/ Fail(p)
  PROVE  TrialInv'
<1>1. CASE Repair(p) \/ Checkout(p) \/ InsertAccount(p)
  <2>1. Step(p, Idle) /\ UNCHANGED <<mayTrial, event, past>>
    BY <1>1, RepairMoves, CheckoutMoves, InsertAccountMoves DEF End, db, stripe
  <2> QED BY <2>1, TrialPasses, IdleDoc
<1>2. CASE ClearOrg(p) \/ DeleteAccount(p)
  <2>1. PICK r \in ReqDoc :
          Step(p, r) /\ UNCHANGED <<mayTrial, stripe, past>> /\ r.pc \in {"delete", "insert"}
    BY <1>2, ClearOrgMoves, DeleteAccountMoves
  <2> QED BY <2>1, TrialPasses DEF stripe
<1>3. CASE Fail(p)
  <2>1. Step(p, Idle) /\ UNCHANGED <<mayTrial, event>> /\ past' = past \cup {"failed"}
    BY <1>3 DEF Fail, End, db, stripe
  <2> QED BY <2>1, TrialPasses, IdleDoc DEF Product
<1> QED BY <1>1, <1>2, <1>3

\* Stripe by itself.
LEMMA TrialTold ==
  ASSUME BaseInv, TrialInv, Pay \/ Charge PROVE TrialInv'
<1>1. UNCHANGED <<mayTrial, past, req>> /\ DocsType /\ DocsType'
  BY PayMoves, ChargeMoves DEF db, BaseInv, TypeInv
<1>2. /\ Tells
      /\ \A e \in DOMAIN event' : event'[e].done => e \in DOMAIN event /\ event'[e] = event[e]
  BY <1>1, PayMoves, ChargeMoves, Adds DEF Told1
<1>3. \A t \in Product : Over(t)' => t \notin mayTrial'
  BY <1>1, <1>2, OverSame
<1>4. ASSUME NEW p \in Request PROVE Covered(req[p])' /\ FoundOpen(req[p])'
  <2>1. Covered(req[p]) /\ FoundOpen(req[p]) /\ req'[p] = req[p]
    BY <1>1 DEF TrialInv
  <2>2. req[p].event # 0 => req[p].event \in DOMAIN event
    BY DocsLen, Runs DEF Sound, BaseInv, TypeInv
  <2> QED BY <1>1, <1>2, <2>1, <2>2 DEF Covered, Tells
<1> QED BY <1>3, <1>4 DEF TrialInv, Covered, FoundOpen

LEMMA TrialNext == BaseInv /\ TrialInv /\ [Next]_vars => TrialInv'
<1> SUFFICES ASSUME BaseInv, TrialInv, [Next]_vars PROVE TrialInv'
  OBVIOUS
<1>1. ASSUME NEW p \in Request, Asks(p) PROVE TrialInv'
  <2>1. PICK r \in ReqDoc : Begins(p, r)
    BY <1>1, BillingAssumption, AskMoves
  <2>2. FoundOpen(r)
    <3>1. r.product \in Product
      BY <2>1 DEF Begins, Sound
    <3> QED BY <2>1, <3>1 DEF Begins, FoundOpen, TrialInv
  <2>3. past' \cap Product \subseteq past
    BY <1>1, Marks DEF Troubles, Product
  <2> QED BY <2>1, <2>2, <2>3, TrialPasses DEF Begins, Keeps
<1>2. ASSUME NEW p \in Request, BeginView(p) PROVE TrialInv'
  <2>1. PICK r \in ReqDoc : Step(p, r) /\ Keeps /\ r.pc = "product"
    BY <1>2, ViewMoves
  <2>2. past' \cap Product \subseteq past
    BY <1>2, Marks DEF Troubles, Product
  <2> QED BY <2>1, <2>2, TrialPasses DEF Keeps
<1>3. ASSUME NEW p \in Request, BeginHook(p) PROVE TrialInv'
  BY <1>3, BillingAssumption, TrialBeginHook
<1>4. CASE UNCHANGED vars
  BY <1>4 DEF vars, stripe, db, TrialInv, Covered, FoundOpen, Over
<1>5. ASSUME NEW p \in Request, Handle(p) \/ Fail(p) PROVE TrialInv'
  BY <1>5, BillingAssumption, TrialReads, TrialSaveFlag, TrialStripe, TrialWrites, TrialFindItem,
     TrialSaveItem, TrialEndHook DEF Handle
<1>6. CASE Pay \/ Charge
  BY <1>6, TrialTold
<1> QED BY <1>1, <1>2, <1>3, <1>4, <1>5, <1>6 DEF Next, Asks

THEOREM TrialCorrect == Spec => []TrialInv
<1>1. Init => TrialInv
  <2> SUFFICES ASSUME Init PROVE TrialInv
    OBVIOUS
  <2>1. event = <<>> /\ past = {} /\ \A p \in Request : req[p] = Idle
    BY InitDocs
  <2> QED BY <2>1, IdleDoc DEF TrialInv, Over, Covered, FoundOpen
<1> QED BY <1>1, TrialNext, BaseCorrect, PTL DEF Spec

\* A trial starts only by a request that began before any other was granted and before any
\* event of a payment for the product was answered.
THEOREM TriedOnce == Spec => TrialOnce
<1>1. TrialInv /\ [Next]_vars => [\A p \in Request : SaveTrial(p) => ~req[p].over]_vars
  BY DEF TrialInv, FoundOpen, SaveTrial
<1> QED BY <1>1, TrialCorrect, PTL DEF Spec, TrialOnce

-----------------------------------------------------------------------------
(* The subscription the organisation knows.                                *)

\* The identifier the organisation keeps is of a listed subscription, until the handler
\* that canceled it has cleared it; an event that is not late tells of a listed one.
KnownInv == Never({"failed", "overlap", "late"}) =>
  /\ orgSub # 0 => \/ orgSub \in Listed
                   \/ \E p \in Request : req[p].pc = "clear" /\ req[p].org # 0
  /\ \A p \in Request : req[p].pc = "item" => orgSub \in Listed

LEMMA KnownKept ==
  ASSUME KnownInv, past \subseteq past', UNCHANGED orgSub, Listed \subseteq Listed',
         \A p \in Request : req[p].pc = "clear" => req'[p] = req[p],
         \A p \in Request : req'[p].pc = "item" => req[p].pc = "item"
  PROVE  KnownInv'
<1> SUFFICES ASSUME Never({"failed", "overlap", "late"})' PROVE KnownInv'
  BY DEF KnownInv
<1>1. Never({"failed", "overlap", "late"})
  BY DEF Never
<1>2. orgSub # 0 => \/ orgSub \in Listed
                    \/ \E p \in Request : req[p].pc = "clear" /\ req[p].org # 0
  BY <1>1 DEF KnownInv
<1>3. orgSub' # 0 => \/ orgSub' \in Listed'
                     \/ \E p \in Request : req'[p].pc = "clear" /\ req'[p].org # 0
  BY <1>2
<1>4. \A p \in Request : req'[p].pc = "item" => orgSub' \in Listed'
  BY <1>1 DEF KnownInv
<1> QED BY <1>3, <1>4 DEF KnownInv

LEMMA KnownStep ==
  ASSUME BaseInv, KnownInv, past \subseteq past', UNCHANGED orgSub, Listed \subseteq Listed',
         NEW p \in Request, NEW r, Step(p, r), req[p].pc # "clear",
         r.pc = "item" => req[p].pc = "item"
  PROVE  KnownInv'
BY Stepped, KnownKept

\* A handler that runs alone and subscribes or asks for a product finds a listed one.
LEMMA KnownFound ==
  ASSUME BaseInv, KnownInv, Never({"failed", "overlap", "late"}), NEW p \in Request,
         req[p].pc \in {"subscription", "product", "add", "cancel"},
         NEW s \in Found(req[p]), s # 0
  PROVE  s \in Listed
<1>1. Calm /\ req[p].pc # "idle"
  BY DEF Never, Calm
<1>2. req[p].org = orgSub
  BY <1>1, Runs DEF Fits, Asking
<1>3. \A q \in Request : req[q].pc # "clear"
  BY <1>1, OthersIdle
<1>4. orgSub # 0 => orgSub \in Listed
  BY <1>3 DEF KnownInv
<1> QED BY <1>2, <1>4 DEF Found

LEMMA ToldKeeps ==
  ASSUME DocsType, DocsType', NEW s, NEW what, Told1(s, what)
  PROVE  \A e \in DOMAIN event : e \in DOMAIN event' /\ event'[e] = event[e]
<1>1. DOMAIN event = 1 .. Len(event) /\ Len(event) \in Nat
  BY DocsLen
<1>2. DOMAIN event' = 1 .. Len(event') /\ Len(event') = Len(event) + 1
  BY DEF DocsType, Told1
<1> QED BY <1>1, <1>2 DEF Told1

\* What the handlers do to Stripe: nothing, a change of a listed subscription, or its end.
LEMMA CancelListed ==
  ASSUME BaseInv, NEW s \in DOMAIN sub, sub' \in Seq(Subscription), Len(sub') = Len(sub),
         sub'[s].status = "canceled", \A t \in DOMAIN sub : t # s => sub'[t] = sub[t]
  PROVE  Listed' = Listed \ {s}
<1>1. DOMAIN sub = 1 .. Len(sub) /\ DOMAIN sub' = DOMAIN sub
  BY DEF BaseInv, TypeInv, DocsType
<1> QED BY <1>1 DEF Listed

LEMMA PayListed ==
  ASSUME BaseInv, Pay
  PROVE  /\ Listed' = Listed \cup {Len(sub) + 1}
         /\ \A e \in DOMAIN event : e \in DOMAIN event' /\ event'[e] = event[e]
         /\ Len(event) + 1 \in DOMAIN event' /\ ~event'[Len(event) + 1].done
         /\ event'[Len(event) + 1].sub = Len(sub) + 1
<1>1. /\ Len(sub') = Len(sub) + 1 /\ \A s \in DOMAIN sub : sub'[s] = sub[s]
      /\ Len(event') = Len(event) + 1 /\ \A e \in DOMAIN event : event'[e] = event[e]
      /\ DocsType /\ DocsType'
  BY PayMoves DEF BaseInv, TypeInv
<1>2. PICK i : /\ sub'[Len(sub) + 1] = [items |-> {i}, status |-> "active"]
               /\ event'[Len(event) + 1] = Event(Len(sub) + 1, [items |-> {i}, status |-> "active"])
  BY PayMoves
<1>3. /\ sub'[Len(sub) + 1].status = "active" /\ ~event'[Len(event) + 1].done
      /\ event'[Len(event) + 1].sub = Len(sub) + 1
  BY <1>2 DEF Event
<1>4. /\ DOMAIN sub = 1 .. Len(sub) /\ DOMAIN event = 1 .. Len(event)
      /\ Len(sub) \in Nat /\ Len(event) \in Nat
  BY <1>1, DocsLen
<1>5. DOMAIN sub' = 1 .. (Len(sub) + 1) /\ DOMAIN event' = 1 .. (Len(event) + 1)
  BY <1>1 DEF DocsType
<1>6. Listed' = Listed \cup {Len(sub) + 1}
  BY <1>1, <1>3, <1>4, <1>5 DEF Listed
<1> QED BY <1>1, <1>3, <1>4, <1>5, <1>6

LEMMA CancelItemAlone ==
  ASSUME BaseInv, NEW p \in Request, CancelItem(p), Calm'
  PROVE  \E r \in ReqDoc : \E s \in Found(req[p]) :
           /\ Step(p, r) /\ UNCHANGED <<db, open>> /\ req[p].pc = "cancel" /\ past \subseteq past'
           /\ r.todo = {} /\ r.event = 0
           /\ r.pc # "idle" => r.acc = req[p].acc /\ r.product = req[p].product
           /\ ("unsure" \notin past' => s = req[p].sub /\ "unsure" \notin past)
           /\ \/ r.pc = "idle" /\ UNCHANGED <<sub, event>>
              \/ /\ r.pc = "delete" /\ s \in DOMAIN sub /\ s \in Listed
                 /\ req[p].current \subseteq sub[s].items /\ Listed' = Listed
                 /\ \A e \in DOMAIN event : e \in DOMAIN event' /\ event'[e] = event[e]
                 /\ \E what \in Subscription :
                      /\ what.items = sub[s].items \ req[p].current /\ what.status = sub[s].status
                      /\ Told1(s, what)
              \/ /\ r.pc = "clear" /\ r.org = req[p].org /\ UNCHANGED event
                 /\ s \in DOMAIN sub /\ s \in Listed /\ Listed' = Listed \ {s}
                 /\ Cardinality(sub[s].items) <= 1 /\ sub'[s].status = "canceled"
                 /\ \A t \in DOMAIN sub : t # s => sub'[t] = sub[t]
                 /\ DOMAIN sub' = DOMAIN sub
<1>1. PICK r \in ReqDoc, s \in Found(req[p]) :
           /\ Step(p, r) /\ UNCHANGED <<db, open>> /\ req[p].pc = "cancel" /\ DocsType'
           /\ past \subseteq past' /\ Unsure(req[p]) \subseteq past'
           /\ r.todo = {} /\ r.event = 0
           /\ r.pc # "idle" => r.acc = req[p].acc /\ r.product = req[p].product
           /\ \/ /\ r.pc \in {"idle", "delete"} /\ UNCHANGED <<sub, event>>
                 /\ (r.pc = "delete" => s = 0)
              \/ /\ s # 0 /\ r.pc = "delete" /\ req[p].current \subseteq sub[s].items
                 /\ s \in DOMAIN sub /\ sub[s].status # "canceled"
                 /\ \E what \in Subscription :
                      /\ what.items = sub[s].items \ req[p].current /\ what.status = sub[s].status
                      /\ Told1(s, what)
              \/ /\ s # 0 /\ r.pc = "clear" /\ r.org = req[p].org /\ UNCHANGED event
                 /\ s \in DOMAIN sub /\ sub[s].status # "canceled"
                 /\ Cardinality(sub[s].items) <= 1 /\ sub' \in Seq(Subscription)
                 /\ Len(sub') = Len(sub) /\ sub'[s].items = sub[s].items
                 /\ sub'[s].status = "canceled"
                 /\ \A t \in DOMAIN sub : t # s => sub'[t] = sub[t]
  BY CancelItemMoves
<1>2. Calm /\ req[p].op # "view" /\ req[p].pc = "cancel"
  BY <1>1, Runs DEF Calm, Sound, MayBe
<1>3. s # 0 /\ (Unsure(req[p]) = {} => s = req[p].sub)
  BY <1>2, FindsAgain
<1>4. "unsure" \notin past' => s = req[p].sub /\ "unsure" \notin past
  BY <1>1, <1>3 DEF Unsure
<1>5. DocsType
  BY DEF BaseInv, TypeInv
<1>6. CASE r.pc = "delete"
  <2>1. PICK what \in Subscription :
          /\ what.items = sub[s].items \ req[p].current /\ what.status = sub[s].status
          /\ Told1(s, what)
    BY <1>1, <1>3, <1>6
  <2>2. Listed' = Listed
    BY <1>1, <1>3, <1>5, <1>6, <2>1, ToldListed
  <2>3. \A e \in DOMAIN event : e \in DOMAIN event' /\ event'[e] = event[e]
    BY <1>1, <1>5, <2>1, ToldKeeps
  <2>4. s \in Listed
    BY <1>1, <1>3, <1>6 DEF Listed
  <2> QED BY <1>1, <1>3, <1>4, <1>6, <2>1, <2>2, <2>3, <2>4
<1>7. CASE r.pc = "clear"
  <2>1. Listed' = Listed \ {s} /\ s \in Listed
    BY <1>1, <1>7, CancelListed DEF Listed
  <2>2. DOMAIN sub' = DOMAIN sub
    BY <1>1, <1>7 DEF BaseInv, TypeInv, DocsType
  <2> QED BY <1>1, <1>4, <1>7, <2>1, <2>2
<1>8. CASE r.pc = "idle"
  BY <1>1, <1>3, <1>4, <1>8
<1> QED BY <1>1, <1>6, <1>7, <1>8

LEMMA KnownHandle ==
  ASSUME BaseInv, KnownInv, BillingAssumption, NEW p \in Request, Handle(p) PROVE KnownInv'
<1>1. CASE ReadAccount(p) \/ FindSubscription(p) \/ ReadProduct(p) \/ FindItem(p)
  <2>1. PICK r : /\ Step(p, r) /\ Keeps /\ past \subseteq past' /\ req[p].pc # "clear"
                 /\ r.pc = "item" => req[p].pc = "item"
    BY <1>1, ReadAccountMoves, FindSubscriptionMoves, ReadProductMoves, FindItemMoves
  <2>2. Listed' = Listed /\ UNCHANGED orgSub
    BY <2>1 DEF Keeps, Listed
  <2> QED BY <2>1, <2>2, KnownStep
<1>2. CASE SaveTrial(p) \/ DeleteAccount(p) \/ SaveItem(p)
  <2>1. PICK r : /\ Step(p, r) /\ UNCHANGED <<orgSub, stripe>> /\ past \subseteq past'
                 /\ req[p].pc # "clear" /\ (r.pc = "item" => req[p].pc = "item")
    BY <1>2, SaveTrialMoves, DeleteAccountMoves, SaveItemMoves
  <2> QED BY <2>1, KnownStep DEF stripe, Listed
<1>3. CASE SaveFlag(p) \/ Repair(p) \/ Checkout(p) \/ InsertAccount(p) \/ EndHook(p)
  <2>1. End(p) /\ UNCHANGED <<sub, orgSub>> /\ past \subseteq past' /\ req[p].pc # "clear"
    BY <1>3, RepairMoves, CheckoutMoves, InsertAccountMoves, EndHookMoves DEF SaveFlag, stripe, db
  <2> QED BY <2>1, IdleDoc, KnownStep DEF End, Listed
<1>4. CASE AddItem(p)
  <2>1. /\ End(p) /\ UNCHANGED <<db, past>> /\ req[p].pc = "add"
        /\ \/ UNCHANGED sub
           \/ \E what \in Subscription :
                /\ req[p].sub \in DOMAIN sub /\ sub[req[p].sub].status # "canceled"
                /\ what.status = sub[req[p].sub].status /\ Told1(req[p].sub, what)
    BY <1>4, AddItemMoves
  <2>2. Listed' = Listed
    BY <2>1, ToldListed DEF Listed, BaseInv, TypeInv
  <2> QED BY <2>1, <2>2, IdleDoc, KnownStep DEF End, db
<1>5. CASE CancelItem(p)
  <2> SUFFICES ASSUME Never({"failed", "overlap", "late"})' PROVE KnownInv'
    BY DEF KnownInv
  <2>1. Calm'
    BY DEF Never, Calm
  <2>2. PICK r \in ReqDoc, s \in Found(req[p]) :
          /\ Step(p, r) /\ UNCHANGED db /\ req[p].pc = "cancel" /\ past \subseteq past'
          /\ \/ r.pc = "idle" /\ UNCHANGED <<sub, event>>
             \/ r.pc = "delete" /\ Listed' = Listed
             \/ r.pc = "clear" /\ r.org = req[p].org /\ s \in Listed /\ Listed' = Listed \ {s}
    BY <1>5, <2>1, CancelItemAlone
  <2>3. CASE r.pc # "clear"
    <3>1. Listed' = Listed
      BY <2>2, <2>3 DEF Listed
    <3> QED BY <2>2, <2>3, <3>1, KnownStep DEF db
  <2>4. CASE r.pc = "clear"
    <3>1. Calm /\ Never({"failed", "overlap", "late"})
      BY <2>2 DEF Never, Calm
    <3>2. r.org = orgSub
      BY <2>2, <2>4, <3>1, Runs DEF Fits, Asking
    <3>3. req'[p] = r /\ \A q \in Request : q # p => req'[q].pc = "idle"
      BY <2>2, <3>1, Stepped, OthersIdle
    <3> QED BY <2>2, <2>4, <3>2, <3>3 DEF KnownInv, db
  <2> QED BY <2>3, <2>4
<1>6. CASE ClearOrg(p)
  <2>1. PICK r : /\ Step(p, r) /\ UNCHANGED <<stripe, past>> /\ req[p].pc = "clear"
                 /\ r.pc = "delete" /\ orgSub' = Cleared(req[p])
    BY <1>6, ClearOrgMoves
  <2> SUFFICES ASSUME Never({"failed", "overlap", "late"}) PROVE KnownInv'
    BY <2>1 DEF KnownInv, Never
  <2>2. Calm
    BY DEF Never, Calm
  <2>3. req[p].org = orgSub
    BY <2>1, <2>2, Runs DEF Fits, Asking
  <2>4. orgSub' = 0
    BY <2>1, <2>3 DEF Cleared
  <2>5. \A q \in Request : req'[q].pc # "item"
    BY <2>1, <2>2, Stepped, OthersIdle
  <2> QED BY <2>4, <2>5 DEF KnownInv
<1> QED BY <1>1, <1>2, <1>3, <1>4, <1>5, <1>6 DEF Handle

\* An event that is not late tells of a listed subscription, as it is.
LEMMA NotLate ==
  ASSUME BaseInv, NEW e \in DOMAIN event, ~Late(e)
  PROVE  /\ event[e].sub \in Listed /\ sub[event[e].sub].items = event[e].items
         /\ sub[event[e].sub].status = event[e].status
<1>1. event[e] \in EventDoc /\ event[e].sub \in DOMAIN sub
  BY DEF BaseInv, TypeInv, DocsType
<1>2. event[e].status # "canceled"
  BY <1>1 DEF EventDoc
<1> QED BY <1>1, <1>2 DEF Late, Listed

LEMMA KnownNext == BaseInv /\ KnownInv /\ [Next]_vars => KnownInv'
<1> SUFFICES ASSUME BaseInv, KnownInv, [Next]_vars PROVE KnownInv'
  OBVIOUS
<1>1. ASSUME NEW p \in Request, Asks(p) \/ BeginView(p) PROVE KnownInv'
  <2>1. PICK r : /\ Step(p, r) /\ Keeps /\ past \subseteq past' /\ req[p].pc # "clear"
                 /\ r.pc # "item"
    BY <1>1, BillingAssumption, AskMoves, ViewMoves DEF Begins
  <2>2. Listed' = Listed /\ UNCHANGED orgSub
    BY <2>1 DEF Keeps, Listed
  <2> QED BY <2>1, <2>2, KnownStep
<1>2. ASSUME NEW p \in Request, BeginHook(p) PROVE KnownInv'
  <2>1. PICK e \in DOMAIN event : /\ Late(e) => "late" \in past'
                                  /\ orgSub' = event[e].sub /\ UNCHANGED stripe
    BY <1>2, BillingAssumption, BeginHookMoves
  <2> SUFFICES ASSUME Never({"failed", "overlap", "late"})' PROVE KnownInv'
    BY DEF KnownInv
  <2>2. ~Late(e)
    BY <2>1 DEF Never
  <2>3. orgSub' \in Listed'
    BY <2>1, <2>2, NotLate DEF Listed, stripe
  <2> QED BY <2>3 DEF KnownInv
<1>3. ASSUME NEW p \in Request, Fail(p) PROVE KnownInv'
  BY <1>3 DEF Fail, KnownInv, Never
<1>4. CASE Pay
  <2>1. UNCHANGED <<orgSub, req, past>> /\ Listed \subseteq Listed'
    BY <1>4, PayMoves, PayListed DEF db
  <2> QED BY <2>1, KnownKept
<1>5. CASE Charge
  <2>1. UNCHANGED <<db, req, past>> /\ \E s \in DOMAIN sub : \E what \in Subscription :
          /\ sub[s].status # "canceled" /\ what.status # "canceled" /\ Told1(s, what)
    BY <1>5, ChargeMoves
  <2>2. Listed' = Listed
    BY <2>1, ToldListed DEF BaseInv, TypeInv
  <2> QED BY <2>1, <2>2, KnownKept DEF db
<1>6. CASE UNCHANGED vars
  BY <1>6, KnownKept DEF vars, Listed
<1>7. ASSUME NEW p \in Request, Handle(p) PROVE KnownInv'
  BY <1>7, BillingAssumption, KnownHandle
<1> QED BY <1>1, <1>2, <1>3, <1>4, <1>5, <1>6, <1>7 DEF Next, Asks

THEOREM KnownCorrect == Spec => []KnownInv
<1>1. Init => KnownInv
  <2> SUFFICES ASSUME Init PROVE KnownInv
    OBVIOUS
  <2>1. orgSub = 0 /\ \A p \in Request : req[p] = Idle
    BY InitDocs DEF Init
  <2> QED BY <2>1, IdleDoc DEF KnownInv
<1> QED BY <1>1, KnownNext, BaseCorrect, PTL DEF Spec

\* A listed subscription the organisation does not know of is one that it is told of, and
\* the one that is being canceled is gone.
ToldInv == Never({"failed", "overlap", "late", "twice"}) =>
  /\ Listed # {} => \/ orgSub \in Listed
                    \/ \E e \in DOMAIN event : ~event[e].done /\ event[e].sub \in Listed
  /\ \A p \in Request : req[p].pc = "clear" => orgSub \notin Listed

LEMMA ToldKept ==
  ASSUME ToldInv, past \subseteq past', UNCHANGED orgSub, Listed' = Listed,
         \A e \in DOMAIN event : /\ e \in DOMAIN event' /\ event'[e].sub = event[e].sub
                                 /\ event'[e].done => event[e].done,
         \A p \in Request : req'[p].pc = "clear" => req[p].pc = "clear"
  PROVE  ToldInv'
<1> SUFFICES ASSUME Never({"failed", "overlap", "late", "twice"})' PROVE ToldInv'
  BY DEF ToldInv
<1>1. Never({"failed", "overlap", "late", "twice"})
  BY DEF Never
<1>2. Listed # {} => \/ orgSub \in Listed
                     \/ \E e \in DOMAIN event : ~event[e].done /\ event[e].sub \in Listed
  BY <1>1 DEF ToldInv
<1>3. Listed' # {} => \/ orgSub' \in Listed'
                      \/ \E e \in DOMAIN event' : ~event'[e].done /\ event'[e].sub \in Listed'
  BY <1>2
<1>4. \A p \in Request : req'[p].pc = "clear" => orgSub' \notin Listed'
  BY <1>1 DEF ToldInv
<1> QED BY <1>3, <1>4 DEF ToldInv

LEMMA ToldStep ==
  ASSUME BaseInv, ToldInv, past \subseteq past', UNCHANGED <<orgSub, event>>, Listed' = Listed,
         NEW p \in Request, NEW r, Step(p, r), r.pc # "clear"
  PROVE  ToldInv'
BY Stepped, ToldKept

LEMMA ToldHandle ==
  ASSUME BaseInv, OneInv, KnownInv, ToldInv, BillingAssumption, NEW p \in Request, Handle(p)
  PROVE  ToldInv'
<1>1. CASE ReadAccount(p) \/ FindSubscription(p) \/ ReadProduct(p) \/ FindItem(p)
  <2>1. PICK r : Step(p, r) /\ Keeps /\ past \subseteq past' /\ r.pc # "clear"
    BY <1>1, ReadAccountMoves, FindSubscriptionMoves, ReadProductMoves, FindItemMoves
  <2>2. Listed' = Listed /\ UNCHANGED <<orgSub, event>>
    BY <2>1 DEF Keeps, Listed
  <2> QED BY <2>1, <2>2, ToldStep
<1>2. CASE SaveTrial(p) \/ DeleteAccount(p) \/ SaveItem(p)
  <2>1. PICK r : Step(p, r) /\ UNCHANGED <<orgSub, stripe>> /\ past \subseteq past' /\ r.pc # "clear"
    BY <1>2, SaveTrialMoves, DeleteAccountMoves, SaveItemMoves
  <2> QED BY <2>1, ToldStep DEF stripe, Listed
<1>3. CASE SaveFlag(p) \/ Repair(p) \/ Checkout(p) \/ InsertAccount(p)
  <2>1. End(p) /\ UNCHANGED <<sub, event, orgSub>> /\ past \subseteq past'
    BY <1>3, RepairMoves, CheckoutMoves, InsertAccountMoves DEF SaveFlag, stripe, db
  <2> QED BY <2>1, IdleDoc, ToldStep DEF End, Listed
<1>4. CASE AddItem(p)
  <2>1. /\ End(p) /\ UNCHANGED <<db, past>> /\ DocsType /\ DocsType'
        /\ \/ UNCHANGED <<sub, event>>
           \/ \E what \in Subscription :
                /\ req[p].sub \in DOMAIN sub /\ sub[req[p].sub].status # "canceled"
                /\ what.status = sub[req[p].sub].status /\ Told1(req[p].sub, what)
    BY <1>4, AddItemMoves DEF BaseInv, TypeInv
  <2>2. Listed' = Listed
    BY <2>1, ToldListed DEF Listed
  <2>3. \A e \in DOMAIN event : e \in DOMAIN event' /\ event'[e] = event[e]
    BY <2>1, ToldKeeps
  <2>4. \A q \in Request : req'[q].pc = "clear" => req[q].pc = "clear"
    BY <2>1, Stepped, IdleDoc DEF End
  <2> QED BY <2>1, <2>2, <2>3, <2>4, ToldKept DEF db
<1>5. CASE CancelItem(p)
  <2> SUFFICES ASSUME Never({"failed", "overlap", "late", "twice"})' PROVE ToldInv'
    BY DEF ToldInv
  <2>1. Calm'
    BY DEF Never, Calm
  <2>2. PICK r \in ReqDoc, s \in Found(req[p]) :
          /\ Step(p, r) /\ UNCHANGED db /\ past \subseteq past'
          /\ \/ r.pc = "idle" /\ UNCHANGED <<sub, event>>
             \/ /\ r.pc = "delete" /\ Listed' = Listed
                /\ \A e \in DOMAIN event : e \in DOMAIN event' /\ event'[e] = event[e]
             \/ r.pc = "clear" /\ s \in Listed /\ Listed' = Listed \ {s}
    BY <1>5, <2>1, CancelItemAlone
  <2>3. CASE r.pc # "clear"
    <3>1. Listed' = Listed /\ \A e \in DOMAIN event : e \in DOMAIN event' /\ event'[e] = event[e]
      BY <2>2, <2>3 DEF Listed
    <3>2. \A q \in Request : req'[q].pc = "clear" => req[q].pc = "clear"
      BY <2>2, <2>3, Stepped
    <3> QED BY <2>2, <3>1, <3>2, ToldKept DEF db
  <2>4. CASE r.pc = "clear"
    <3>1. \A a, b \in Listed : a = b
      BY <2>2 DEF OneInv, Never
    <3>2. Listed' = {}
      BY <2>2, <2>4, <3>1
    <3> QED BY <3>2 DEF ToldInv
  <2> QED BY <2>3, <2>4
<1>6. CASE ClearOrg(p)
  <2>1. PICK r : /\ Step(p, r) /\ UNCHANGED <<stripe, past>> /\ req[p].pc = "clear"
                 /\ r.pc = "delete" /\ orgSub' = Cleared(req[p])
    BY <1>6, ClearOrgMoves
  <2> SUFFICES ASSUME Never({"failed", "overlap", "late", "twice"}) PROVE ToldInv'
    BY <2>1 DEF ToldInv, Never
  <2>2. orgSub \notin Listed /\ Listed' = Listed /\ UNCHANGED event
    BY <2>1 DEF ToldInv, stripe, Listed
  <2>3. Calm
    BY DEF Never, Calm
  <2>4. \A q \in Request : req'[q].pc # "clear"
    BY <2>1, <2>3, Stepped, OthersIdle
  <2> QED BY <2>2, <2>4 DEF ToldInv
<1>7. CASE EndHook(p)
  <2>1. /\ End(p) /\ UNCHANGED <<db, sub, past>> /\ req[p].pc = "item"
    BY <1>7, EndHookMoves
  <2> SUFFICES ASSUME Never({"failed", "overlap", "late", "twice"}) PROVE ToldInv'
    BY <2>1 DEF ToldInv, Never
  <2>2. orgSub \in Listed /\ Listed' = Listed /\ UNCHANGED orgSub
    BY <2>1 DEF KnownInv, Never, Listed, db
  <2>3. Calm
    BY DEF Never, Calm
  <2>4. \A q \in Request : req'[q].pc # "clear"
    BY <2>1, <2>3, Stepped, OthersIdle, IdleDoc DEF End
  <2> QED BY <2>2, <2>4 DEF ToldInv
<1> QED BY <1>1, <1>2, <1>3, <1>4, <1>5, <1>6, <1>7 DEF Handle

LEMMA ToldNext == BaseInv /\ OneInv /\ KnownInv /\ ToldInv /\ [Next]_vars => ToldInv'
<1> SUFFICES ASSUME BaseInv, OneInv, KnownInv, ToldInv, [Next]_vars PROVE ToldInv'
  OBVIOUS
<1>1. ASSUME NEW p \in Request, Asks(p) \/ BeginView(p) PROVE ToldInv'
  <2>1. PICK r : Step(p, r) /\ Keeps /\ past \subseteq past' /\ r.pc # "clear"
    BY <1>1, BillingAssumption, AskMoves, ViewMoves DEF Begins
  <2>2. Listed' = Listed /\ UNCHANGED <<orgSub, event>>
    BY <2>1 DEF Keeps, Listed
  <2> QED BY <2>1, <2>2, ToldStep
<1>2. ASSUME NEW p \in Request, BeginHook(p) PROVE ToldInv'
  <2>1. PICK r \in ReqDoc, e \in DOMAIN event :
          /\ Step(p, r) /\ r.pc = "item" /\ (Late(e) => "late" \in past') /\ (Calm' => Alone(p))
          /\ orgSub' = event[e].sub /\ UNCHANGED stripe
    BY <1>2, BillingAssumption, BeginHookMoves
  <2> SUFFICES ASSUME Never({"failed", "overlap", "late", "twice"})' PROVE ToldInv'
    BY DEF ToldInv
  <2>2. ~Late(e) /\ Alone(p)
    BY <2>1 DEF Never, Calm
  <2>3. orgSub' \in Listed'
    BY <2>1, <2>2, NotLate DEF Listed, stripe
  <2>4. \A q \in Request : req'[q].pc # "clear"
    BY <2>1, <2>2, Stepped DEF Alone
  <2> QED BY <2>3, <2>4 DEF ToldInv
<1>3. ASSUME NEW p \in Request, Fail(p) PROVE ToldInv'
  BY <1>3 DEF Fail, ToldInv, Never
<1>4. CASE Pay
  <2>1. UNCHANGED <<orgSub, req, past>> /\ Listed' = Listed \cup {Len(sub) + 1}
    BY <1>4, PayMoves, PayListed DEF db
  <2>2. \E e \in DOMAIN event' : ~event'[e].done /\ event'[e].sub \in Listed'
    BY <1>4, <2>1, PayListed
  <2>3. orgSub # Len(sub) + 1
    BY DEF BaseInv, TypeInv, DocsType
  <2>4. ToldInv => (Never({"failed", "overlap", "late", "twice"})' =>
                      \A p \in Request : req'[p].pc = "clear" => orgSub' \notin Listed')
    BY <2>1, <2>3 DEF ToldInv, Never
  <2> QED BY <2>2, <2>4 DEF ToldInv
<1>5. CASE Charge
  <2>1. /\ UNCHANGED <<db, req, past>> /\ DocsType /\ DocsType'
        /\ \E s \in DOMAIN sub : \E what \in Subscription :
             /\ sub[s].status # "canceled" /\ what.status # "canceled" /\ Told1(s, what)
    BY <1>5, ChargeMoves DEF BaseInv, TypeInv
  <2>2. Listed' = Listed
    BY <2>1, ToldListed
  <2>3. \A e \in DOMAIN event : e \in DOMAIN event' /\ event'[e] = event[e]
    BY <2>1, ToldKeeps
  <2> QED BY <2>1, <2>2, <2>3, ToldKept DEF db
<1>6. CASE UNCHANGED vars
  BY <1>6, ToldKept DEF vars, Listed
<1>7. ASSUME NEW p \in Request, Handle(p) PROVE ToldInv'
  BY <1>7, BillingAssumption, ToldHandle
<1> QED BY <1>1, <1>2, <1>3, <1>4, <1>5, <1>6, <1>7 DEF Next, Asks

THEOREM ToldCorrect == Spec => []ToldInv
<1>1. Init => ToldInv
  <2> SUFFICES ASSUME Init PROVE ToldInv
    OBVIOUS
  <2>1. Listed = {} /\ \A p \in Request : req[p] = Idle
    BY InitDocs DEF Listed
  <2> QED BY <2>1, IdleDoc DEF ToldInv
<1> QED BY <1>1, ToldNext, BaseCorrect, OneCorrect, KnownCorrect, PTL DEF Spec

\* When everything is told and nothing runs, the organisation has the identifier of a
\* listed subscription, and none when none is listed.
THEOREM SubscriptionIsKnown == Spec => []OrgKnowsSubscription
<1>1. KnownInv /\ ToldInv => OrgKnowsSubscription
  <2> SUFFICES ASSUME KnownInv, ToldInv, Quiet, Never({"failed", "overlap", "late", "twice"})
               PROVE  IF Listed = {} THEN orgSub = 0 ELSE orgSub \in Listed
    BY DEF OrgKnowsSubscription
  <2>1. (\A p \in Request : req[p].pc = "idle") /\ \A e \in DOMAIN event : event[e].done
    BY DEF Quiet
  <2>2. Listed # {} => orgSub \in Listed
    BY <2>1 DEF ToldInv
  <2>3. orgSub # 0 => orgSub \in Listed
    BY <2>1 DEF KnownInv, Never
  <2> QED BY <2>2, <2>3
<1> QED BY <1>1, KnownCorrect, ToldCorrect, PTL

-----------------------------------------------------------------------------
(* Who uses a product pays for it.                                         *)

Clean == Never({"failed", "overlap", "late", "mistaken", "unsure"}) /\ ~manual
Ends(t, a) == \E p \in Request :
  req[p].pc \in {"clear", "delete"} /\ req[p].product = t /\ req[p].acc = a
OneOwn == \A t \in Product : \A a, b \in Own(t) : a = b
OwnIsPaid == \A t \in Product : \A a \in Own(t) :
  account[a].enabled => account[a].trial \/ Paid(t) \/ Ends(t, a)
\* What a handler is about to enable is paid for, and what it replaces is the owner's.
Honest(r) ==
  /\ r.pc \in WithAccount => account[r.acc].type # "SYSTEM"
  /\ r.pc = "insert" => Own(r.product) = {}
  /\ r.pc = "repair" => Paid(r.product)
  /\ \A x \in r.todo : Paid(x.product)
\* An enabled account that nobody pays for is on trial, or is the one that the handler
\* which canceled its product is about to delete.
EnabledInv == Clean => OneOwn /\ OwnIsPaid /\ \A p \in Request : Honest(req[p])

LEMMA OwnSame ==
  ASSUME UNCHANGED account, NEW t PROVE Own(t)' = Own(t)
BY DEF Own, Live

LEMMA PaidSame == ASSUME UNCHANGED sub, NEW t PROVE Paid(t)' <=> Paid(t)
BY DEF Paid, Listed, ItemsFor

LEMMA HonestKept ==
  ASSUME NEW r, Honest(r), UNCHANGED account, \A t : Paid(t) => Paid(t)'
  PROVE  Honest(r)'
BY OwnSame DEF Honest

LEMMA EnabledSame ==
  ASSUME BaseInv, EnabledInv, UNCHANGED <<manual, account, req, past>>,
         \A t : Paid(t) => Paid(t)'
  PROVE  EnabledInv'
<1> SUFFICES ASSUME Clean PROVE OneOwn' /\ OwnIsPaid' /\ \A p \in Request : Honest(req[p])'
  BY DEF EnabledInv, Clean, Never
<1>1. OneOwn /\ OwnIsPaid /\ \A p \in Request : Honest(req[p])
  BY DEF EnabledInv
<1>2. \A t : Own(t)' = Own(t)
  BY OwnSame
<1>3. OneOwn' /\ OwnIsPaid'
  BY <1>1, <1>2 DEF OneOwn, OwnIsPaid, Ends
<1>4. ASSUME NEW p \in Request PROVE Honest(req[p])'
  <2>1. PICK r : r = req[p] /\ Honest(r)
    BY <1>1
  <2>2. Honest(r)' /\ req'[p] = r
    BY <2>1, HonestKept
  <2> QED BY <2>2
<1> QED BY <1>3, <1>4

LEMMA IdleHonest ==
  ASSUME NEW r \in ReqDoc, r.pc = "idle", r.todo = {} PROVE Honest(r) /\ Honest(r)'
BY DEF Honest, WithAccount

\* A step of one handler: what is to be shown of it.
LEMMA EnabledStep ==
  ASSUME BaseInv, NEW p \in Request, NEW r \in ReqDoc, Step(p, r), Calm' => Alone(p),
         Clean' => OneOwn' /\ OwnIsPaid' /\ Honest(r)'
  PROVE  EnabledInv'
<1> SUFFICES ASSUME Clean', NEW q \in Request PROVE Honest(req[q])'
  BY DEF EnabledInv
<1>1. Alone(p)
  BY DEF Clean, Never, Calm
<1>2. CASE q = p
  BY <1>2, Stepped
<1>3. CASE q # p
  <2>1. PICK d \in ReqDoc : d = req[q] /\ d.pc = "idle" /\ Sound(d)
    BY <1>1, <1>3, Runs DEF Alone
  <2>2. d.todo = {}
    BY <2>1 DEF Sound
  <2>3. Honest(d)' /\ req'[q] = d
    BY <1>3, <2>1, <2>2, IdleHonest, Stepped
  <2> QED BY <2>3
<1> QED BY <1>2, <1>3

LEMMA NoEnds ==
  ASSUME NEW p \in Request, Alone(p), req[p].pc \notin {"clear", "delete"}, NEW t, NEW a
  PROVE  ~Ends(t, a)
BY DEF Alone, Ends

\* A step that leaves the accounts alone.
LEMMA EnabledReads ==
  ASSUME BaseInv, EnabledInv, past \subseteq past', UNCHANGED <<manual, account>>,
         \A t : Paid(t) => Paid(t)', NEW p \in Request, NEW r \in ReqDoc, Step(p, r),
         Calm' => Alone(p), req[p].pc \notin {"clear", "delete"}, Clean' => Honest(r)'
  PROVE  EnabledInv'
<1> SUFFICES ASSUME Clean' PROVE OneOwn' /\ OwnIsPaid'
  BY EnabledStep
<1>1. Clean /\ Alone(p)
  BY DEF Clean, Never, Calm
<1>2. OneOwn /\ OwnIsPaid
  BY <1>1 DEF EnabledInv
<1>3. \A t : Own(t)' = Own(t)
  BY OwnSame
<1>4. \A t, a : ~Ends(t, a)
  BY <1>1, NoEnds
<1>5. \A t \in Product : \A a \in Own(t) : account[a].enabled => account[a].trial \/ Paid(t)
  BY <1>2, <1>4 DEF OwnIsPaid
<1> QED BY <1>2, <1>3, <1>5 DEF OneOwn, OwnIsPaid

LEMMA SavedOwn ==
  ASSUME DocsType, DocsType', NEW a \in DOMAIN account, NEW was, NEW enabled, NEW trial,
         SavedAt(a, was, enabled, trial), NEW t \in Product
  PROVE  Own(t)' = Own(t)
<1>1. DOMAIN account' = DOMAIN account
  BY DEF DocsType, SavedAt
<1>2. \A b \in DOMAIN account : /\ account'[b].type = account[b].type
                                /\ account'[b].deleted = account[b].deleted
  BY DEF SavedAt
<1> QED BY <1>1, <1>2 DEF Own, Live

\* A save of an account that is on trial or paid for.
LEMMA EnabledSaves ==
  ASSUME BaseInv, EnabledInv, DocsType', past \subseteq past', UNCHANGED <<manual, sub>>,
         NEW p \in Request, NEW r \in ReqDoc, Step(p, r),
         req[p].pc \notin {"idle", "clear", "delete"},
         r.pc \notin WithAccount, r.todo \subseteq req[p].todo, NEW a \in DOMAIN account,
         NEW was, NEW enabled, NEW trial, SavedAt(a, was, enabled, trial),
         Clean /\ Calm' => \A t \in Product : a \in Own(t) => account'[a].trial \/ Paid(t)
  PROVE  EnabledInv'
<1>1. Calm' => Alone(p)
  BY Runs
<1> SUFFICES ASSUME Clean' PROVE OneOwn' /\ OwnIsPaid' /\ Honest(r)'
  BY <1>1, EnabledStep
<1>2. Clean /\ Calm' /\ Alone(p)
  BY <1>1 DEF Clean, Never, Calm
<1>3. OneOwn /\ OwnIsPaid /\ Honest(req[p])
  BY <1>2 DEF EnabledInv
<1>4. DocsType
  BY DEF BaseInv, TypeInv
<1>5. \A t \in Product : Own(t)' = Own(t)
  BY <1>4, SavedOwn
<1>6. \A t : Paid(t)' <=> Paid(t)
  BY PaidSame
<1>7. \A t, b : ~Ends(t, b)
  BY <1>2, NoEnds
<1>8. ASSUME NEW t \in Product, NEW b \in Own(t), account'[b].enabled
      PROVE  account'[b].trial \/ Paid(t)'
  <2>1. CASE b = a
    BY <1>2, <1>6, <1>8, <2>1
  <2>2. CASE b # a
    <3>1. account'[b] = account[b]
      BY <1>8, <2>2 DEF SavedAt, Own, Live
    <3> QED BY <1>3, <1>6, <1>7, <1>8, <3>1 DEF OwnIsPaid
  <2> QED BY <2>1, <2>2
<1>9. OneOwn' /\ OwnIsPaid'
  BY <1>3, <1>5, <1>8 DEF OneOwn, OwnIsPaid
<1>10. Honest(r)'
  BY <1>3, <1>6 DEF Honest, WithAccount
<1> QED BY <1>9, <1>10

\* The account a handler was given is the owner's.
LEMMA OwnAcc ==
  ASSUME BaseInv, EnabledInv, Clean, NEW p \in Request, req[p].pc \in WithAccount \ {"insert"}
  PROVE  req[p].product \in Product /\ req[p].acc \in Own(req[p].product)
<1>1. Calm
  BY DEF Clean, Never, Calm
<1>2. PICK r \in ReqDoc : r = req[p] /\ Sound(r) /\ Fits(r) /\ Honest(r)
  BY <1>1, Runs DEF EnabledInv
<1>3. DocsType /\ r.acc \in DOMAIN account /\ r.product \in Product /\ ~account[r.acc].deleted
      /\ account[r.acc].type \in Types(r.product) /\ account[r.acc].type # "SYSTEM"
  BY <1>2, DocsLen DEF Sound, Fits, Honest, WithAccount, BaseInv, TypeInv
<1>4. account[r.acc].type = OwnType(r.product)
  BY <1>3 DEF Types, OwnType, Product
<1> QED BY <1>2, <1>3, <1>4, OwnIs

LEMMA EnabledReadProduct ==
  ASSUME BaseInv, KnownInv, EnabledInv, NEW p \in Request, ReadProduct(p) PROVE EnabledInv'
<1>1. PICK r \in ReqDoc :
        /\ Step(p, r) /\ Keeps /\ req[p].pc = "product" /\ past \subseteq past' /\ r.todo = {}
        /\ \/ r.pc = "idle"
           \/ r.pc \in {"add", "cancel"} /\ r.acc = req[p].acc
           \/ /\ r.pc = "repair" /\ r.acc = req[p].acc
              /\ \E s \in Found(req[p]) : s # 0 /\ ItemsFor(s, r.product) # {}
  BY ReadProductMoves
<1>2. Calm' => Alone(p)
  BY <1>1, Runs
<1>3. UNCHANGED <<manual, account>> /\ \A t : Paid(t)' <=> Paid(t)
  BY <1>1, PaidSame DEF Keeps
<1>4. Clean' => Honest(r)'
  <2> SUFFICES ASSUME Clean' PROVE Honest(r)'
    OBVIOUS
  <2>1. Clean /\ Never({"failed", "overlap", "late"})
    BY <1>1, <1>3 DEF Clean, Never
  <2>2. account[req[p].acc].type # "SYSTEM"
    BY <1>1, <2>1 DEF EnabledInv, Honest, WithAccount
  <2>3. r.pc = "repair" => Paid(r.product)
    BY <1>1, <2>1, KnownFound DEF Paid
  <2>4. Honest(r)
    BY <1>1, <2>2, <2>3 DEF Honest, WithAccount
  <2> QED BY <1>3, <2>4, HonestKept
<1> QED BY <1>1, <1>2, <1>3, <1>4, EnabledReads

LEMMA AddKeepsPaid ==
  ASSUME BaseInv, EnabledInv, BillingAssumption, NEW p \in Request, AddItem(p), Clean, NEW t, Paid(t)
  PROVE  Paid(t)'
<1>1. req[p].pc = "add" /\ DocsType
  BY AddItemMoves DEF BaseInv, TypeInv
<1>2. CASE UNCHANGED <<sub, event>>
  BY <1>2, PaidSame
<1>3. CASE ~UNCHANGED <<sub, event>>
  <2> DEFINE s == req[p].sub
  <2>1. PICK what \in Subscription :
          /\ s \in DOMAIN sub /\ sub[s].status # "canceled"
          /\ req[p].plan \in Plan /\ req[p].product = ProductOf[req[p].plan]
          /\ what.items = (sub[s].items \ req[p].current) \cup {req[p].plan}
          /\ what.status = sub[s].status /\ Told1(s, what)
    BY <1>3, AddItemMoves
  <2>2. Listed' = Listed /\ sub'[s] = what /\ \A x \in DOMAIN sub : x # s => sub'[x] = sub[x]
    BY <1>1, <2>1, ToldListed DEF Told1
  <2>3. PICK x \in Listed : ItemsFor(x, t) # {}
    BY DEF Paid
  <2>4. PICK i \in sub[x].items : ProductOf[i] = t
    BY <2>3 DEF ItemsFor
  <2>5. "unsure" \notin past /\ Calm
    BY DEF Clean, Never, Calm
  <2>6. IF req[p].current = {} THEN ItemsFor(s, req[p].product) = {}
        ELSE \E j \in ItemsFor(s, req[p].product) : req[p].current = {j}
    BY <1>1, <2>5, Runs DEF Fits
  <2>7. CASE x # s
    BY <2>2, <2>4, <2>7 DEF Paid, ItemsFor, Listed
  <2>8. CASE x = s /\ i \notin req[p].current
    <3>1. i \in sub'[s].items
      BY <2>1, <2>2, <2>4, <2>8
    <3> QED BY <2>2, <2>4, <2>8, <3>1 DEF Paid, ItemsFor
  <2>9. CASE x = s /\ i \in req[p].current
    <3>1. t = req[p].product
      BY <2>4, <2>6, <2>9 DEF ItemsFor
    <3>2. req[p].plan \in sub'[s].items
      BY <2>1, <2>2
    <3> QED BY <2>1, <2>2, <2>9, <3>1, <3>2 DEF Paid, ItemsFor
  <2> QED BY <2>7, <2>8, <2>9
<1> QED BY <1>2, <1>3

LEMMA OnlyOne ==
  ASSUME NEW S, IsFiniteSet(S), Cardinality(S) <= 1, NEW i \in S, NEW j \in S
  PROVE  i = j
<1> SUFFICES ASSUME i # j PROVE FALSE
  OBVIOUS
<1>1. /\ IsFiniteSet(S \ {j}) /\ Cardinality(S \ {j}) = Cardinality(S) - 1
      /\ Cardinality(S) \in Nat
  BY FS_RemoveElement, FS_CardinalityType
<1>2. Cardinality(S \ {j}) \in Nat
  BY <1>1, FS_CardinalityType
<1>3. Cardinality(S \ {j}) = 0
  BY <1>1, <1>2
<1>4. S \ {j} = {}
  BY <1>1, <1>3, FS_EmptySet
<1> QED BY <1>4

LEMMA EnabledCancelItem ==
  ASSUME BaseInv, EnabledInv, NEW p \in Request, CancelItem(p) PROVE EnabledInv'
<1> SUFFICES ASSUME Clean' PROVE EnabledInv'
  BY DEF EnabledInv
<1>1. Calm' /\ "unsure" \notin past'
  BY DEF Clean, Never, Calm
<1>2. PICK r \in ReqDoc, s \in Found(req[p]) :
           /\ Step(p, r) /\ UNCHANGED <<db, open>> /\ req[p].pc = "cancel" /\ past \subseteq past'
           /\ r.todo = {} /\ (r.pc # "idle" => r.acc = req[p].acc /\ r.product = req[p].product)
           /\ s = req[p].sub /\ "unsure" \notin past
           /\ \/ r.pc = "idle" /\ UNCHANGED <<sub, event>>
              \/ /\ r.pc = "delete" /\ s \in DOMAIN sub /\ s \in Listed
                 /\ req[p].current \subseteq sub[s].items /\ Listed' = Listed
                 /\ \E what \in Subscription :
                      /\ what.items = sub[s].items \ req[p].current /\ what.status = sub[s].status
                      /\ Told1(s, what)
              \/ /\ r.pc = "clear" /\ s \in DOMAIN sub /\ s \in Listed /\ Listed' = Listed \ {s}
                 /\ Cardinality(sub[s].items) <= 1
                 /\ \A t \in DOMAIN sub : t # s => sub'[t] = sub[t]
  BY <1>1, CancelItemAlone
<1>3. Alone(p) /\ Calm
  BY <1>1, <1>2, Runs DEF Calm
<1>4. Clean /\ UNCHANGED <<manual, account>>
  BY <1>2 DEF Clean, Never, db
<1>5. OneOwn /\ OwnIsPaid /\ Honest(req[p])
  BY <1>4 DEF EnabledInv
<1>6. CASE r.pc = "idle"
  <2>1. Honest(r)' /\ \A t : Paid(t) => Paid(t)'
    BY <1>2, <1>6, IdleHonest, PaidSame
  <2> QED BY <1>2, <1>3, <1>4, <2>1, EnabledReads
<1>7. CASE r.pc \in {"delete", "clear"}
  <2>1. PICK i \in ItemsFor(s, req[p].product) : req[p].current = {i}
    <3>1. req[p].current # {}
      BY <1>2, Runs DEF Sound
    <3> QED BY <1>2, <1>3, <3>1, Runs DEF Fits
  <2>2. i \in sub[s].items /\ ProductOf[i] = req[p].product
    BY <2>1 DEF ItemsFor
  <2>3. ASSUME NEW t, t # req[p].product, Paid(t) PROVE Paid(t)'
    <3> PICK x \in Listed : ItemsFor(x, t) # {}
      BY <2>3 DEF Paid
    <3>1. PICK j \in sub[x].items : ProductOf[j] = t
      BY DEF ItemsFor
    <3>2. x \in DOMAIN sub
      BY DEF Listed
    <3>3. CASE x # s
      <4>1. x \in Listed' /\ sub'[x] = sub[x]
        BY <1>2, <1>7, <3>2, <3>3 DEF Told1
      <4> QED BY <3>1, <4>1 DEF Paid, ItemsFor
    <3>4. CASE x = s /\ r.pc = "delete"
      <4>1. sub'[s].items = sub[s].items \ req[p].current /\ Listed' = Listed
        BY <1>2, <3>4 DEF Told1
      <4>2. j \in sub'[x].items
        BY <2>1, <2>2, <2>3, <3>1, <3>4, <4>1
      <4> QED BY <3>1, <4>1, <4>2 DEF Paid, ItemsFor
    <3>5. CASE x = s /\ r.pc = "clear"
      <4>1. IsFiniteSet(sub[s].items)
        BY <3>2, <3>5 DEF BaseInv, TypeInv, DocsType
      <4>2. Cardinality(sub[s].items) <= 1
        BY <1>2, <3>5
      <4>3. i = j
        BY <2>2, <3>1, <3>5, <4>1, <4>2, OnlyOne
      <4> QED BY <2>2, <2>3, <3>1, <4>3
    <3> QED BY <1>7, <3>3, <3>4, <3>5
  <2>4. \A t : Own(t)' = Own(t)
    BY <1>4, OwnSame
  <2>5. req[p].acc \in Own(req[p].product) /\ req[p].product \in Product
    BY <1>2, <1>4, OwnAcc DEF WithAccount
  <2>6. req'[p] = r
    BY <1>2, Stepped
  <2>7. \A t, a : ~Ends(t, a)
    BY <1>2, <1>3, NoEnds
  <2>8. ASSUME NEW t \in Product, NEW a \in Own(t), account[a].enabled
        PROVE  account[a].trial \/ Paid(t)' \/ Ends(t, a)'
    <3>1. CASE t = req[p].product
      <4>1. a = req[p].acc
        BY <1>5, <2>5, <3>1 DEF OneOwn
      <4>2. r.product = t /\ r.acc = a
        BY <1>2, <1>7, <3>1, <4>1
      <4> QED BY <1>7, <2>6, <4>2 DEF Ends
    <3>2. CASE t # req[p].product
      BY <1>5, <2>3, <2>7, <2>8, <3>2 DEF OwnIsPaid
    <3> QED BY <3>1, <3>2
  <2>9. OneOwn' /\ OwnIsPaid'
    BY <1>4, <1>5, <2>4, <2>8 DEF OneOwn, OwnIsPaid
  <2>10. Honest(r)'
    <3>1. account[req[p].acc].type # "SYSTEM"
      BY <1>2, <1>5 DEF Honest, WithAccount
    <3> QED BY <1>2, <1>4, <1>7, <3>1 DEF Honest
  <2> QED BY <1>2, <1>3, <2>9, <2>10, EnabledStep
<1> QED BY <1>2, <1>6, <1>7

LEMMA EnabledClearOrg ==
  ASSUME BaseInv, EnabledInv, NEW p \in Request, ClearOrg(p) PROVE EnabledInv'
<1>1. PICK r \in ReqDoc :
        /\ Step(p, r) /\ UNCHANGED <<manual, account, stripe, past>> /\ req[p].pc = "clear"
        /\ r.pc = "delete" /\ r.product = req[p].product /\ r.acc = req[p].acc /\ r.todo = {}
  BY ClearOrgMoves
<1>2. (Calm' => Alone(p)) /\ req'[p] = r /\ \A q \in Request : q # p => req'[q] = req[q]
  BY <1>1, Runs, Stepped
<1> SUFFICES ASSUME Clean PROVE OneOwn' /\ OwnIsPaid' /\ Honest(r)'
  BY <1>1, <1>2, EnabledStep DEF Clean, Never
<1>3. OneOwn /\ OwnIsPaid /\ Honest(req[p])
  BY DEF EnabledInv
<1>4. (\A t : Own(t)' = Own(t)) /\ (\A t : Paid(t)' <=> Paid(t))
  BY <1>1, OwnSame, PaidSame DEF stripe
<1>5. \A t, a : Ends(t, a) => Ends(t, a)'
  <2> SUFFICES ASSUME NEW t, NEW a, Ends(t, a) PROVE Ends(t, a)'
    OBVIOUS
  <2>1. PICK q \in Request :
          req[q].pc \in {"clear", "delete"} /\ req[q].product = t /\ req[q].acc = a
    BY DEF Ends
  <2>2. req'[q].pc \in {"clear", "delete"} /\ req'[q].product = t /\ req'[q].acc = a
    BY <1>1, <1>2, <2>1
  <2> QED BY <2>2 DEF Ends
<1>6. OneOwn' /\ OwnIsPaid'
  BY <1>1, <1>3, <1>4, <1>5 DEF OneOwn, OwnIsPaid
<1>7. Honest(r)'
  BY <1>1, <1>3 DEF Honest, WithAccount
<1> QED BY <1>6, <1>7

LEMMA EnabledDeleteAccount ==
  ASSUME BaseInv, EnabledInv, NEW p \in Request, DeleteAccount(p) PROVE EnabledInv'
<1>1. PICK r \in ReqDoc :
        /\ Step(p, r) /\ UNCHANGED <<manual, stripe, past>> /\ req[p].pc = "delete"
        /\ r.pc = "insert" /\ r.product = req[p].product /\ r.acc = req[p].acc /\ r.todo = {}
        /\ req[p].acc \in DOMAIN account /\ account'[req[p].acc].deleted /\ Grown /\ DocsType'
        /\ Len(account') = Len(account)
        /\ \A b \in DOMAIN account : b # req[p].acc => account'[b] = account[b]
  BY DeleteAccountMoves
<1>2. (Calm' => Alone(p)) /\ req'[p] = r
  BY <1>1, Runs, Stepped
<1> SUFFICES ASSUME Clean PROVE OneOwn' /\ OwnIsPaid' /\ Honest(r)'
  BY <1>1, <1>2, EnabledStep DEF Clean, Never
<1>3. OneOwn /\ OwnIsPaid /\ Honest(req[p])
  BY DEF EnabledInv
<1>4. DocsType /\ Alone(p)
  BY <1>1, <1>2 DEF BaseInv, TypeInv, Clean, Never, Calm
<1>5. req[p].acc \in Own(req[p].product) /\ req[p].product \in Product
  BY <1>1, OwnAcc DEF WithAccount
<1>6. DOMAIN account' = DOMAIN account
  BY <1>1, <1>4 DEF DocsType
<1>7. ASSUME NEW t \in Product
      PROVE  /\ Own(t)' \subseteq Own(t) \ {req[p].acc}
             /\ \A a \in Own(t)' : account'[a] = account[a]
  BY <1>1, <1>6 DEF Own, Live
<1>8. Own(r.product)' = {}
  <2>1. r.product \in Product /\ req[p].acc \in Own(r.product)
    BY <1>1, <1>5
  <2>2. \A a \in Own(r.product)' : a \in Own(r.product) /\ a # req[p].acc
    BY <1>7, <2>1
  <2> QED BY <1>3, <2>1, <2>2 DEF OneOwn
<1>9. \A t : Paid(t)' <=> Paid(t)
  BY <1>1, PaidSame DEF stripe
<1>10. ASSUME NEW t \in Product, t # req[p].product, NEW a PROVE ~Ends(t, a)
  BY <1>1, <1>4, <1>10 DEF Ends, Alone
<1>11. OneOwn' /\ OwnIsPaid'
  <2>1. OneOwn'
    BY <1>3, <1>7 DEF OneOwn
  <2> SUFFICES ASSUME NEW t \in Product, NEW a \in Own(t)', account'[a].enabled
               PROVE  account'[a].trial \/ Paid(t)'
    BY <2>1 DEF OwnIsPaid
  <2>2. t # req[p].product /\ a \in Own(t) /\ account'[a] = account[a]
    BY <1>1, <1>7, <1>8
  <2> QED BY <1>3, <1>9, <1>10, <2>2 DEF OwnIsPaid
<1>12. Honest(r)'
  <2>1. account'[req[p].acc].type # "SYSTEM"
    BY <1>1, <1>3 DEF Honest, WithAccount, Grown
  <2> QED BY <1>1, <1>8, <2>1 DEF Honest
<1> QED BY <1>11, <1>12

LEMMA InsertOwn ==
  ASSUME BaseInv, NEW p \in Request, InsertAccount(p), NEW t \in Product
  PROVE  /\ Own(t)' = IF t = req[p].product THEN Own(t) \cup {Len(account) + 1} ELSE Own(t)
         /\ \A a \in Own(t) : account'[a] = account[a]
         /\ account'[Len(account) + 1].enabled = manual
<1>1. /\ DocsType' /\ req[p].product \in Product
      /\ Len(account') = Len(account) + 1
      /\ \A b \in DOMAIN account : account'[b] = account[b]
      /\ account'[Len(account) + 1] = NewAccount(OwnType(req[p].product), manual)
  BY InsertAccountMoves
<1>2. /\ account'[Len(account) + 1].type = OwnType(req[p].product)
      /\ account'[Len(account) + 1].enabled = manual /\ ~account'[Len(account) + 1].deleted
  BY <1>1 DEF NewAccount
<1>3. DocsType /\ DOMAIN account = 1 .. Len(account) /\ Len(account) \in Nat
  BY DocsLen DEF BaseInv, TypeInv
<1>4. DOMAIN account' = DOMAIN account \cup {Len(account) + 1} /\ Len(account) + 1 \notin DOMAIN account
  BY <1>1, <1>3 DEF DocsType
<1>5. \A a : a \in Own(t) <=> a \in DOMAIN account /\ account[a].type = OwnType(t) /\ ~account[a].deleted
  BY <1>3, OwnIs
<1>6. \A a : a \in Own(t)' <=> a \in DOMAIN account' /\ account'[a].type = OwnType(t) /\ ~account'[a].deleted
  BY DEF Own, Live, OwnType
<1>7. OwnType(req[p].product) = OwnType(t) <=> req[p].product = t
  BY <1>1 DEF OwnType, Product
<1>8. Own(t)' = IF t = req[p].product THEN Own(t) \cup {Len(account) + 1} ELSE Own(t)
  BY <1>1, <1>2, <1>4, <1>5, <1>6, <1>7
<1> QED BY <1>1, <1>2, <1>5, <1>8

LEMMA EnabledInsertAccount ==
  ASSUME BaseInv, EnabledInv, NEW p \in Request, InsertAccount(p) PROVE EnabledInv'
<1>1. /\ Step(p, Idle) /\ UNCHANGED <<manual, stripe, past>> /\ req[p].pc = "insert"
      /\ req[p].product \in Product /\ Idle \in ReqDoc /\ Honest(Idle)'
  BY InsertAccountMoves, IdleDoc, IdleHonest DEF End
<1>2. Calm' => Alone(p)
  BY <1>1, Runs
<1> SUFFICES ASSUME Clean PROVE OneOwn' /\ OwnIsPaid'
  BY <1>1, <1>2, EnabledStep DEF Clean, Never
<1>3. OneOwn /\ OwnIsPaid /\ Honest(req[p]) /\ ~manual
  BY DEF EnabledInv, Clean
<1>4. Own(req[p].product) = {}
  BY <1>1, <1>3 DEF Honest
<1>5. \A t : Paid(t)' <=> Paid(t)
  BY <1>1, PaidSame DEF stripe
<1>6. Alone(p)
  BY <1>1, <1>2 DEF Clean, Never, Calm
<1>7. \A t, a : ~Ends(t, a)
  BY <1>1, <1>6, NoEnds
<1>8. OneOwn'
  BY <1>3, <1>4, InsertOwn DEF OneOwn
<1>9. ASSUME NEW t \in Product, NEW a \in Own(t)', account'[a].enabled
      PROVE  account'[a].trial \/ Paid(t)'
  <2>1. a \in Own(t) /\ account'[a] = account[a]
    BY <1>3, <1>9, InsertOwn
  <2> QED BY <1>3, <1>5, <1>7, <1>9, <2>1 DEF OwnIsPaid
<1> QED BY <1>8, <1>9 DEF OwnIsPaid

LEMMA EnabledHandle ==
  ASSUME BaseInv, KnownInv, EnabledInv, BillingAssumption, NEW p \in Request, Handle(p)
  PROVE  EnabledInv'
<1>1. CASE ReadAccount(p)
  <2>1. PICK r \in ReqDoc :
          /\ Step(p, r) /\ Keeps /\ req[p].pc = "account" /\ past \subseteq past' /\ r.todo = {}
          /\ \/ r.pc = "idle"
             \/ /\ r.pc \in {"trial", "subscription", "delete"} /\ (r.pc = "delete" => manual)
                /\ account[r.acc].type = "SYSTEM" => "mistaken" \in past'
    BY <1>1, ReadAccountMoves
  <2>2. UNCHANGED <<manual, account>> /\ (\A t : Paid(t)' <=> Paid(t)) /\ (Calm' => Alone(p))
    BY <2>1, PaidSame, Runs DEF Keeps
  <2>3. Clean' => Honest(r)'
    BY <2>1, <2>2 DEF Honest, WithAccount, Clean, Never
  <2> QED BY <2>1, <2>2, <2>3, EnabledReads
<1>2. CASE FindSubscription(p)
  <2>1. PICK r \in ReqDoc :
          /\ Step(p, r) /\ Keeps /\ req[p].pc = "subscription" /\ past \subseteq past' /\ r.todo = {}
          /\ r.pc = "idle" \/ (r.pc \in {"product", "checkout"} /\ r.acc = req[p].acc)
    BY <1>2, FindSubscriptionMoves
  <2>2. UNCHANGED <<manual, account>> /\ (\A t : Paid(t)' <=> Paid(t)) /\ (Calm' => Alone(p))
    BY <2>1, PaidSame, Runs DEF Keeps
  <2>3. Clean' => Clean
    BY <2>1, <2>2 DEF Clean, Never
  <2>4. Clean' => Honest(r)'
    BY <2>1, <2>2, <2>3 DEF Honest, WithAccount, EnabledInv
  <2> QED BY <2>1, <2>2, <2>4, EnabledReads
<1>3. CASE ReadProduct(p)
  BY <1>3, EnabledReadProduct
<1>4. CASE SaveTrial(p)
  <2>1. PICK r \in ReqDoc :
          /\ Step(p, r) /\ DocsType' /\ UNCHANGED <<manual, stripe>> /\ req[p].pc = "trial"
          /\ past' = past /\ r.pc = "flag" /\ r.todo = {}
          /\ req[p].acc \in DOMAIN account /\ SavedAt(req[p].acc, req[p].was, TRUE, TRUE)
    BY <1>4, SaveTrialMoves
  <2>2. Calm' => Calm
    BY <2>1 DEF Calm
  <2>3. Calm' => account'[req[p].acc].trial
    <3> SUFFICES ASSUME Calm' PROVE account'[req[p].acc].trial
      OBVIOUS
    <3>1. req[p].was = account[req[p].acc]
      BY <2>1, <2>2, Runs DEF Fits
    <3>2. account[req[p].acc].trial \in BOOLEAN
      <4>1. account[req[p].acc] \in AccountDoc
        BY <2>1 DEF BaseInv, TypeInv, DocsType
      <4> QED BY <4>1 DEF AccountDoc
    <3>3. account'[req[p].acc].trial =
            IF req[p].was.trial # TRUE THEN TRUE ELSE account[req[p].acc].trial
      BY <2>1 DEF SavedAt
    <3> QED BY <3>1, <3>2, <3>3
  <2>4. r.pc \notin WithAccount /\ past \subseteq past' /\ UNCHANGED <<manual, sub>>
        /\ r.todo \subseteq req[p].todo
    BY <2>1 DEF WithAccount, stripe
  <2> QED BY <2>1, <2>3, <2>4, EnabledSaves
<1>5. CASE SaveFlag(p) \/ Checkout(p)
  <2>1. /\ Step(p, Idle) /\ UNCHANGED <<manual, account, sub>> /\ past \subseteq past'
        /\ req[p].pc \in {"flag", "checkout"} /\ Idle \in ReqDoc /\ Honest(Idle)'
    BY <1>5, CheckoutMoves, IdleDoc, IdleHonest DEF SaveFlag, End, stripe, db
  <2>2. (\A t : Paid(t)' <=> Paid(t)) /\ (Calm' => Alone(p))
    BY <2>1, PaidSame, Runs
  <2> QED BY <2>1, <2>2, EnabledReads
<1>6. CASE Repair(p)
  <2>1. /\ Step(p, Idle) /\ DocsType' /\ UNCHANGED <<manual, sub, past>>
        /\ req[p].pc = "repair" /\ req[p].acc \in DOMAIN account
        /\ account' = account \/ SavedAt(req[p].acc, account[req[p].acc], TRUE, FALSE)
        /\ Idle \in ReqDoc /\ Honest(Idle)' /\ Idle.pc \notin WithAccount /\ Idle.todo = {}
    BY <1>6, RepairMoves, IdleDoc, IdleHonest DEF End, stripe, WithAccount
  <2>2. (\A t : Paid(t)' <=> Paid(t)) /\ (Calm' => Alone(p))
    BY <2>1, PaidSame, Runs
  <2>3. CASE account' = account
    BY <2>1, <2>2, <2>3, EnabledReads
  <2>4. CASE SavedAt(req[p].acc, account[req[p].acc], TRUE, FALSE)
    <3>1. ASSUME Clean, NEW t \in Product, req[p].acc \in Own(t) PROVE Paid(t)
      <4>1. Paid(req[p].product) /\ req[p].product \in Product /\ req[p].acc \in Own(req[p].product)
        BY <2>1, <3>1, OwnAcc DEF EnabledInv, Honest, WithAccount
      <4>2. DocsType
        BY DEF BaseInv, TypeInv
      <4>3. OwnType(t) = OwnType(req[p].product)
        BY <3>1, <4>1, <4>2, OwnIs
      <4> QED BY <4>1, <4>3 DEF OwnType, Product
    <3> QED BY <2>1, <2>4, <3>1, EnabledSaves
  <2> QED BY <2>1, <2>3, <2>4
<1>7. CASE AddItem(p)
  <2>1. /\ Step(p, Idle) /\ UNCHANGED <<db, past>> /\ req[p].pc = "add"
        /\ Idle \in ReqDoc /\ Honest(Idle)'
    BY <1>7, AddItemMoves, IdleDoc, IdleHonest DEF End
  <2> SUFFICES ASSUME Clean' PROVE EnabledInv'
    BY DEF EnabledInv
  <2>2. Clean /\ (Calm' => Alone(p)) /\ UNCHANGED <<manual, account>>
    BY <2>1, Runs DEF Clean, Never, db
  <2>3. \A t : Paid(t) => Paid(t)'
    BY <1>7, <2>2, AddKeepsPaid
  <2> QED BY <2>1, <2>2, <2>3, EnabledReads
<1>8. CASE CancelItem(p)
  BY <1>8, EnabledCancelItem
<1>9. CASE ClearOrg(p) \/ DeleteAccount(p) \/ InsertAccount(p)
  BY <1>9, EnabledClearOrg, EnabledDeleteAccount, EnabledInsertAccount
<1>10. CASE FindItem(p)
  <2>1. PICK r \in ReqDoc, x \in req[p].todo :
          /\ Step(p, r) /\ Keeps /\ UNCHANGED past /\ req[p].pc = "item" /\ r.pc = "item"
          /\ \/ r.todo = req[p].todo \ {x}
             \/ \E y \in Todos : y.product = x.product /\ r.todo = (req[p].todo \ {x}) \cup {y}
    BY <1>10, FindItemMoves
  <2>2. UNCHANGED <<manual, account>> /\ (\A t : Paid(t)' <=> Paid(t)) /\ (Calm' => Alone(p))
    BY <2>1, PaidSame, Runs DEF Keeps
  <2>3. Clean' => Honest(r)'
    <3> SUFFICES ASSUME Clean' PROVE Honest(r)'
      OBVIOUS
    <3>1. \A y \in req[p].todo : Paid(y.product)
      BY <2>1, <2>2 DEF Clean, Never, EnabledInv, Honest
    <3>2. \A y \in r.todo : Paid(y.product)
      BY <2>1, <3>1
    <3> QED BY <2>1, <2>2, <3>2 DEF Honest, WithAccount
  <2> QED BY <2>1, <2>2, <2>3, EnabledReads
<1>11. CASE SaveItem(p)
  <2>1. PICK r \in ReqDoc, x \in req[p].todo :
          /\ Step(p, r) /\ DocsType' /\ UNCHANGED <<manual, orgSub, stripe>> /\ req[p].pc = "item"
          /\ r.pc = "item" /\ past' = past /\ x.product \in Product
          /\ x.acc \in DOMAIN account /\ account[x.acc].type = OwnType(x.product)
          /\ SavedAt(x.acc, x.was, TRUE, FALSE) /\ r.todo = req[p].todo \ {x}
    <3>1. \E r \in ReqDoc : \E x \in req[p].todo :
           /\ Step(p, r) /\ Sound(r) /\ (Calm' => Fits(r)') /\ DocsType' /\ Grown
           /\ UNCHANGED <<manual, orgSub, stripe>> /\ req[p].pc = "item" /\ r.pc = "item"
           /\ past' = past /\ x.product \in Product
           /\ mayTrial' = mayTrial \ {x.product}
           /\ x.acc \in DOMAIN account /\ account[x.acc].type = OwnType(x.product)
           /\ (Calm => ~account[x.acc].deleted) /\ SavedAt(x.acc, x.was, TRUE, FALSE)
           /\ (Calm => account'[x.acc].enabled)
           /\ r.todo = req[p].todo \ {x} /\ r.event = req[p].event
      BY <1>11, SaveItemMoves, Zenon
    <3> QED BY <3>1, Zenon
  <2>2. ASSUME Clean, NEW t \in Product, x.acc \in Own(t) PROVE Paid(t)
    <3>1. account[x.acc].type = OwnType(t)
      BY <2>2, OwnIs DEF BaseInv, TypeInv
    <3>2. t = x.product
      BY <2>1, <3>1 DEF OwnType, Product
    <3> QED BY <2>2, <3>2 DEF EnabledInv, Honest
  <2>3. r.pc \notin WithAccount /\ past \subseteq past' /\ UNCHANGED <<manual, sub>>
        /\ r.todo \subseteq req[p].todo
    BY <2>1 DEF WithAccount, stripe
  <2> QED BY <2>1, <2>2, <2>3, EnabledSaves
<1>12. CASE EndHook(p)
  <2>1. /\ Step(p, Idle) /\ UNCHANGED <<db, sub, past>> /\ req[p].pc = "item"
        /\ Idle \in ReqDoc /\ Honest(Idle)'
    BY <1>12, EndHookMoves, IdleDoc, IdleHonest DEF End
  <2>2. (\A t : Paid(t)' <=> Paid(t)) /\ (Calm' => Alone(p)) /\ UNCHANGED <<manual, account>>
    BY <2>1, PaidSame, Runs DEF db
  <2> QED BY <2>1, <2>2, EnabledReads
<1> QED BY <1>1, <1>2, <1>3, <1>4, <1>5, <1>6, <1>7, <1>8, <1>9, <1>10, <1>11, <1>12 DEF Handle

LEMMA ChargeKeepsPaid ==
  ASSUME BaseInv, Charge, NEW t, Paid(t) PROVE Paid(t)'
<1>1. PICK s \in DOMAIN sub : \E what \in Subscription :
        /\ what.items = sub[s].items /\ sub[s].status # "canceled"
        /\ what.status # "canceled" /\ Told1(s, what)
  BY ChargeMoves
<1>2. Listed' = Listed
  BY <1>1, ToldListed DEF BaseInv, TypeInv
<1>3. \A x \in DOMAIN sub : sub'[x].items = sub[x].items
  BY <1>1 DEF Told1
<1> QED BY <1>2, <1>3 DEF Paid, ItemsFor, Listed

LEMMA EnabledNext == BaseInv /\ KnownInv /\ EnabledInv /\ [Next]_vars => EnabledInv'
<1> SUFFICES ASSUME BaseInv, KnownInv, EnabledInv, [Next]_vars PROVE EnabledInv'
  OBVIOUS
<1>1. ASSUME NEW p \in Request, Asks(p) \/ BeginView(p) PROVE EnabledInv'
  <2>1. PICK r \in ReqDoc :
          /\ Step(p, r) /\ Keeps /\ past \subseteq past' /\ req[p].pc = "idle" /\ (Calm' => Alone(p))
          /\ r.todo = {} /\ r.pc \in {"account", "product"}
          /\ (r.pc = "product" /\ account[r.acc].type = "SYSTEM" => "mistaken" \in past')
    BY <1>1, BillingAssumption, AskMoves, ViewMoves DEF Begins
  <2>2. UNCHANGED <<manual, account>> /\ \A t : Paid(t)' <=> Paid(t)
    BY <2>1, PaidSame DEF Keeps
  <2>3. Clean' => Honest(r)'
    BY <2>1, <2>2 DEF Honest, WithAccount, Clean, Never
  <2> QED BY <2>1, <2>2, <2>3, EnabledReads
<1>2. ASSUME NEW p \in Request, BeginHook(p) PROVE EnabledInv'
  <2>1. PICK r \in ReqDoc, e \in DOMAIN event :
          /\ Step(p, r) /\ UNCHANGED <<manual, account, stripe>> /\ req[p].pc = "idle"
          /\ past \subseteq past' /\ (Calm' => Alone(p)) /\ (Late(e) => "late" \in past')
          /\ r.pc = "item"
          /\ \A x \in r.todo : \E i \in event[e].items : ProductOf[i] = x.product
    BY <1>2, BillingAssumption, BeginHookMoves
  <2>2. \A t : Paid(t)' <=> Paid(t)
    BY <2>1, PaidSame DEF stripe
  <2>3. Clean' => Honest(r)'
    <3> SUFFICES ASSUME Clean' PROVE Honest(r)'
      OBVIOUS
    <3>1. ~Late(e)
      BY <2>1 DEF Clean, Never
    <3>2. \A x \in r.todo : Paid(x.product)
      BY <2>1, <3>1, NotLate DEF Paid, ItemsFor
    <3> QED BY <2>1, <2>2, <3>2 DEF Honest, WithAccount
  <2> QED BY <2>1, <2>2, <2>3, EnabledReads
<1>3. ASSUME NEW p \in Request, Fail(p) PROVE EnabledInv'
  BY <1>3 DEF Fail, EnabledInv, Clean, Never
<1>4. CASE Pay
  <2>1. UNCHANGED <<manual, account, req, past>> /\ DocsType /\ DocsType'
        /\ Listed \subseteq Listed' /\ \A s \in DOMAIN sub : sub'[s] = sub[s]
    BY <1>4, PayMoves, PayListed DEF db, BaseInv, TypeInv
  <2>2. \A t : Paid(t) => Paid(t)'
    BY <2>1 DEF Paid, ItemsFor, Listed
  <2> QED BY <2>1, <2>2, EnabledSame
<1>5. CASE Charge
  <2>1. UNCHANGED <<manual, account, req, past>> /\ \A t : Paid(t) => Paid(t)'
    BY <1>5, ChargeMoves, ChargeKeepsPaid DEF db
  <2> QED BY <2>1, EnabledSame
<1>6. CASE UNCHANGED vars
  <2>1. UNCHANGED <<manual, account, req, past, sub>>
    BY <1>6 DEF vars
  <2> QED BY <2>1, PaidSame, EnabledSame
<1>7. ASSUME NEW p \in Request, Handle(p) PROVE EnabledInv'
  BY <1>7, BillingAssumption, EnabledHandle
<1> QED BY <1>1, <1>2, <1>3, <1>4, <1>5, <1>6, <1>7 DEF Next, Asks

LEMMA InitOwn ==
  ASSUME Init, NEW t \in Product
  PROVE  \E a \in Own(t) : Own(t) = {a} /\ account[a].enabled = manual
<1>1. /\ DocsType /\ Len(account) = 3 /\ account[1] = NewAccount("TAG", manual)
      /\ account[2] = NewAccount("USER", manual) /\ account[3] = NewAccount("SYSTEM", TRUE)
  BY InitDocs
<1>2. DOMAIN account = 1 .. 3
  BY <1>1 DEF DocsType
<1>3. \A a \in 1 .. 3 : ~account[a].deleted
  BY <1>1 DEF NewAccount
<1>4. account[1].type = "TAG" /\ account[2].type = "USER" /\ account[3].type = "SYSTEM"
      /\ account[1].enabled = manual /\ account[2].enabled = manual
  BY <1>1 DEF NewAccount
<1>5. Own(t) = {a \in 1 .. 3 : account[a].type = OwnType(t)}
  BY <1>2, <1>3 DEF Own, Live, OwnType
<1>6. Own(t) = {IF t = "TAG" THEN 1 ELSE 2}
  BY <1>4, <1>5 DEF OwnType
<1> QED BY <1>4, <1>6

THEOREM EnabledCorrect == Spec => []EnabledInv
<1>1. Init => EnabledInv
  <2> SUFFICES ASSUME Init, ~manual PROVE OneOwn /\ OwnIsPaid /\ \A p \in Request : Honest(req[p])
    BY DEF EnabledInv, Clean
  <2>1. OneOwn /\ OwnIsPaid
    BY InitOwn DEF OneOwn, OwnIsPaid
  <2>2. \A p \in Request : Honest(req[p])
    BY InitDocs, IdleDoc, IdleHonest
  <2> QED BY <2>1, <2>2
<1> QED BY <1>1, EnabledNext, BaseCorrect, KnownCorrect, PTL DEF Spec

\* When nothing runs, an account of the owner that is enabled is on trial or paid for,
\* however often accounts were canceled and replaced.
THEOREM EnabledMeansPaid == Spec => []EnabledIsPaid
<1>1. EnabledInv => EnabledIsPaid
  <2> SUFFICES ASSUME EnabledInv, Quiet, Clean, NEW t \in Product, NEW a \in Own(t),
                      account[a].enabled
               PROVE  account[a].trial \/ Paid(t)
    BY DEF EnabledIsPaid, Clean
  <2>1. ~Ends(t, a)
    BY DEF Quiet, Ends
  <2> QED BY <2>1 DEF EnabledInv, OwnIsPaid
<1> QED BY <1>1, EnabledCorrect, PTL

-----------------------------------------------------------------------------
(* Who pays for a product can use it.                                      *)

Plain == Never({"failed", "overlap", "twice"})
Active(t) == \E s \in DOMAIN sub : sub[s].status = "active" /\ ItemsFor(s, t) # {}
Ready(t) == \E a \in Own(t) : account[a].enabled
Pending(t) == \E e \in DOMAIN event :
  /\ ~event[e].done /\ event[e].status = "active" /\ ~Busy(e)
  /\ \E i \in event[e].items : ProductOf[i] = t
Makes(t) == \E p \in Request : req[p].pc = "insert" /\ req[p].product = t
Does(t) == \E p \in Request : \E x \in req[p].todo : x.product = t

\* A subscription has one item of a product.
Sole == \A s \in Listed : \A i, j \in sub[s].items : ProductOf[i] = ProductOf[j] => i = j
\* The owner has an account for each product, or gets one.
HasOwn == \A t \in Product : Own(t) # {} \/ Makes(t)
\* The account of an active product is enabled, or will be: by an event that is not
\* answered, by a handler that answers one, or because a new one is enabled anyway.
WillBeReady == \A t \in Product :
  Active(t) => Ready(t) \/ Pending(t) \/ Does(t) \/ (manual /\ Makes(t))
\* An account that is about to be deleted is of a product that is canceled, or paid for
\* again, of which an event will tell.
Spared(r) == r.pc \in {"clear", "delete"} /\ ~manual /\ Active(r.product) => Pending(r.product)
PaidInv == Plain => Sole /\ HasOwn /\ WillBeReady /\ \A p \in Request : Spared(req[p])

LEMMA PlainKept == ASSUME past \subseteq past', Plain' PROVE Plain /\ Calm /\ Calm'
BY DEF Plain, Never, Calm

LEMMA NoMakes ==
  ASSUME NEW p \in Request, Alone(p), req[p].pc # "insert", NEW t PROVE ~Makes(t)
BY DEF Alone, Makes

LEMMA NoDoes ==
  ASSUME BaseInv, NEW p \in Request, Alone(p), req[p].pc # "item", NEW t PROVE ~Does(t)
<1>1. ASSUME NEW q \in Request PROVE req[q].todo = {}
  <2>1. req[q].pc # "item"
    BY DEF Alone
  <2> QED BY <2>1, Runs DEF Sound
<1> QED BY <1>1 DEF Does

\* A step of one handler: what is to be shown of it.
LEMMA PaidStep ==
  ASSUME BaseInv, NEW p \in Request, NEW r \in ReqDoc, Step(p, r), Calm' => Alone(p),
         Plain' => Sole' /\ HasOwn' /\ WillBeReady' /\ Spared(r)'
  PROVE  PaidInv'
<1> SUFFICES ASSUME Plain', NEW q \in Request PROVE Spared(req[q])'
  BY DEF PaidInv
<1>1. Alone(p)
  BY DEF Plain, Never, Calm
<1>2. CASE q = p
  BY <1>2, Stepped
<1>3. CASE q # p
  <2>1. req'[q].pc = "idle"
    BY <1>1, <1>3, Stepped DEF Alone
  <2> QED BY <2>1 DEF Spared
<1> QED BY <1>2, <1>3

LEMMA BusyStays ==
  ASSUME BaseInv, NEW p \in Request, NEW r, Step(p, r), r.event \in {0, req[p].event},
         NEW e \in DOMAIN event, Busy(e)'
  PROVE  Busy(e)
<1>1. PICK q \in Request : req'[q].event = e
  BY DEF Busy
<1>2. e # 0
  BY DEF BaseInv, TypeInv, DocsType
<1>3. req[q].event = e
  BY <1>1, <1>2, Stepped
<1> QED BY <1>3 DEF Busy

LEMMA PendingStays ==
  ASSUME \A e \in DOMAIN event :
           e \in DOMAIN event' /\ event'[e] = event[e] /\ (Busy(e)' => Busy(e)),
         NEW t, Pending(t)
  PROVE  Pending(t)'
<1>1. PICK e \in DOMAIN event :
        /\ ~event[e].done /\ event[e].status = "active" /\ ~Busy(e)
        /\ \E i \in event[e].items : ProductOf[i] = t
  BY DEF Pending
<1>2. /\ e \in DOMAIN event' /\ ~event'[e].done /\ event'[e].status = "active" /\ ~(Busy(e)')
      /\ \E i \in event'[e].items : ProductOf[i] = t
  BY <1>1
<1> QED BY <1>2 DEF Pending

\* Stripe tells of a product that is active.
LEMMA TellsPending ==
  ASSUME BaseInv, DocsType', NEW s, NEW what, what.status = "active", NEW i \in what.items,
         Len(event') = Len(event) + 1, event'[Len(event) + 1] = Event(s, what),
         \A q \in Request : req'[q].event \in {0, req[q].event}
  PROVE  Pending(ProductOf[i])'
<1> DEFINE e == Len(event) + 1
<1>1. Len(event) \in Nat
  BY DocsLen DEF BaseInv, TypeInv
<1>2. e \in DOMAIN event'
  BY <1>1 DEF DocsType
<1>3. ~event'[e].done /\ event'[e].status = "active" /\ event'[e].items = what.items
  BY DEF Event
<1>4. \A q \in Request : req'[q].event # e
  <2> SUFFICES ASSUME NEW q \in Request PROVE req'[q].event # e
    OBVIOUS
  <2>1. req[q].event \in 0 .. Len(event)
    BY Runs DEF Sound
  <2>2. req'[q].event \in 0 .. Len(event)
    BY <1>1, <2>1
  <2> QED BY <1>1, <2>2
<1> HIDE DEF e
<1>6. PICK d : d = e
  OBVIOUS
<1>7. d \in DOMAIN event' /\ ~event'[d].done /\ event'[d].status = "active"
      /\ event'[d].items = what.items /\ ~(Busy(d)')
  <2>1. \A q \in Request : req'[q].event # d
    BY <1>4, <1>6
  <2> QED BY <1>2, <1>3, <1>6, <2>1 DEF Busy
<1> QED BY <1>7 DEF Pending

LEMMA ActiveSame == ASSUME UNCHANGED sub, NEW t PROVE Active(t)' <=> Active(t)
BY DEF Active, ItemsFor

LEMMA SoleSame == ASSUME UNCHANGED sub, Sole PROVE Sole'
BY DEF Sole, Listed

LEMMA ActiveListed ==
  ASSUME NEW t, Active(t) PROVE \E s \in Listed : sub[s].status = "active" /\ ItemsFor(s, t) # {}
BY DEF Active, Listed

\* A step that keeps the accounts that are enabled, and what Stripe has.
LEMMA PaidReads ==
  ASSUME BaseInv, PaidInv, past \subseteq past', UNCHANGED <<manual, sub, event>>,
         NEW p \in Request, NEW r \in ReqDoc, Step(p, r), Calm' => Alone(p),
         req[p].pc \notin {"insert", "item"}, r.event = 0,
         r.pc # "clear", r.pc = "delete" => manual,
         \A t \in Product : Own(t)' = Own(t) /\ (Ready(t) => Ready(t)')
  PROVE  PaidInv'
<1> SUFFICES ASSUME Plain' PROVE Sole' /\ HasOwn' /\ WillBeReady' /\ Spared(r)'
  BY PaidStep
<1>1. Plain /\ Alone(p)
  BY PlainKept
<1>2. Sole /\ HasOwn /\ WillBeReady
  BY <1>1 DEF PaidInv
<1>3. \A t : ~Makes(t) /\ ~Does(t)
  BY <1>1, NoMakes, NoDoes
<1>4. \A e \in DOMAIN event :
        e \in DOMAIN event' /\ event'[e] = event[e] /\ (Busy(e)' => Busy(e))
  BY BusyStays
<1>5. \A t : Pending(t) => Pending(t)'
  BY <1>4, PendingStays
<1>6. HasOwn' /\ WillBeReady'
  BY <1>2, <1>3, <1>5, ActiveSame DEF HasOwn, WillBeReady
<1>7. Spared(r)'
  BY DEF Spared
<1> QED BY <1>2, <1>6, <1>7, SoleSame

LEMMA SavedReady ==
  ASSUME DocsType, DocsType', NEW a \in DOMAIN account, NEW was, NEW trial,
         SavedAt(a, was, TRUE, trial), NEW t \in Product
  PROVE  Own(t)' = Own(t) /\ (Ready(t) => Ready(t)')
<1>1. Own(t)' = Own(t)
  BY SavedOwn
<1>2. \A b \in DOMAIN account : account[b].enabled => account'[b].enabled
  BY DEF SavedAt
<1>3. \A b \in Own(t) : b \in DOMAIN account
  BY DEF Own, Live
<1> QED BY <1>1, <1>2, <1>3 DEF Ready

LEMMA ReadySame ==
  ASSUME UNCHANGED account, NEW t PROVE Own(t)' = Own(t) /\ (Ready(t) => Ready(t)')
BY OwnSame DEF Ready

LEMMA PaidAddItem ==
  ASSUME BaseInv, OneInv, SureInv, PaidInv, BillingAssumption, NEW p \in Request, AddItem(p)
  PROVE  PaidInv'
<1> DEFINE s == req[p].sub
<1>1. /\ Step(p, Idle) /\ DocsType' /\ UNCHANGED <<db, past>> /\ req[p].pc = "add"
      /\ Idle \in ReqDoc /\ Idle.event = 0 /\ Idle.pc = "idle"
  BY AddItemMoves, IdleDoc DEF End
<1>2. (Calm' => Alone(p)) /\ UNCHANGED <<manual, account>>
  BY <1>1, Runs DEF db
<1>3. CASE UNCHANGED <<sub, event>>
  BY <1>1, <1>2, <1>3, ReadySame, PaidReads
<1>4. CASE ~UNCHANGED <<sub, event>>
  <2>1. PICK what \in Subscription :
          /\ s \in DOMAIN sub /\ sub[s].status # "canceled"
          /\ req[p].plan \in Plan /\ req[p].product = ProductOf[req[p].plan]
          /\ what.items = (sub[s].items \ req[p].current) \cup {req[p].plan}
          /\ what.status = sub[s].status /\ Told1(s, what)
    BY <1>4, AddItemMoves
  <2> SUFFICES ASSUME Plain' PROVE Sole' /\ HasOwn' /\ WillBeReady' /\ Spared(Idle)'
    BY <1>1, <1>2, PaidStep
  <2>2. Plain /\ Calm /\ Alone(p) /\ "unsure" \notin past
    BY <1>1, <1>2, PlainKept DEF SureInv, Plain, Never
  <2>3. Sole /\ HasOwn /\ WillBeReady
    BY <2>2 DEF PaidInv
  <2>4. /\ sub'[s] = what /\ (\A x \in DOMAIN sub : x # s => sub'[x] = sub[x])
        /\ Listed' = Listed /\ DOMAIN sub' = DOMAIN sub /\ s \in Listed
    <3>1. DocsType
      BY DEF BaseInv, TypeInv
    <3>2. Listed' = Listed
      BY <2>1, <3>1, ToldListed
    <3>3. DOMAIN sub' = DOMAIN sub
      BY <1>1, <2>1, <3>1 DEF Told1, DocsType
    <3> QED BY <2>1, <3>2, <3>3 DEF Told1, Listed
  <2>5. IF req[p].current = {} THEN ItemsFor(s, req[p].product) = {}
        ELSE \E j \in ItemsFor(s, req[p].product) : req[p].current = {j}
    BY <1>1, <2>2, Runs DEF Fits
  <2>6. \A j \in sub[s].items \ req[p].current : ProductOf[j] # req[p].product
    BY <2>3, <2>4, <2>5 DEF ItemsFor, Sole
  <2>7. \A i, j \in what.items : ProductOf[i] = ProductOf[j] => i = j
    <3>1. \A i, j \in sub[s].items : ProductOf[i] = ProductOf[j] => i = j
      BY <2>3, <2>4 DEF Sole
    <3> QED BY <2>1, <2>6, <3>1
  <2>8. Sole'
    <3> SUFFICES ASSUME NEW x \in Listed', NEW i \in sub'[x].items, NEW j \in sub'[x].items,
                        ProductOf[i] = ProductOf[j]
                 PROVE  i = j
      BY DEF Sole
    <3>1. CASE x = s
      BY <2>4, <2>7, <3>1
    <3>2. CASE x # s
      <4>1. x \in Listed /\ sub'[x] = sub[x]
        BY <2>4, <3>2 DEF Listed
      <4> QED BY <2>3, <4>1 DEF Sole
    <3> QED BY <3>1, <3>2
  <2>9. \A t : ~Makes(t) /\ ~Does(t)
    BY <1>1, <2>2, NoMakes, NoDoes
  <2>10. \A e \in DOMAIN event :
           e \in DOMAIN event' /\ event'[e] = event[e] /\ (Busy(e)' => Busy(e))
    BY <1>1, <2>1, ToldKeeps, BusyStays DEF BaseInv, TypeInv
  <2>11. \A t : Pending(t) => Pending(t)'
    BY <2>10, PendingStays
  <2>12. \A q \in Request : req'[q].event \in {0, req[q].event}
    BY <1>1, Stepped
  <2>13. ASSUME NEW t, Active(t)' PROVE Active(t) \/ Pending(t)'
    <3>1. PICK x \in DOMAIN sub' : sub'[x].status = "active" /\ ItemsFor(x, t)' # {}
      BY <2>13 DEF Active
    <3>2. CASE x = s
      <4>1. what.status = "active" /\ \E i \in what.items : ProductOf[i] = t
        BY <2>4, <3>1, <3>2 DEF ItemsFor
      <4>2. Len(event') = Len(event) + 1 /\ event'[Len(event) + 1] = Event(s, what)
        BY <2>1 DEF Told1
      <4> QED BY <1>1, <2>12, <4>1, <4>2, TellsPending
    <3>3. CASE x # s
      BY <2>4, <3>1, <3>3 DEF Active, ItemsFor
    <3> QED BY <3>2, <3>3
  <2>14. \A t : Own(t)' = Own(t) /\ (Ready(t) => Ready(t)')
    BY <1>2, ReadySame
  <2>15. HasOwn' /\ WillBeReady'
    BY <2>3, <2>9, <2>11, <2>13, <2>14 DEF HasOwn, WillBeReady
  <2> QED BY <1>1, <2>8, <2>15 DEF Spared
<1> QED BY <1>3, <1>4

LEMMA PaidCancelItem ==
  ASSUME BaseInv, OneInv, SureInv', PaidInv, NEW p \in Request, CancelItem(p) PROVE PaidInv'
<1> SUFFICES ASSUME Plain' PROVE PaidInv'
  BY DEF PaidInv
<1>1. Calm' /\ "unsure" \notin past'
  BY DEF Plain, Never, Calm, SureInv
<1>2. PICK r \in ReqDoc, s \in Found(req[p]) :
           /\ Step(p, r) /\ UNCHANGED <<db, open>> /\ req[p].pc = "cancel" /\ past \subseteq past'
           /\ r.event = 0 /\ (r.pc # "idle" => r.product = req[p].product)
           /\ s = req[p].sub /\ "unsure" \notin past
           /\ \/ r.pc = "idle" /\ UNCHANGED <<sub, event>>
              \/ /\ r.pc = "delete" /\ s \in DOMAIN sub /\ s \in Listed /\ Listed' = Listed
                 /\ \A e \in DOMAIN event : e \in DOMAIN event' /\ event'[e] = event[e]
                 /\ \E what \in Subscription :
                      /\ what.items = sub[s].items \ req[p].current /\ what.status = sub[s].status
                      /\ Told1(s, what)
              \/ /\ r.pc = "clear" /\ s \in Listed /\ Listed' = Listed \ {s} /\ UNCHANGED event
  BY <1>1, CancelItemAlone
<1>3. Plain /\ Calm /\ Alone(p) /\ UNCHANGED <<manual, account>>
  BY <1>1, <1>2, PlainKept, Runs DEF db
<1>4. Sole /\ HasOwn /\ WillBeReady /\ \A x, y \in Listed : x = y
  BY <1>3 DEF PaidInv, OneInv, Plain, Never
<1>5. \A t : ~Makes(t) /\ ~Does(t)
  BY <1>2, <1>3, NoMakes, NoDoes
<1>6. \A t : Own(t)' = Own(t) /\ (Ready(t) => Ready(t)')
  BY <1>3, ReadySame
<1>7. HasOwn'
  BY <1>4, <1>5, <1>6 DEF HasOwn
<1>8. CASE r.pc = "idle"
  BY <1>2, <1>3, <1>6, <1>8, PaidReads
<1>9. CASE r.pc = "clear"
  <2>1. Listed' = {}
    BY <1>2, <1>4, <1>9
  <2>2. \A t : ~(Active(t)')
    BY <2>1 DEF Active, Listed
  <2>3. Sole' /\ WillBeReady' /\ Spared(r)'
    BY <2>1, <2>2 DEF Sole, WillBeReady, Spared
  <2> QED BY <1>2, <1>3, <1>7, <2>3, PaidStep
<1>10. CASE r.pc = "delete"
  <2>1. PICK what \in Subscription :
          /\ what.items = sub[s].items \ req[p].current /\ what.status = sub[s].status
          /\ Told1(s, what)
    BY <1>2, <1>10
  <2>2. /\ s \in Listed /\ Listed' = Listed /\ sub'[s] = what
        /\ \A e \in DOMAIN event : e \in DOMAIN event' /\ event'[e] = event[e]
    BY <1>2, <1>10, <2>1 DEF Told1
  <2>3. \A x \in Listed' : x = s
    BY <1>4, <2>2
  <2>4. \A i \in sub'[s].items : i \in sub[s].items /\ i \notin req[p].current
    BY <2>1, <2>2
  <2>5. Sole'
    BY <1>4, <2>2, <2>3, <2>4 DEF Sole
  <2>6. ASSUME NEW t, Active(t)' PROVE sub'[s].status = "active" /\ ItemsFor(s, t)' # {}
    <3>1. \E x \in Listed' : sub'[x].status = "active" /\ ItemsFor(x, t)' # {}
      BY <2>6 DEF Active, Listed
    <3> QED BY <2>3, <3>1
  <2>7. \A t : Active(t)' => Active(t)
    BY <2>1, <2>2, <2>4, <2>6 DEF Active, ItemsFor, Listed
  <2>8. \A e \in DOMAIN event :
          e \in DOMAIN event' /\ event'[e] = event[e] /\ (Busy(e)' => Busy(e))
    BY <1>2, <2>2, BusyStays
  <2>9. WillBeReady'
    BY <1>4, <1>5, <1>6, <2>7, <2>8, PendingStays DEF WillBeReady
  <2>10. ~(Active(r.product)')
    <3> SUFFICES ASSUME Active(r.product)' PROVE FALSE
      OBVIOUS
    <3>1. PICK i \in sub'[s].items : ProductOf[i] = r.product
      BY <2>6 DEF ItemsFor
    <3>2. i \in sub[s].items /\ i \notin req[p].current /\ r.product = req[p].product
      BY <1>2, <1>10, <2>4
    <3>3. req[p].current # {}
      BY <1>2, Runs DEF Sound
    <3>4. PICK j \in ItemsFor(s, req[p].product) : req[p].current = {j}
      BY <1>2, <1>3, <3>3, Runs DEF Fits
    <3> QED BY <1>4, <2>2, <3>1, <3>2, <3>4 DEF ItemsFor, Sole
  <2>11. Spared(r)'
    BY <2>10 DEF Spared
  <2> QED BY <1>2, <1>3, <1>7, <2>5, <2>9, <2>11, PaidStep
<1> QED BY <1>2, <1>8, <1>9, <1>10

LEMMA PaidClearOrg ==
  ASSUME BaseInv, PaidInv, NEW p \in Request, ClearOrg(p) PROVE PaidInv'
<1>1. PICK r \in ReqDoc :
        /\ Step(p, r) /\ UNCHANGED <<manual, account, stripe, past>> /\ req[p].pc = "clear"
        /\ r.pc = "delete" /\ r.product = req[p].product /\ r.event = 0
  BY ClearOrgMoves
<1>2. (Calm' => Alone(p)) /\ UNCHANGED <<sub, event>>
  BY <1>1, Runs DEF stripe
<1> SUFFICES ASSUME Plain' PROVE Sole' /\ HasOwn' /\ WillBeReady' /\ Spared(r)'
  BY <1>1, <1>2, PaidStep
<1>3. Plain /\ Alone(p)
  BY <1>1, <1>2, PlainKept
<1>4. Sole /\ HasOwn /\ WillBeReady /\ Spared(req[p])
  BY <1>3 DEF PaidInv
<1>5. \A t : ~Makes(t) /\ ~Does(t)
  BY <1>1, <1>3, NoMakes, NoDoes
<1>6. \A t : Own(t)' = Own(t) /\ (Ready(t) => Ready(t)')
  BY <1>1, ReadySame
<1>7. \A e \in DOMAIN event :
        e \in DOMAIN event' /\ event'[e] = event[e] /\ (Busy(e)' => Busy(e))
  BY <1>1, <1>2, BusyStays
<1>8. \A t : (Pending(t) => Pending(t)') /\ (Active(t)' <=> Active(t))
  BY <1>2, <1>7, PendingStays, ActiveSame
<1>9. HasOwn' /\ WillBeReady'
  BY <1>4, <1>5, <1>6, <1>8 DEF HasOwn, WillBeReady
<1>10. Spared(r)'
  BY <1>1, <1>4, <1>8 DEF Spared
<1> QED BY <1>2, <1>4, <1>9, <1>10, SoleSame

LEMMA PaidDeleteAccount ==
  ASSUME BaseInv, PaidInv, NEW p \in Request, DeleteAccount(p) PROVE PaidInv'
<1>1. PICK r \in ReqDoc :
        /\ Step(p, r) /\ UNCHANGED <<manual, stripe, past>> /\ req[p].pc = "delete"
        /\ r.pc = "insert" /\ r.product = req[p].product /\ r.event = 0
        /\ req[p].acc \in DOMAIN account /\ DocsType' /\ Len(account') = Len(account)
        /\ \A b \in DOMAIN account : b # req[p].acc => account'[b] = account[b]
  BY DeleteAccountMoves
<1>2. (Calm' => Alone(p)) /\ UNCHANGED <<sub, event>> /\ req'[p] = r
  BY <1>1, Runs, Stepped DEF stripe
<1> SUFFICES ASSUME Plain' PROVE Sole' /\ HasOwn' /\ WillBeReady' /\ Spared(r)'
  BY <1>1, <1>2, PaidStep
<1>3. Plain /\ Alone(p)
  BY <1>1, <1>2, PlainKept
<1>4. Sole /\ HasOwn /\ WillBeReady /\ Spared(req[p])
  BY <1>3 DEF PaidInv
<1>5. \A t : ~Makes(t) /\ ~Does(t)
  BY <1>1, <1>3, NoMakes, NoDoes
<1>6. DocsType /\ DOMAIN account' = DOMAIN account
  BY <1>1 DEF BaseInv, TypeInv, DocsType
<1>7. account[req[p].acc].type \in Types(r.product) /\ r.product \in Product
  BY <1>1, Runs DEF Sound, WithAccount
<1>8. ASSUME NEW t \in Product, t # r.product PROVE Own(t)' = Own(t) /\ (Ready(t) => Ready(t)')
  <2>1. account[req[p].acc].type # OwnType(t)
    BY <1>7, <1>8 DEF Types, OwnType, Product
  <2>2. \A a \in Own(t) : a \in DOMAIN account' /\ account'[a] = account[a]
    BY <1>1, <1>6, <2>1, OwnIs
  <2>3. req[p].acc \notin Own(t)'
    <3>1. account'[req[p].acc].type = account[req[p].acc].type
      BY <1>1, DeleteAccountMoves DEF Grown
    <3> QED BY <2>1, <3>1 DEF Own, Live, OwnType
  <2>4. Own(t)' = Own(t)
    BY <1>1, <1>6, <2>2, <2>3 DEF Own, Live
  <2> QED BY <2>2, <2>4 DEF Ready
<1>9. Makes(r.product)'
  BY <1>1, <1>2 DEF Makes
<1>10. \A e \in DOMAIN event :
         e \in DOMAIN event' /\ event'[e] = event[e] /\ (Busy(e)' => Busy(e))
  BY <1>1, <1>2, BusyStays
<1>11. \A t : (Pending(t) => Pending(t)') /\ (Active(t)' <=> Active(t))
  BY <1>2, <1>10, PendingStays, ActiveSame
<1>12. HasOwn'
  BY <1>4, <1>5, <1>8, <1>9 DEF HasOwn
<1>13. WillBeReady'
  <2> SUFFICES ASSUME NEW t \in Product, Active(t)'
               PROVE  Ready(t)' \/ Pending(t)' \/ (manual' /\ Makes(t)')
    BY DEF WillBeReady
  <2>1. CASE t = r.product
    <3>1. ~manual => Pending(t)
      BY <1>1, <1>4, <1>11, <2>1 DEF Spared
    <3> QED BY <1>1, <1>9, <1>11, <2>1, <3>1
  <2>2. CASE t # r.product
    BY <1>4, <1>5, <1>8, <1>11, <2>2 DEF WillBeReady
  <2> QED BY <2>1, <2>2
<1>14. Spared(r)'
  BY <1>1 DEF Spared
<1> QED BY <1>2, <1>4, <1>12, <1>13, <1>14, SoleSame

LEMMA PaidInsertAccount ==
  ASSUME BaseInv, PaidInv, NEW p \in Request, InsertAccount(p) PROVE PaidInv'
<1>1. /\ Step(p, Idle) /\ UNCHANGED <<manual, stripe, past>> /\ req[p].pc = "insert"
      /\ req[p].product \in Product /\ Idle \in ReqDoc /\ Idle.pc = "idle" /\ Idle.event = 0
  BY InsertAccountMoves, IdleDoc DEF End
<1>2. (Calm' => Alone(p)) /\ UNCHANGED <<sub, event>>
  BY <1>1, Runs DEF stripe
<1> SUFFICES ASSUME Plain' PROVE Sole' /\ HasOwn' /\ WillBeReady' /\ Spared(Idle)'
  BY <1>1, <1>2, PaidStep
<1>3. Plain /\ Alone(p)
  BY <1>1, <1>2, PlainKept
<1>4. Sole /\ HasOwn /\ WillBeReady
  BY <1>3 DEF PaidInv
<1>5. \A t : ~Does(t) /\ (Makes(t) => t = req[p].product)
  BY <1>1, <1>3, NoDoes DEF Makes, Alone
<1>6. \A e \in DOMAIN event :
        e \in DOMAIN event' /\ event'[e] = event[e] /\ (Busy(e)' => Busy(e))
  BY <1>1, <1>2, BusyStays
<1>7. \A t : (Pending(t) => Pending(t)') /\ (Active(t)' <=> Active(t))
  BY <1>2, <1>6, PendingStays, ActiveSame
<1>8. HasOwn'
  BY <1>4, <1>5, InsertOwn DEF HasOwn
<1>9. ASSUME NEW t \in Product PROVE (Ready(t) => Ready(t)') /\ (manual /\ Makes(t) => Ready(t)')
  BY <1>5, InsertOwn DEF Ready
<1>10. WillBeReady'
  BY <1>4, <1>5, <1>7, <1>9 DEF WillBeReady
<1>11. Spared(Idle)'
  BY <1>1 DEF Spared
<1> QED BY <1>2, <1>4, <1>8, <1>10, <1>11, SoleSame

LEMMA PaidBeginHook ==
  ASSUME BaseInv, PaidInv, BillingAssumption, NEW p \in Request, BeginHook(p) PROVE PaidInv'
<1>1. PICK r \in ReqDoc, e \in DOMAIN event :
        /\ Step(p, r) /\ UNCHANGED <<manual, account, mayTrial, stripe>> /\ req[p].pc = "idle"
        /\ past \subseteq past' /\ (Calm' => Alone(p)) /\ r.pc = "item" /\ r.event = e
        /\ event[e].status = "active" =>
             \A i \in event[e].items : \E x \in r.todo : x.product = ProductOf[i]
  BY BeginHookMoves
<1>2. UNCHANGED <<sub, event>> /\ req'[p] = r /\ \A q \in Request : q # p => req'[q] = req[q]
  BY <1>1, Stepped DEF stripe
<1> SUFFICES ASSUME Plain' PROVE Sole' /\ HasOwn' /\ WillBeReady' /\ Spared(r)'
  BY <1>1, PaidStep
<1>3. Plain /\ Alone(p)
  BY <1>1, PlainKept
<1>4. Sole /\ HasOwn /\ WillBeReady
  BY <1>3 DEF PaidInv
<1>5. \A t : ~Makes(t) /\ ~Does(t)
  BY <1>1, <1>3, NoMakes, NoDoes
<1>6. \A t : Own(t)' = Own(t) /\ (Ready(t) => Ready(t)')
  BY <1>1, ReadySame
<1>7. ASSUME NEW t, Pending(t) PROVE Pending(t)' \/ Does(t)'
  <2>1. PICK d \in DOMAIN event :
          /\ ~event[d].done /\ event[d].status = "active" /\ ~Busy(d)
          /\ \E i \in event[d].items : ProductOf[i] = t
    BY <1>7 DEF Pending
  <2>2. CASE d = e
    <3>1. \E x \in r.todo : x.product = t
      BY <1>1, <2>1, <2>2
    <3> QED BY <1>2, <3>1 DEF Does
  <2>3. CASE d # e
    <3>1. \A q \in Request : req'[q].event # d
      BY <1>1, <1>2, <2>1, <2>3 DEF Busy
    <3> QED BY <1>2, <2>1, <3>1 DEF Pending, Busy
  <2> QED BY <2>2, <2>3
<1>8. \A t : Active(t)' <=> Active(t)
  BY <1>2, ActiveSame
<1>9. HasOwn' /\ WillBeReady'
  BY <1>4, <1>5, <1>6, <1>7, <1>8 DEF HasOwn, WillBeReady
<1>10. Spared(r)'
  BY <1>1 DEF Spared
<1> QED BY <1>2, <1>4, <1>9, <1>10, SoleSame

\* A handler of an event alone: all that is to be done is its own.
LEMMA DoesOwn ==
  ASSUME BaseInv, NEW p \in Request, Alone(p), NEW t, Does(t)
  PROVE  \E x \in req[p].todo : x.product = t
<1>1. PICK q \in Request : \E x \in req[q].todo : x.product = t
  BY DEF Does
<1>2. ASSUME q # p PROVE FALSE
  <2>1. req[q].pc = "idle"
    BY <1>2 DEF Alone
  <2>2. req[q].todo = {}
    BY <2>1, Runs DEF Sound
  <2> QED BY <1>1, <2>2
<1> QED BY <1>1, <1>2

LEMMA PaidFindItem ==
  ASSUME BaseInv, PaidInv, NEW p \in Request, FindItem(p) PROVE PaidInv'
<1>1. PICK r \in ReqDoc, x \in req[p].todo :
        /\ Step(p, r) /\ Keeps /\ UNCHANGED past /\ req[p].pc = "item" /\ r.pc = "item"
        /\ \/ /\ r.event = 0 /\ r.todo = req[p].todo \ {x} /\ Own(x.product) = {}
           \/ /\ r.event = req[p].event
              /\ \E y \in Todos : y.product = x.product /\ r.todo = (req[p].todo \ {x}) \cup {y}
  BY FindItemMoves
<1>2. (Calm' => Alone(p)) /\ UNCHANGED <<manual, account, sub, event>> /\ req'[p] = r
  BY <1>1, Runs, Stepped DEF Keeps
<1> SUFFICES ASSUME Plain' PROVE Sole' /\ HasOwn' /\ WillBeReady' /\ Spared(r)'
  BY <1>1, <1>2, PaidStep
<1>3. Plain /\ Alone(p)
  BY <1>1, <1>2, PlainKept
<1>4. Sole /\ HasOwn /\ WillBeReady
  BY <1>3 DEF PaidInv
<1>5. \A t : ~Makes(t)
  BY <1>1, <1>3, NoMakes
<1>6. x.product \in Product
  <2>1. req[p] \in ReqDoc
    BY Runs
  <2> QED BY <2>1 DEF ReqDoc, Todos
<1>7. PICK y \in Todos :
        /\ r.event = req[p].event /\ y.product = x.product
        /\ r.todo = (req[p].todo \ {x}) \cup {y}
  BY <1>1, <1>4, <1>5, <1>6 DEF HasOwn
<1>8. ASSUME NEW t, Does(t) PROVE Does(t)'
  <2>1. PICK z \in req[p].todo : z.product = t
    BY <1>3, <1>8, DoesOwn
  <2>2. \E w \in r.todo : w.product = t
    BY <1>7, <2>1
  <2> QED BY <1>2, <2>2 DEF Does
<1>9. \A e \in DOMAIN event :
        e \in DOMAIN event' /\ event'[e] = event[e] /\ (Busy(e)' => Busy(e))
  BY <1>1, <1>2, <1>7, BusyStays
<1>10. \A t : (Pending(t) => Pending(t)') /\ (Active(t)' <=> Active(t))
  BY <1>2, <1>9, PendingStays, ActiveSame
<1>11. \A t : Own(t)' = Own(t) /\ (Ready(t) => Ready(t)')
  BY <1>2, ReadySame
<1>12. HasOwn' /\ WillBeReady'
  BY <1>4, <1>5, <1>8, <1>10, <1>11 DEF HasOwn, WillBeReady
<1>13. Spared(r)'
  BY <1>1 DEF Spared
<1> QED BY <1>2, <1>4, <1>12, <1>13, SoleSame

LEMMA PaidSaveItem ==
  ASSUME BaseInv, PaidInv, NEW p \in Request, SaveItem(p) PROVE PaidInv'
<1>1. PICK r \in ReqDoc, x \in req[p].todo :
        /\ Step(p, r) /\ DocsType' /\ UNCHANGED <<manual, orgSub, stripe>> /\ req[p].pc = "item"
        /\ r.pc = "item" /\ past' = past /\ x.product \in Product
        /\ x.acc \in DOMAIN account /\ account[x.acc].type = OwnType(x.product)
        /\ (Calm => ~account[x.acc].deleted) /\ (Calm => account'[x.acc].enabled)
        /\ SavedAt(x.acc, x.was, TRUE, FALSE)
        /\ r.todo = req[p].todo \ {x} /\ r.event = req[p].event
  BY SaveItemMoves
<1>2. (Calm' => Alone(p)) /\ UNCHANGED <<sub, event>> /\ req'[p] = r /\ past \subseteq past'
  BY <1>1, Runs, Stepped DEF stripe
<1> SUFFICES ASSUME Plain' PROVE Sole' /\ HasOwn' /\ WillBeReady' /\ Spared(r)'
  BY <1>1, <1>2, PaidStep
<1>3. Plain /\ Alone(p) /\ Calm /\ DocsType
  BY <1>2, PlainKept DEF BaseInv, TypeInv
<1>4. Sole /\ HasOwn /\ WillBeReady
  BY <1>3 DEF PaidInv
<1>5. \A t : ~Makes(t)
  BY <1>1, <1>3, NoMakes
<1>6. \A t \in Product : Own(t)' = Own(t) /\ (Ready(t) => Ready(t)')
  BY <1>1, <1>3, SavedReady
<1>7. Ready(x.product)'
  <2>1. x.acc \in Own(x.product)
    BY <1>1, <1>3, OwnIs
  <2> QED BY <1>1, <1>3, <1>6, <2>1 DEF Ready
<1>8. ASSUME NEW t, Does(t) PROVE Does(t)' \/ t = x.product
  <2>1. PICK z \in req[p].todo : z.product = t
    BY <1>3, <1>8, DoesOwn
  <2>2. z = x \/ z \in r.todo
    BY <1>1
  <2> QED BY <1>2, <2>1, <2>2 DEF Does
<1>9. \A e \in DOMAIN event :
        e \in DOMAIN event' /\ event'[e] = event[e] /\ (Busy(e)' => Busy(e))
  BY <1>1, <1>2, BusyStays
<1>10. \A t : (Pending(t) => Pending(t)') /\ (Active(t)' <=> Active(t))
  BY <1>2, <1>9, PendingStays, ActiveSame
<1>11. HasOwn' /\ WillBeReady'
  BY <1>4, <1>5, <1>6, <1>7, <1>8, <1>10 DEF HasOwn, WillBeReady
<1>12. Spared(r)'
  BY <1>1 DEF Spared
<1> QED BY <1>2, <1>4, <1>11, <1>12, SoleSame

LEMMA PaidEndHook ==
  ASSUME BaseInv, PaidInv, NEW p \in Request, EndHook(p) PROVE PaidInv'
<1>1. /\ Step(p, Idle) /\ UNCHANGED <<db, sub, open, past>> /\ req[p].pc = "item"
      /\ req[p].todo = {} /\ Len(event') = Len(event) /\ DocsType'
      /\ Idle \in ReqDoc /\ Idle.pc = "idle" /\ Idle.event = 0
  BY EndHookMoves, IdleDoc DEF End
<1>2. (Calm' => Alone(p)) /\ UNCHANGED <<manual, account, sub>>
  BY <1>1, Runs DEF db
<1> SUFFICES ASSUME Plain' PROVE Sole' /\ HasOwn' /\ WillBeReady' /\ Spared(Idle)'
  BY <1>1, <1>2, PaidStep
<1>3. Plain /\ Alone(p)
  BY <1>1, <1>2, PlainKept
<1>4. Sole /\ HasOwn /\ WillBeReady
  BY <1>3 DEF PaidInv
<1>5. \A t : ~Makes(t) /\ ~Does(t)
  BY <1>1, <1>3, NoMakes, DoesOwn
<1>6. \A t : Own(t)' = Own(t) /\ (Ready(t) => Ready(t)')
  BY <1>2, ReadySame
<1>7. ASSUME NEW t, Pending(t) PROVE Pending(t)'
  <2>1. PICK d \in DOMAIN event :
          /\ ~event[d].done /\ event[d].status = "active" /\ ~Busy(d)
          /\ \E i \in event[d].items : ProductOf[i] = t
    BY <1>7 DEF Pending
  <2>2. d # req[p].event
    BY <2>1 DEF Busy
  <2>3. /\ event'[d].items = event[d].items /\ event'[d].status = event[d].status
        /\ ~event'[d].done
    BY <2>1, <2>2, EndHookMoves
  <2>4. d \in DOMAIN event'
    BY <1>1 DEF BaseInv, TypeInv, DocsType
  <2>5. ~(Busy(d)')
    BY <1>1, <2>1, BusyStays
  <2> QED BY <2>1, <2>3, <2>4, <2>5 DEF Pending
<1>8. \A t : Active(t)' <=> Active(t)
  BY <1>2, ActiveSame
<1>9. HasOwn' /\ WillBeReady'
  BY <1>2, <1>4, <1>5, <1>6, <1>7, <1>8 DEF HasOwn, WillBeReady
<1>10. Spared(Idle)'
  BY <1>1 DEF Spared
<1> QED BY <1>2, <1>4, <1>9, <1>10, SoleSame

\* Stripe changes a subscription by itself.
LEMMA PaidTold ==
  ASSUME BaseInv, PaidInv, UNCHANGED <<manual, account, req, past>>, Sole => Sole',
         \A t : Active(t)' => Active(t) \/ Pending(t)', \A t : Pending(t) => Pending(t)'
  PROVE  PaidInv'
<1> SUFFICES ASSUME Plain' PROVE Sole' /\ HasOwn' /\ WillBeReady' /\ \A p \in Request : Spared(req[p])'
  BY DEF PaidInv
<1>1. Sole /\ HasOwn /\ WillBeReady /\ \A p \in Request : Spared(req[p])
  BY DEF PaidInv, Plain, Never
<1>2. \A t : Own(t)' = Own(t) /\ (Ready(t) => Ready(t)')
  BY ReadySame
<1>3. \A t : (Makes(t)' <=> Makes(t)) /\ (Does(t)' <=> Does(t))
  BY DEF Makes, Does
<1>4. HasOwn' /\ WillBeReady'
  BY <1>1, <1>2, <1>3 DEF HasOwn, WillBeReady
<1>5. ASSUME NEW p \in Request PROVE Spared(req[p])'
  <2>1. PICK d : d = req[p] /\ req'[p] = d /\ Spared(d)
    BY <1>1
  <2>2. Spared(d)'
    BY <2>1 DEF Spared
  <2> QED BY <2>1, <2>2
<1> QED BY <1>1, <1>4, <1>5

LEMMA PaidPay == ASSUME BaseInv, PaidInv, Pay PROVE PaidInv'
<1>1. /\ UNCHANGED <<db, req, past>> /\ Len(sub') = Len(sub) + 1 /\ DocsType /\ DocsType'
      /\ (\A s \in DOMAIN sub : sub'[s] = sub[s]) /\ Len(event') = Len(event) + 1
      /\ \A e \in DOMAIN event : e \in DOMAIN event' /\ event'[e] = event[e]
  BY PayMoves, PayListed DEF BaseInv, TypeInv
<1>2. PICK i \in Plan :
        /\ sub'[Len(sub) + 1] = [items |-> {i}, status |-> "active"]
        /\ event'[Len(event) + 1] = Event(Len(sub) + 1, [items |-> {i}, status |-> "active"])
  BY PayMoves
<1>3. DOMAIN sub = 1 .. Len(sub) /\ DOMAIN sub' = 1 .. Len(sub) + 1 /\ Len(sub) \in Nat
  BY <1>1 DEF DocsType
<1>4. sub'[Len(sub) + 1].items = {i} /\ sub'[Len(sub) + 1].status = "active"
  BY <1>2
<1>5. Sole => Sole'
  <2> SUFFICES ASSUME Sole, NEW x \in Listed', NEW j \in sub'[x].items, NEW k \in sub'[x].items,
                      ProductOf[j] = ProductOf[k]
               PROVE  j = k
    BY DEF Sole
  <2>1. CASE x \in DOMAIN sub
    BY <1>1, <2>1 DEF Sole, Listed
  <2>2. CASE x = Len(sub) + 1
    BY <1>4, <2>2
  <2> QED BY <1>3, <2>1, <2>2 DEF Listed
<1>6. Pending(ProductOf[i])'
  <2> DEFINE what == [items |-> {i}, status |-> "active"]
  <2>1. what.status = "active" /\ i \in what.items
    OBVIOUS
  <2>2. event'[Len(event) + 1] = Event(Len(sub) + 1, what)
    BY <1>2
  <2> HIDE DEF what
  <2>3. \A q \in Request : req'[q].event \in {0, req[q].event}
    BY <1>1
  <2> QED BY <1>1, <2>1, <2>2, <2>3, TellsPending
<1>7. ASSUME NEW t, Active(t)' PROVE Active(t) \/ Pending(t)'
  <2>1. PICK x \in DOMAIN sub' : sub'[x].status = "active" /\ ItemsFor(x, t)' # {}
    BY <1>7 DEF Active
  <2>2. CASE x \in DOMAIN sub
    BY <1>1, <2>1, <2>2 DEF Active, ItemsFor
  <2>3. CASE x = Len(sub) + 1
    <3>1. ProductOf[i] = t
      BY <1>4, <2>1, <2>3 DEF ItemsFor
    <3> QED BY <1>6, <3>1
  <2> QED BY <1>3, <2>1, <2>2, <2>3
<1>8. \A e \in DOMAIN event :
        e \in DOMAIN event' /\ event'[e] = event[e] /\ (Busy(e)' => Busy(e))
  BY <1>1 DEF Busy
<1>9. \A t : Pending(t) => Pending(t)'
  BY <1>8, PendingStays
<1> QED BY <1>1, <1>5, <1>7, <1>9, PaidTold DEF db

LEMMA PaidCharge == ASSUME BaseInv, PaidInv, Charge PROVE PaidInv'
<1>1. /\ UNCHANGED <<db, open, req, past>> /\ DocsType /\ DocsType'
      /\ \E s \in DOMAIN sub : \E what \in Subscription :
           /\ what.items = sub[s].items /\ sub[s].status # "canceled"
           /\ what.status # "canceled" /\ Told1(s, what)
  BY ChargeMoves DEF BaseInv, TypeInv
<1>2. PICK s \in DOMAIN sub, what \in Subscription :
        /\ what.items = sub[s].items /\ sub[s].status # "canceled"
        /\ what.status # "canceled" /\ Told1(s, what)
  BY <1>1
<1>3. /\ sub'[s] = what /\ (\A x \in DOMAIN sub : x # s => sub'[x] = sub[x])
      /\ Len(event') = Len(event) + 1 /\ event'[Len(event) + 1] = Event(s, what)
      /\ \A x \in DOMAIN sub : sub'[x].items = sub[x].items
  BY <1>2 DEF Told1
<1>4. DOMAIN sub' = DOMAIN sub
  BY <1>1, <1>2 DEF Told1, DocsType
<1>5. Listed' = Listed
  BY <1>1, <1>2, ToldListed
<1>6. Sole => Sole'
  BY <1>3, <1>5 DEF Sole, Listed
<1>7. ASSUME NEW t, Active(t)' PROVE Active(t) \/ Pending(t)'
  <2>1. PICK x \in DOMAIN sub' : sub'[x].status = "active" /\ ItemsFor(x, t)' # {}
    BY <1>7 DEF Active
  <2>2. CASE x # s
    BY <1>3, <1>4, <2>1, <2>2 DEF Active, ItemsFor
  <2>3. CASE x = s
    <3>1. PICK i \in what.items : ProductOf[i] = t
      BY <1>3, <2>1, <2>3 DEF ItemsFor
    <3>2. what.status = "active"
      BY <1>3, <2>1, <2>3
    <3>3. \A q \in Request : req'[q].event \in {0, req[q].event}
      BY <1>1
    <3> QED BY <1>1, <1>3, <3>1, <3>2, <3>3, TellsPending
  <2> QED BY <2>2, <2>3
<1>8. \A e \in DOMAIN event :
        e \in DOMAIN event' /\ event'[e] = event[e] /\ (Busy(e)' => Busy(e))
  BY <1>1, <1>2, ToldKeeps DEF Busy
<1>9. \A t : Pending(t) => Pending(t)'
  BY <1>8, PendingStays
<1> QED BY <1>1, <1>6, <1>7, <1>9, PaidTold DEF db

LEMMA PaidHandle ==
  ASSUME BaseInv, OneInv, SureInv, SureInv', PaidInv, BillingAssumption,
         NEW p \in Request, Handle(p)
  PROVE  PaidInv'
<1>1. CASE ReadAccount(p) \/ FindSubscription(p) \/ ReadProduct(p)
  <2>1. PICK r \in ReqDoc :
          /\ Step(p, r) /\ Keeps /\ req[p].pc \in {"account", "subscription", "product"}
          /\ past \subseteq past' /\ r.event = 0 /\ r.pc # "clear" /\ (r.pc = "delete" => manual)
    BY <1>1, ReadAccountMoves, FindSubscriptionMoves, ReadProductMoves
  <2>2. (Calm' => Alone(p)) /\ UNCHANGED <<manual, account, sub, event>>
    BY <2>1, Runs DEF Keeps
  <2> QED BY <2>1, <2>2, ReadySame, PaidReads
<1>2. CASE SaveTrial(p)
  <2>1. PICK r \in ReqDoc :
          /\ Step(p, r) /\ DocsType' /\ UNCHANGED <<manual, stripe>> /\ req[p].pc = "trial"
          /\ past' = past /\ r.pc = "flag" /\ r.event = 0
          /\ req[p].acc \in DOMAIN account /\ SavedAt(req[p].acc, req[p].was, TRUE, TRUE)
    BY <1>2, SaveTrialMoves
  <2>2. /\ (Calm' => Alone(p)) /\ UNCHANGED <<sub, event>> /\ past \subseteq past' /\ DocsType
    BY <2>1, Runs DEF stripe, BaseInv, TypeInv
  <2>3. \A t \in Product : Own(t)' = Own(t) /\ (Ready(t) => Ready(t)')
    BY <2>1, <2>2, SavedReady
  <2> QED BY <2>1, <2>2, <2>3, PaidReads
<1>3. CASE SaveFlag(p) \/ Checkout(p)
  <2>1. /\ Step(p, Idle) /\ UNCHANGED <<manual, account, sub, event>> /\ past \subseteq past'
        /\ req[p].pc \in {"flag", "checkout"} /\ Idle \in ReqDoc /\ Idle.event = 0
        /\ Idle.pc = "idle"
    BY <1>3, CheckoutMoves, IdleDoc DEF SaveFlag, End, stripe, db
  <2>2. Calm' => Alone(p)
    BY <2>1, Runs
  <2> QED BY <2>1, <2>2, ReadySame, PaidReads
<1>4. CASE Repair(p)
  <2>1. /\ Step(p, Idle) /\ DocsType' /\ UNCHANGED <<manual, sub, event, past>>
        /\ req[p].pc = "repair" /\ req[p].acc \in DOMAIN account
        /\ account' = account \/ SavedAt(req[p].acc, account[req[p].acc], TRUE, FALSE)
        /\ Idle \in ReqDoc /\ Idle.event = 0 /\ Idle.pc = "idle"
    BY <1>4, RepairMoves, IdleDoc DEF End, stripe
  <2>2. (Calm' => Alone(p)) /\ DocsType
    BY <2>1, Runs DEF BaseInv, TypeInv
  <2>3. \A t \in Product : Own(t)' = Own(t) /\ (Ready(t) => Ready(t)')
    BY <2>1, <2>2, ReadySame, SavedReady
  <2> QED BY <2>1, <2>2, <2>3, PaidReads
<1>5. CASE AddItem(p) \/ CancelItem(p)
  BY <1>5, PaidAddItem, PaidCancelItem
<1>6. CASE ClearOrg(p) \/ DeleteAccount(p) \/ InsertAccount(p)
  BY <1>6, PaidClearOrg, PaidDeleteAccount, PaidInsertAccount
<1>7. CASE FindItem(p) \/ SaveItem(p) \/ EndHook(p)
  BY <1>7, PaidFindItem, PaidSaveItem, PaidEndHook
<1> QED BY <1>1, <1>2, <1>3, <1>4, <1>5, <1>6, <1>7 DEF Handle

LEMMA PaidNext == BaseInv /\ OneInv /\ SureInv /\ SureInv' /\ PaidInv /\ [Next]_vars => PaidInv'
<1> SUFFICES ASSUME BaseInv, OneInv, SureInv, SureInv', PaidInv, [Next]_vars PROVE PaidInv'
  OBVIOUS
<1>1. ASSUME NEW p \in Request, Asks(p) \/ BeginView(p) PROVE PaidInv'
  <2>1. PICK r \in ReqDoc :
          /\ Step(p, r) /\ Keeps /\ past \subseteq past' /\ req[p].pc = "idle" /\ (Calm' => Alone(p))
          /\ r.event = 0 /\ r.pc \in {"account", "product"}
    BY <1>1, BillingAssumption, AskMoves, ViewMoves DEF Begins
  <2>2. UNCHANGED <<manual, account, sub, event>>
    BY <2>1 DEF Keeps
  <2> QED BY <2>1, <2>2, ReadySame, PaidReads
<1>2. ASSUME NEW p \in Request, BeginHook(p) PROVE PaidInv'
  BY <1>2, BillingAssumption, PaidBeginHook
<1>3. ASSUME NEW p \in Request, Fail(p) PROVE PaidInv'
  BY <1>3 DEF Fail, PaidInv, Plain, Never
<1>4. CASE Pay \/ Charge
  BY <1>4, PaidPay, PaidCharge
<1>5. CASE UNCHANGED vars
  <2>1. UNCHANGED <<manual, account, req, past, sub, event>>
    BY <1>5 DEF vars
  <2>2. \A t : (Active(t)' <=> Active(t)) /\ (Pending(t)' <=> Pending(t))
    BY <2>1 DEF Active, ItemsFor, Pending, Busy
  <2> QED BY <2>1, <2>2, SoleSame, PaidTold
<1>6. ASSUME NEW p \in Request, Handle(p) PROVE PaidInv'
  BY <1>6, BillingAssumption, PaidHandle
<1> QED BY <1>1, <1>2, <1>3, <1>4, <1>5, <1>6 DEF Next, Asks

THEOREM PaidCorrect == Spec => []PaidInv
<1>1. Init => PaidInv
  <2> SUFFICES ASSUME Init PROVE Sole /\ HasOwn /\ WillBeReady /\ \A p \in Request : Spared(req[p])
    BY DEF PaidInv
  <2>1. DOMAIN sub = {} /\ \A p \in Request : req[p].pc = "idle"
    BY InitDocs, IdleDoc
  <2>2. Sole /\ WillBeReady /\ \A p \in Request : Spared(req[p])
    BY <2>1 DEF Sole, Listed, WillBeReady, Active, Spared
  <2> QED BY <2>2, InitOwn DEF HasOwn
<1> QED BY <1>1, PaidNext, BaseCorrect, OneCorrect, SureCorrect, PTL DEF Spec

\* When nothing runs and every event is answered, the owner's account of every product
\* of an active subscription is enabled.
THEOREM PaidMeansEnabled == Spec => []PaidIsEnabled
<1>1. BaseInv /\ PaidInv /\ BillingAssumption => PaidIsEnabled
  <2> SUFFICES ASSUME BaseInv, BillingAssumption, PaidInv, Quiet, Plain, NEW s \in DOMAIN sub,
                      sub[s].status = "active", NEW i \in sub[s].items
               PROVE  Ready(ProductOf[i])
    BY DEF PaidIsEnabled, Plain, Ready
  <2>1. i \in Plan
    <3>1. sub[s] \in Subscription
      BY DEF BaseInv, TypeInv, DocsType
    <3> QED BY <3>1 DEF Subscription
  <2>2. ProductOf[i] \in Product
    BY <2>1 DEF BillingAssumption, Product
  <2>3. Active(ProductOf[i])
    BY DEF Active, ItemsFor
  <2>4. (\A p \in Request : req[p].pc = "idle") /\ \A e \in DOMAIN event : event[e].done
    BY DEF Quiet
  <2>5. \A t : ~Makes(t) /\ ~Pending(t)
    BY <2>4 DEF Makes, Pending
  <2>6. \A t : ~Does(t)
    <3>1. ASSUME NEW p \in Request PROVE req[p].todo = {}
      BY <2>4, Runs DEF Sound
    <3> QED BY <3>1 DEF Does
  <2> QED BY <2>2, <2>3, <2>5, <2>6 DEF PaidInv, WillBeReady
<1> QED BY <1>1, BillingAssumption, BaseCorrect, PaidCorrect, PTL
=============================================================================
