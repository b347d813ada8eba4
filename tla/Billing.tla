-------------------------------- MODULE Billing --------------------------------
(***************************************************************************)
(* Trials, subscriptions and accounts of one organisation of the           *)
(* commercial edition: requests of its owner (OrgManager), the             *)
(* subscriptions at Stripe, and the webhook that tells of them             *)
(* (StripeService).                                                        *)
(*                                                                         *)
(* An organisation has an account for tags, and two for data: the user's   *)
(* and one that the system keeps for itself.  A query without an order     *)
(* answers in the order of insertion.                                      *)
(*                                                                         *)
(* Stripe is external: it keeps what it is asked to, charges at times      *)
(* without success, and sends an event for every change, later, in any     *)
(* order, and again after a failure.  Of a webhook's call the read of the  *)
(* organisation and its save are one step, as are a retrieve and the       *)
(* update based on it, and the saves of an account and of the owner.       *)
(***************************************************************************)
EXTENDS Integers, FiniteSets, Sequences, SequencesExt

CONSTANTS
  Request,     \* handlers of the API that may run at once
  Plan,        \* the products on sale
  ProductOf,   \* the account type of each: "TAG" or "DATA"
  MaxRequests, \* bound: requests of the owner
  MaxTroubles, \* bound: charges, requests and webhook calls that fail
  None         \* undefined

ASSUME BillingAssumption ==
  /\ ProductOf \in [Plan -> {"TAG", "DATA"}]
  /\ MaxRequests \in Nat /\ MaxTroubles \in Nat
ASSUME NoneAssumption == None \notin {"trial", "subscribe", "unsubscribe", "view", "hook"}

VARIABLES
  manual,   \* org.manualInvoicing
  orgSub,   \* org.stripeSubscriptionId
  account,  \* the accounts in the order of insertion, the deleted ones too
  mayTrial, \* canCreateTagManagerTrial, canCreateDataManagerTrial of the owner
  sub,      \* Stripe: the subscriptions of the customer, the newest last
  open,     \* Stripe: the plans of the checkouts that are not paid
  event,    \* Stripe: the events, and whether they were answered with ok
  req,      \* the handlers that run
  count,    \* requests and troubles so far
  past      \* history: what may lead to a disagreement, and the products whose trial was granted

vars == <<manual, orgSub, account, mayTrial, sub, open, event, req, count, past>>
stripe == <<sub, open, event>>
db == <<manual, orgSub, account, mayTrial>>

Product == {"TAG", "DATA"}
Idle == [pc |-> "idle", op |-> None, product |-> None, plan |-> None, org |-> 0, may |-> FALSE,
         acc |-> 0, was |-> None, sub |-> 0, current |-> {}, event |-> 0, todo |-> {},
         over |-> FALSE]

NewAccount(type, enabled) == [type |-> type, enabled |-> enabled, trial |-> FALSE, deleted |-> FALSE]

\* createOrg, without a trial.
Init ==
  /\ manual \in BOOLEAN
  /\ account = <<NewAccount("TAG", manual), NewAccount("USER", manual), NewAccount("SYSTEM", TRUE)>>
  /\ orgSub = 0 /\ mayTrial = Product
  /\ sub = <<>> /\ open = <<>> /\ event = <<>>
  /\ req = [p \in Request |-> Idle]
  /\ count = [requests |-> 0, troubles |-> 0]
  /\ past = {}

-----------------------------------------------------------------------------
Types(product) == IF product = "TAG" THEN {"TAG"} ELSE {"USER", "SYSTEM"}
FirstOf(S) == IF S = {} THEN 0 ELSE CHOOSE i \in S : \A j \in S : i <= j
Live(types) == {i \in DOMAIN account : account[i].type \in types /\ ~account[i].deleted}

\* getFromOrg.
AccountFor(product) == FirstOf(Live(Types(product)))
\* The webhook looks for the user's.
\* (Mutant: as getFromOrg.)
HookAccount_First(product) == FirstOf(Live(Types(product)))
HookAccount(product) == FirstOf(Live(IF product = "TAG" THEN {"TAG"} ELSE {"USER"}))

\* The customer's subscriptions: canceled ones are not listed.
Listed == {s \in DOMAIN sub : sub[s].status # "canceled"}
\* getStripeSubscriptionId, by the organisation as it was read; 0: undefined.
\* (Mutant: the customer is not asked.)
Found_Stored(r) == {r.org}
Found(r) == IF r.org # 0 THEN {r.org} ELSE IF Listed = {} THEN {0} ELSE Listed
\* History: several are listed, and which one comes first is up to Stripe.
Unsure(r) == IF \E s, t \in Found(r) : s # t THEN {"unsure"} ELSE {}
ItemsFor(s, product) == {i \in sub[s].items : ProductOf[i] = product}

\* What Stripe does at a request, and what it tells of it.
Event(s, what) == [sub |-> s, items |-> what.items, status |-> what.status, done |-> FALSE]
Becomes(s, what) == sub' = [sub EXCEPT ![s] = what] /\ event' = Append(event, Event(s, what))

Step(p, r) == req' = [req EXCEPT ![p] = r]
End(p) == Step(p, Idle)
Goto(p, pc) == Step(p, [req[p] EXCEPT !.pc = pc])
\* deleteAccount needs no more than the account and its type.
Deletes(p) == Step(p, [Idle EXCEPT !.pc = "delete", !.product = req[p].product, !.acc = req[p].acc])

\* History: a handler begins while another runs.
Overlap == IF \A q \in Request : req[q].pc = "idle" THEN {} ELSE {"overlap"}

-----------------------------------------------------------------------------
(* Requests of the owner: fetchOrg, asUserWithOrgOwnership, getFromOrg.    *)

\* History: a trial of the product was granted, or an event answered that it is paid for.
Over(product) ==
  \/ product \in past
  \/ \E e \in DOMAIN event : /\ event[e].done /\ event[e].status = "active"
                             /\ \E i \in event[e].items : ProductOf[i] = product

Begin(p, r) ==
  /\ req[p].pc = "idle" /\ count.requests < MaxRequests
  /\ count' = [count EXCEPT !.requests = @ + 1]
  /\ Step(p, [r EXCEPT !.pc = "account", !.org = orgSub, !.may = r.product \in mayTrial,
                       !.over = r.op = "trial" /\ Over(r.product)])
  /\ past' = past \cup Overlap
  /\ UNCHANGED <<db, stripe>>

BeginTrial(p) == \E t \in Product : Begin(p, [Idle EXCEPT !.op = "trial", !.product = t])
BeginSubscribe(p) ==
  \E i \in Plan : Begin(p, [Idle EXCEPT !.op = "subscribe", !.product = ProductOf[i], !.plan = i])
BeginUnsubscribe(p) ==
  \E t \in Product : Begin(p, [Idle EXCEPT !.op = "unsubscribe", !.product = t])

\* The stripe_product_id of an account, by its id: the page of the account asks for it.
BeginView(p) ==
  \E t \in Product : \E a \in Live(Types(t)) :
    /\ req[p].pc = "idle" /\ count.requests < MaxRequests
    /\ count' = [count EXCEPT !.requests = @ + 1]
    /\ Step(p, [Idle EXCEPT !.op = "view", !.product = t, !.acc = a, !.pc = "product", !.org = orgSub])
    /\ past' = past \cup Overlap \cup (IF account[a].type = "SYSTEM" THEN {"mistaken"} ELSE {})
    /\ UNCHANGED <<db, stripe>>

ReadAccount(p) ==
  LET r == req[p]  a == AccountFor(r.product)
  IN  /\ r.pc = "account"
      /\ \/ (a = 0 \/ (r.op = "trial" /\ ~r.may)) /\ End(p)
         \/ /\ a # 0 /\ (r.op = "trial" => r.may)
            /\ Step(p, CASE r.op = "trial" ->
                              [Idle EXCEPT !.pc = "trial", !.product = r.product, !.acc = a,
                                           !.was = account[a], !.over = r.over]
                         [] r.op = "unsubscribe" /\ manual ->
                              [Idle EXCEPT !.pc = "delete", !.product = r.product, !.acc = a]
                         [] OTHER ->
                              [r EXCEPT !.pc = "subscription", !.acc = a, !.may = FALSE])
      /\ past' = past \cup (IF a # 0 /\ account[a].type = "SYSTEM" THEN {"mistaken"} ELSE {})
      /\ UNCHANGED <<db, stripe, count>>

\* startTagManagerTrial, startDataManagerTrial.  A save sets what differs from what was read.
Saved(a, was, enabled, trial) ==
  [account EXCEPT ![a].enabled = IF was.enabled # enabled THEN enabled ELSE @,
                  ![a].trial = IF was.trial # trial THEN trial ELSE @]
SaveTrial(p) ==
  /\ req[p].pc = "trial"
  /\ account' = Saved(req[p].acc, req[p].was, TRUE, TRUE)
  /\ Goto(p, "flag")
  /\ UNCHANGED <<manual, orgSub, mayTrial, stripe, count, past>>
\* (Mutant: the flag is forgotten.)
Spent_Not(product) == mayTrial
Spent(product) == mayTrial \ {product}
SaveFlag(p) ==
  /\ req[p].pc = "flag"
  /\ mayTrial' = Spent(req[p].product)
  /\ End(p)
  /\ past' = past \cup {req[p].product}
  /\ UNCHANGED <<manual, orgSub, account, stripe, count>>

\* getStripeSubscription (with its status, for unsubscribe).
FindSubscription(p) ==
  LET r == req[p]
  IN  /\ r.pc = "subscription"
      /\ \E s \in Found(r) :
           IF s = 0 THEN IF r.op = "subscribe" THEN Goto(p, "checkout") ELSE End(p)
           ELSE IF r.op = "unsubscribe" /\ sub[s].status # "active" THEN End(p)
           ELSE Step(p, [r EXCEPT !.sub = s, !.pc = "product"])
      /\ past' = past \cup (IF r.op = "subscribe" /\ open # <<>> THEN {"twice"} ELSE {})
      /\ UNCHANGED <<db, stripe, count>>

After(op) ==
  CASE op = "subscribe" -> "add" [] op = "unsubscribe" -> "cancel" [] op = "view" -> "repair"

\* getStripeProductId: an item of the subscription, of the account's type.
ReadProduct(p) ==
  LET r == req[p]
  IN  /\ r.pc = "product"
      /\ \E s \in Found(r) :
           LET items == IF s = 0 THEN {} ELSE ItemsFor(s, r.product)
           IN  \/ items = {} /\ r.op # "subscribe" /\ End(p)
               \/ items = {} /\ r.op = "subscribe" /\ Goto(p, "add")
               \/ \E i \in items :
                    IF r.op = "subscribe" /\ i = r.plan THEN End(p)
                    ELSE Step(p, [r EXCEPT !.current = {i}, !.pc = After(r.op)])
      /\ past' = past \cup Unsure(r)
      /\ UNCHANGED <<db, stripe, count>>

\* A product makes the resolver enable the account, unless it is deleted by now.
Repair(p) ==
  LET a == req[p].acc
  IN  /\ req[p].pc = "repair" /\ End(p)
      /\ account' = IF account[a].deleted THEN account
                    ELSE Saved(a, account[a], TRUE, FALSE)
      /\ UNCHANGED <<manual, orgSub, mayTrial, stripe, count, past>>

\* createCheckoutSession.
Checkout(p) ==
  /\ req[p].pc = "checkout"
  /\ open' = Append(open, req[p].plan)
  /\ End(p)
  /\ UNCHANGED <<db, sub, event, count, past>>

\* createProductLineItemOnSubscription, updateProductLineItemOnSubscription.  Stripe refuses
\* a canceled subscription, and a product it has; the update throws without the old item.
AddItem(p) ==
  LET r == req[p]  s == r.sub
      fits == /\ sub[s].status # "canceled" /\ r.plan \notin sub[s].items
              /\ r.current \subseteq sub[s].items
  IN  /\ r.pc = "add" /\ End(p)
      /\ \/ ~fits /\ UNCHANGED <<sub, event>>
         \/ fits /\ Becomes(s, [sub[s] EXCEPT !.items = (@ \ r.current) \cup {r.plan}])
      /\ UNCHANGED <<db, open, count, past>>

\* cancelProductLineItemOnSubscription: the item, or the whole subscription for the last one.
CancelItem(p) ==
  LET r == req[p]
  IN  /\ r.pc = "cancel"
      /\ \E s \in Found(r) :
           \/ s = 0 /\ Deletes(p) /\ UNCHANGED <<sub, event>>
           \/ /\ s # 0 /\ Cardinality(sub[s].items) > 1
              /\ \/ /\ r.current \subseteq sub[s].items /\ sub[s].status # "canceled"
                    /\ Deletes(p) /\ Becomes(s, [sub[s] EXCEPT !.items = @ \ r.current])
                 \/ /\ ~(r.current \subseteq sub[s].items /\ sub[s].status # "canceled")
                    /\ End(p) /\ UNCHANGED <<sub, event>>
           \/ /\ s # 0 /\ Cardinality(sub[s].items) <= 1
              /\ IF sub[s].status = "canceled" THEN End(p) ELSE Goto(p, "clear")
              /\ sub' = [sub EXCEPT ![s].status = "canceled"]
              /\ UNCHANGED event \* of another type, which is not handled
      /\ past' = past \cup Unsure(r)
      /\ UNCHANGED <<db, open, count>>

\* removeOrgSubscriptionData: saves a difference to what was read.
\* (Mutant: not called.)
Cleared_Not(r) == orgSub
Cleared(r) == IF r.org # 0 THEN 0 ELSE orgSub
ClearOrg(p) ==
  /\ req[p].pc = "clear"
  /\ orgSub' = Cleared(req[p])
  /\ Deletes(p)
  /\ UNCHANGED <<manual, account, mayTrial, stripe, count, past>>

\* deleteAccount: the account makes room for a new, inactive one.
DeleteAccount(p) ==
  /\ req[p].pc = "delete"
  /\ account' = [account EXCEPT ![req[p].acc].deleted = TRUE]
  /\ Goto(p, "insert")
  /\ UNCHANGED <<manual, orgSub, mayTrial, stripe, count, past>>
\* (Mutant: it is active.)
Fresh_Enabled(product) == NewAccount(IF product = "TAG" THEN "TAG" ELSE "USER", TRUE)
Fresh(product) == NewAccount(IF product = "TAG" THEN "TAG" ELSE "USER", manual)
InsertAccount(p) ==
  /\ req[p].pc = "insert"
  /\ account' = Append(account, Fresh(req[p].product))
  /\ End(p)
  /\ UNCHANGED <<manual, orgSub, mayTrial, stripe, count, past>>

-----------------------------------------------------------------------------
(* handleWebhookEvent                                                      *)

\* An event that tells of a subscription as it was.
Late(e) == \/ sub[event[e].sub].status # event[e].status
           \/ sub[event[e].sub].items # event[e].items
Busy(e) == \E q \in Request : req[q].event = e

BeginHook(p) ==
  \E e \in DOMAIN event :
    LET types == {ProductOf[i] : i \in event[e].items}
    IN  /\ req[p].pc = "idle" /\ ~event[e].done /\ ~Busy(e)
        /\ orgSub' = event[e].sub
        /\ Step(p, [Idle EXCEPT !.op = "hook", !.event = e, !.pc = "item",
             !.todo = IF event[e].status = "active"
                      THEN {[product |-> t, acc |-> 0, was |-> None] : t \in types} ELSE {}])
        /\ past' = past \cup Overlap \cup (IF Late(e) THEN {"late"} ELSE {})
        /\ UNCHANGED <<manual, account, mayTrial, stripe, count>>

\* processSubscriptionItems finds the account of each item; without one the call is
\* answered with an error, while the other items are processed ...
FindItem(p) ==
  /\ req[p].pc = "item"
  /\ \E t \in req[p].todo :
       LET a == HookAccount(t.product)
       IN  /\ t.acc = 0
           /\ Step(p, IF a = 0 THEN [req[p] EXCEPT !.todo = @ \ {t}, !.event = 0]
                      ELSE [req[p] EXCEPT
                        !.todo = (@ \ {t}) \cup {[t EXCEPT !.acc = a, !.was = account[a]]}])
  /\ UNCHANGED <<db, stripe, count, past>>

\* ... enables it, ends its trial, and takes the owner's right to one.
SaveItem(p) ==
  /\ req[p].pc = "item"
  /\ \E t \in req[p].todo :
       /\ t.acc # 0
       /\ account' = Saved(t.acc, t.was, TRUE, FALSE)
       /\ mayTrial' = mayTrial \ {t.product}
       /\ Step(p, [req[p] EXCEPT !.todo = @ \ {t}])
  /\ UNCHANGED <<manual, orgSub, stripe, count, past>>

EndHook(p) ==
  /\ req[p].pc = "item" /\ req[p].todo = {}
  /\ event' = [e \in DOMAIN event |->
                [event[e] EXCEPT !.done = @ \/ e = req[p].event]]
  /\ End(p)
  /\ UNCHANGED <<db, sub, open, count, past>>

-----------------------------------------------------------------------------
\* The owner pays at a checkout, however old.
Pay ==
  \E o \in DOMAIN open :
    LET new == [items |-> {open[o]}, status |-> "active"]
    IN  /\ open' = RemoveAt(open, o)
        /\ sub' = Append(sub, new)
        /\ event' = Append(event, Event(Len(sub) + 1, new))
        /\ UNCHANGED <<db, req, count, past>>

\* A charge fails, or succeeds at last.
Charge ==
  \E s \in DOMAIN sub, status \in {"active", "past_due"} :
    /\ sub[s].status \notin {"canceled", status}
    /\ count.troubles < MaxTroubles
    /\ count' = [count EXCEPT !.troubles = @ + 1]
    /\ Becomes(s, [sub[s] EXCEPT !.status = status])
    /\ UNCHANGED <<db, open, req, past>>

\* An await rejects: the request ends where it is.
Fail(p) ==
  /\ req[p].pc # "idle" /\ count.troubles < MaxTroubles
  /\ count' = [count EXCEPT !.troubles = @ + 1]
  /\ past' = past \cup {"failed"}
  /\ End(p)
  /\ UNCHANGED <<db, stripe>>

Handle(p) ==
  \/ ReadAccount(p) \/ SaveTrial(p) \/ SaveFlag(p)
  \/ FindSubscription(p) \/ ReadProduct(p) \/ Repair(p) \/ Checkout(p) \/ AddItem(p)
  \/ CancelItem(p) \/ ClearOrg(p) \/ DeleteAccount(p) \/ InsertAccount(p)
  \/ FindItem(p) \/ SaveItem(p) \/ EndHook(p)

Next ==
  \/ \E p \in Request :
       \/ BeginTrial(p) \/ BeginSubscribe(p) \/ BeginUnsubscribe(p) \/ BeginView(p)
       \/ BeginHook(p)
       \/ Handle(p) \/ Fail(p)
  \/ Pay \/ Charge

Spec == Init /\ [][Next]_vars
=============================================================================
