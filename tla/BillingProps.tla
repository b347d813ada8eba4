----------------------------- MODULE BillingProps -----------------------------
(***************************************************************************)
(* What the accounts, the organisation and Stripe have to agree on.        *)
(***************************************************************************)
EXTENDS Billing

AccountDoc == [type : {"TAG", "USER", "SYSTEM"}, enabled : BOOLEAN, trial : BOOLEAN,
               deleted : BOOLEAN]
Subscription == [items : SUBSET Plan, status : {"active", "past_due", "canceled"}]
Told == [sub : DOMAIN sub, items : SUBSET Plan, status : {"active", "past_due"}, done : BOOLEAN]
Todo == [product : Product, acc : 0 .. Len(account), was : AccountDoc \cup {None}]

\* The shape of the documents, of what Stripe keeps and of what the handlers
\* remember: every account and subscription that is referred to exists.
TypeOK ==
  /\ manual \in BOOLEAN /\ orgSub \in 0 .. Len(sub) /\ mayTrial \subseteq Product
  /\ account \in Seq(AccountDoc) /\ sub \in Seq(Subscription)
  /\ event \in Seq(Told) /\ open \in Seq(Plan)
  /\ \A p \in Request :
       /\ {req[p].org, req[p].sub} \subseteq 0 .. Len(sub)
       /\ req[p].acc \in 0 .. Len(account) /\ req[p].event \in 0 .. Len(event)
       /\ req[p].current \subseteq Plan /\ req[p].todo \subseteq Todo

\* Nothing runs, and Stripe has told everything.
Quiet == (\A p \in Request : req[p].pc = "idle") /\ \A e \in DOMAIN event : event[e].done
Never(hazards) == past \cap hazards = {}

\* The account of the owner for a product, and whether it is paid for.
Own(product) == Live(IF product = "TAG" THEN {"TAG"} ELSE {"USER"})
Paid(product) == \E s \in Listed : ItemsFor(s, product) # {}

\* Who pays for a product can use it: when the last event is answered, the owner's
\* account of every product of an active subscription is enabled, also when accounts
\* were replaced meanwhile.
PaidIsEnabled ==
  Quiet /\ Never({"failed", "overlap", "twice"}) =>
    \A s \in DOMAIN sub : sub[s].status = "active" =>
      \A i \in sub[s].items : \E a \in Own(ProductOf[i]) : account[a].enabled

\* Who uses a product pays for it, tries it, or is invoiced: neither an account that
\* replaces another nor an event nor the page of an account enables it otherwise.  (With
\* several subscriptions the one that is canceled may be another than the one that was
\* asked for its products.)
EnabledIsPaid ==
  Quiet /\ Never({"failed", "overlap", "late", "mistaken", "unsure"}) /\ ~manual =>
    \A t \in Product : \A a \in Own(t) : account[a].enabled => account[a].trial \/ Paid(t)

\* An organisation has one subscription, which its products join: accountSubscribe finds
\* it at Stripe while the organisation does not know of it yet.
OneSubscription == Never({"overlap", "twice"}) => Cardinality(Listed) <= 1

\* The organisation knows its subscription, and forgets it with the last product.  With
\* an identifier of a canceled one it can neither subscribe nor unsubscribe.
OrgKnowsSubscription ==
  Quiet /\ Never({"failed", "overlap", "late", "twice"}) =>
    IF Listed = {} THEN orgSub = 0 ELSE orgSub \in Listed

\* The right to try a product does not outlive its use, whatever overlaps or fails: no
\* trial starts whose request began after another trial of the product was granted or
\* after an event was answered that it is paid for.  A trial may well start while another
\* is being granted or after one that failed before its second save (startTagManagerTrial
\* saves the account first), and between a payment and the answer to its event.
TrialOnce == [][\A p \in Request : SaveTrial(p) => ~req[p].over]_vars

\* "If this org is subscribed to any of the Scale8 services": what is_paid answers.
IsPaid == Found([Idle EXCEPT !.org = orgSub]) # {0}
PaidIsSubscribed == Quiet => (IsPaid <=> Listed # {})
=============================================================================
