# Scale8 Tag Manager: a TLA+ model

This directory is the verification project of the Scale8 tag manager: TLA+
modules translated from the source, the TLC configurations that check them on
small instances, and TLAPS proofs of the most important properties for every
instance. Paths are relative to the repository.

## 1. The system

Scale8 is a tag manager with a data collection service. Editors describe tags,
rules, triggers and ingest schemas in a web application (**ui**), which talks
GraphQL to the **api**, which keeps everything in MongoDB under revision control
and publishes *environments* (a revision made live) as JSON files in a storage
bucket. The **edge** servers read those files: they serve the tag configuration
to browsers and collect events. In the browser, the Scale8 *platform runtime*
executes the rules of the configuration.

```
 ui --GraphQL--> api --MongoDB (models, revisions, environments)
                  |
                  +--> bucket: <domain>.json, ingest-domain/<domain>.json
                                   |   (read through a cache of 60 s)
                                 edge  --config.js--> browser: TagManager, RuleExecutor
                                   ^------- events --------'
                                   |
                                 Ingestor --> MongoDB / BigQuery / S3 of the environment
```

| component | where | state | operations | what is hard |
|---|---|---|---|---|
| Ingest buffer | `edge/.../ingest` | revision -> window -> queue, two maps of settings | `add` (request threads), `push` (scheduled job) | no lock: check-then-act on concurrent maps, timeouts, restarts |
| Storage providers | `edge/.../ingest/storage` | the batch polled | `push` per provider, in a pool of threads | the batch is lost when a write fails |
| Edge configuration | `edge/.../AppEntity`, `IngestEntity`, `RootController` | caches of 60 s | serve config, validate payloads | stale configuration |
| Browser runtime | `platforms/providers/Scale8/src/core` | rule winners, event states with timers, registered platforms | events, rule checks, action groups | reset timers against new events, promises, action timeouts |
| Shares of action groups | `ui/.../ActionGroupDistributionSection`, `api/.../ActionGroupManager` | the shares in the database, what each page has of them | balance, set, lock, create, delete, save | pages save by themselves, from what they loaded |
| Revision control | `api/src/managers`, `api/src/mongo` | revisions (final or not), links, children | create, update, finalise, duplicate, link | check-then-act across requests, partial failure |
| Environments | `api/src/managers/tag/EnvironmentManager`, `data/IngestEndpointEnvironmentManager`, `utils/EnvironmentUtils` | environment -> revision, published files | create, update, delete, install certificate | database and bucket written in two steps |
| Accounts, organisations | `api/src/managers/UserManager`, `OrgManager`, `InviteManager` | users, organisations, roles, invites, tokens, sessions | sign up, invite, accept, change roles, transfer, delete | roles and owners by check-then-act, several collections |
| Billing and usage | `api/src/payments`, `OrgManager`, `UpdateUsage` | accounts, trials, subscription of an organisation, usage counters | try, subscribe, change, cancel, webhook | two systems of record, events late or repeated |
| UI, common, router | `ui`, `common`, `router` | forms | | generated code, presentation, nginx configuration |


Properties that make each component correct, and the behaviours that put them
at risk (every risk is listed with its line under `hazards` in `PROJECT.json`):

- **Ingest buffer and providers.** An accepted event is delivered at most once,
  by an environment of the revision it was validated against; it is not
  forgotten without an error, but for a restart and three races that are named;
  the job stops only where a timeout discards waiting jobs.
  At risk: request threads, the scan, the workers and a restart interleave
  without a lock; two of the maps are plain `HashMap`s.
- **Browser rule engine.** Every group is served by a shared event, whichever
  group uses it up first; an occurrence counts once; no rule that could apply is left unchecked; event
  states are cleared by their own timer. At risk: one event has as many
  listeners as rules registered it, and timers outlive the state they belong to.
- **In-view events.** The test of an element passes only after the configured
  time in view, or because of a timer that outlived its state; and does pass then. At risk: batches of observer entries, timers and clearing in
  any order.
- **Revision control.** A final revision is frozen, but for the links that
  deletes take out of it unchecked; revisions share no entity;
  links resolve; a duplicate equals its original. At risk: each handler is a
  chain of awaits on a database without locks, with transactions only in some
  deployments.
- **Environments and deployment.** Only final revisions are published, with what
  they contained when they became final (and what came late); bucket
  and database agree; a custom domain has one owner; a deletion is not undone.
  At risk: check-then-act, and two stores written one after the other.
- **Action groups.** The shares of a distribution make up the whole once the
  pages are at rest, every group is picked as often as its share says, a rule
  that does not repeat is executed once, and the chain of actions of a group
  goes on only after success and comes to an end. At risk: pages that save what
  they loaded some time ago, ranges counted from 0 or from 1, answers after a
  timeout.
- **Accounts and organisations.** An organisation always has an owner who exists
  and administers it; its roles lead to users who exist; a user has one role in
  it; it changes hands only when its owner says so. At risk: every handler is a
  chain of reads and writes in several collections, without transactions.
- **Billing.** Who pays can use the product and who uses it pays, tries it or is
  invoiced; one subscription for each organisation, and the organisation knows
  it; one trial for each product. At risk: Stripe and the database are written
  one after the other, and its events arrive late, again, or in another order.

## 2. Plan

Modules in the order of importance of what they model. All are done except
row 7; the last column says what is proved.

| # | modules | component | abstract specification / theorems |
|---|---|---|---|
| 1 | `Ingestor`, `IngestorProps`, `IngestorCalm`, `Delivery`, `IngestorProofs` | ingest buffer, providers | refines `Delivery` (proved); `TypeOK`, `OnePlace`, `RoutedWithinRevision`, `NoneForgotten` (proved) |
| 2 | `TagRules`, `TagRulesProps`, `TagRulesProofs`; `InView`, `InViewProofs` | rule engine, in-view events | `HeldLongEnough` (proved); `NothingMissed`, `OwnHeldUntilCleared`, `AppliedPerOccurrence` (proved); `EveryGroupServed` (model-checked) |
| 3 | `Revisions`, `RevisionsProps`, `RevisionsProofs` | revision control | `OwnLinks`, `LateOnlyUnlinks`, `LinksResolve`, `NothingLost`, `DuplicateIsExact` (proved) |
| 4 | `Publication`, `PublicationProps`, `PublicationProofs` | environments, deployment | `TypeOK`, `NothingUndone`, `OneOwner`, `PublishedIsFinal`, `CompletedAgrees` (proved) |
| 5 | `Selection`, `DistributionEditor`, `ActionChains`, composed by `ActionGroups`; `ActionGroupsProps`, `ActionGroupsProofs` | action groups, from the page they are edited on to the browser | `QuietIsBalanced`, `EditKeepsWhole`, `SharesAreKept`, `CalmRunsOnce`, `OutcomeStands`, `OverdueIsTrue` (proved) |
| 6 | `Membership`, `MembershipProps`, `MembershipProofs`; `Billing`, `BillingProps`, `BillingProofs` | organisations, users, roles; trials and subscriptions | `HandsChangeByTransfer`, `OwnerIsAdmin`, `RolesResolve`, `OneRoleEach`, `OneSubscription`, `OrgKnowsSubscription`, `TrialOnce`, `EnabledIsPaid`, `PaidIsEnabled` (proved) |
| 7 | pure algorithms | `Match.check`, payload validation, `getNewModelsOrder` | operators against reference definitions |

A component's state and actions are in the module that bears its name, its
properties in `...Props`, proofs in `...Proofs`, and TLC's instances (sets,
records, symmetry) in `MC...`. A definition `X_Suffix` is `X` with a plausible
mistake in it (a dropped guard, an off-by-one, a missing reset); nothing uses
it: it is there to show that a property notices the mistake when it stands for
`X` (the pairs are under `mutants` in `PROJECT.json`).

## 3. Modules and code

`map` in `PROJECT.json` gives the lines each definition stands for.

### Ingestor (edge/src/main/java/com/scale8/ingest)

| state | code |
|---|---|
| `environmentIngestSettings`, `revisionToEnvironment` | the two `HashMap`s of `Ingestor` |
| `revisionData`, `timeWindowMap`, `queue` | the nested concurrent maps and queues. A map and a queue are heap objects that a thread may hold after they were unlinked, so they have names: each is created by one call of `add` and bears the name of that call's payload |
| `add[p]` | the request thread of payload `p`: where it is in `add`, and its locals |
| `push`, `job[q]`, `shutdown` | the thread of `IngestJob.exec`, the job submitted for queue `q`, the pool after `shutdownNow` |
| `stored`, `dropped` | what reached a store, and under which settings; what was given up with an error |
| `lost` | what was accepted and in no store at a restart, which no code reports |
| `window`, `crashes` | the clock in time windows; restarts |

`Receive`, `PutSettings`, `PutEnvironment`, `PutMap`, `GetMap`, `ReadWindow`,
`GetQueue`, `Enqueue` are the statements of `add`, each one atomic operation of
a map. `PushStart`, `ScanRevision`, `DropRevision`, `ScanWindow`, `DropWindow`,
`EndWindows`, `EndScan`, `Timeout`, `PushReturn` are `push`; `StartJob`,
`Prepare`, `Drain`, `SendOk`, `SendFail` are `push` of the four providers. A
put into an unsynchronised `HashMap` that another thread is putting into may
lose one of the two entries or, when both grow the map, any of the old ones
(`InsertInto`: any subset is kept), and a read during it may answer null
(`SettingsFor`): the outcomes of the data race. A failed write may have kept
any part of the batch (all or nothing for S3). `Crash` empties everything but
the stores; what was accepted and not stored is then in `lost`, apart from
`dropped`, since nothing reports it. `Delivery` is what the edge promises, free of
threads: an event is accepted, then stored once, given up or lost, and that is
final.

`IngestorCalm` adds two history variables. `astray` has the events that one of
three races took out of the sight of `push`: a put that replaces a queue just
linked (`Replaced`), an `add` into a queue or a map that is unlinked by now
(`LateAdd`), a `remove` of what is not empty any more (`LateRemove`). `calm`: no
call of `add` has so far overlapped another, a scan or the end of a window; while
it holds, none of the races happens.

### TagRules (platforms/providers/Scale8/src/core/lib)

JavaScript runs a turn to completion, and within a turn one listener calls the
next; `turn` is the sequence of calls still to make. `Configure`, `Create`,
`Register` are `configureTag`, with `addEventTriggers` and the create function
of an event; `Raise` is the listener of the browser's event, `Dispatched` and
`CheckGroup` are `checkTagRules` with `testRule` and `resetEvents`; `Occur`,
`Change`, `Expire` start a turn: the page fires an event, the data behind a
condition change, a reset timer runs out. `triggered`, `resetTimer`, `timers`
are the event store and the timers behind it, `winner` the applied statuses.
Actions run in microtasks, between turns here: what they change is a `Change`.

### InView (core/funcs/InViewChecker.ts, events/ElementInView.ts, TagInView.ts)

`Cross` lets the element cross a threshold, `Report` is the observer's callback
with every entry queued since, `Elapse` the hold timer, `ClearEventState` the
clearing of the event by a rule or a reset timer, which deletes the timer's id
with the rest. `visible`, `held`, `timeoutId` are `data.state`; `reported`,
`since`, `cleared` are history, as are `strays`, the timers whose id the state has
lost, and `early`: one of them was the last to set `held`.

### Revisions (api/src/managers/tag, api/src/utils, api/src/mongo)

A request is a process that takes a step per read or write of the database, and
`req[q]` is what it has read. `BeginCreate` ... `BeginDuplicate` are the first
reads of the handlers of triggers, action group distributions and revisions;
`CheckFinal`, `CheckCount`, `Insert`, `Write` are `UnderRevisionControl.save`
and `Repo`; `ReadLinks`, `Unlink`, `Link` rewrite the lists of the revision;
`FindIssues`, `Mark` are `finaliseRevision`; `CopyOne`, `CopyFails`,
`SaveDuplicate` are `duplicateRevision`. `Transactions` is the deployment's
switch `isTransactionSupport`: with it the copies become visible at the end.
`serial` is history: so far no request began while another was running. What the
code promises only for requests that come one at a time is stated under it. A
delete unlinks its entity without asking whether the revision is final, as the code
does, and is refused afterwards. Reading an original and inserting its copy
(`DuplicateUtils.ts:71` and `:180`) are one step of `CopyOne`: nobody sees
the copy before the new revision links it, and an edit between the two leaves what
an edit after both leaves, a copy of the older value.
Entities with children, and rules that refer to triggers, are not in this module.

### Publication (EnvironmentManager, IngestEndpointEnvironmentManager, EnvironmentUtils)

`env` is the collection of environments, `provider` and `bucket` what storage
holds. A request reads the revision (`ReadRevision`) and the domain
(`CheckDomain`), inserts or saves (`Insert`, `Save`), builds the configuration
from the model in memory and uploads it under the id and under the custom
domain (`Build`, `Put`, `PutDomain`); it can fail at every await (`Fail`). `kind`
chooses the manager; the differences between the two are in the definitions
(`Attachable`, `Insert`, `Put`). `Save` sets only what differs from what was
read, as `Repo.save` does with `toSetCommand`. `StartEdit`, `EndEdit` and
`Finalise` stand for the requests of `Revisions`: an edit checks and writes in
two steps. `Unlink` is the exception: a delete saves the revision without the
entity, final or not (`deleteTag`, `TagManager.ts:276-285`; `deleteTrigger`,
`TriggerManager.ts:271`). History: `sealed`, the content of a revision when it
became final; `late`, the edits that were past their check at that moment;
`cuts`, the entities unlinked since; `raced`, domains with two creations at once.

### Selection, DistributionEditor, ActionChains, composed by ActionGroups

`Selection` holds the arithmetic without state: how the page divides a whole
(1000 in the code, `Total` here) among the open groups (`Divide`, with `Balanced`
for the effect that balances and `WithShare` for `setDistributionValue`), and how the browser picks a group from a number
(`PickForSession`, `PickAtRandom`).

`DistributionEditor` is `ActionGroupDistributionSection.tsx` and the part of
`ActionGroupManager` it calls. `page[p]` is the component: the groups it loaded
(`seen`), its own copy (`dist`), the updates in flight (`saving`, one for each
group; `ReadGroup` and `WriteGroup` are the two halves of `updateActionGroups`),
and why it will load next (`due`). `Load` contains the balancing effect; `Lock`,
`SetShare`, `Create`, `Duplicate`, `Delete` are the user's. `broken` and
`clashed` are history: a page that failed to save, two pages saving at once.

`ActionChains` is `RuleExecutor.execRule` down to `createActionPromiseWrapper`:
`Execute` picks a group of the experiment and starts a chain for it and for the
ordinary group; `StartAction` is a link of `runInSerial`, `Answer` and `Expire`
settle a promise. The three outcomes of an action and the time it takes are free.
`StartAction` goes before any other turn, as microtasks do.

`ActionGroups` composes them in sequence: pages edit, `Publish` hands the groups
of that moment to the browser (at any moment: no handler looks at what the pages
are doing), the browser executes. Abstracted: the ordinary group has one action;
creating and deleting a group save the group and the list of its distribution one
after the other (`ActionGroupManager.ts:243-254`, `363-385`), here in one step, so
that a failure or another page between the two saves is not modelled.

### Membership (OrgManager, UserManager, InviteManager, OrgUtils)

Each of the five collections is the sequence of its documents in the order of
insertion (`findOne` answers the first). `Handler` lists the awaits of each of the
fifteen handlers in the order of the code, and `req[q].todo` what is left of them;
each await is one step, shared by the handlers that make the same call
(`FetchOrg`, `Authorise`, `FindUser`, `NoRole`, `FindRole`, `NoInvite`, `FindInvite`,
`CountOrgs`, `MyRoles`, `MyOrgs` read, `SaveUser`, `InsertOrg`, `Link`, `SaveInvite`,
`DropInvite`, `SaveRole`, `SaveOrg`, `LeaveOrgs`, `SaveMe`, `DropMe` write). `Fail`
lets any await reject, as often as it likes; `Expire` is the TTL index of invites.
A save of `Repo` sets what differs from the document as it was read (`SavedOrg`).
`calm` is history: so far no two handlers overlapped of which one checks what
the other changes (`Conflict`), nobody accepted an invite to an organisation of
their own, and no creation of an organisation failed before the role of its owner
was saved. Abstracted: a role is an administrator's or not; a sign-up through an
invite stops after the user is saved (accepting it is a request of its own);
names, e-mails, tokens, audit records.

### Billing (StripeService, OrgManager, TagManagerAccountManager, DataManagerAccountManager)

One organisation and its owner. `account`, `orgSub`, `mayTrial` and `manual` are
the documents, `sub`, `open` and `event` what Stripe keeps: subscriptions,
checkouts that are not paid, events that are not answered with ok. A request goes
through the awaits of its handler (`req[p].pc`): `ReadAccount`, `SaveTrial`,
`SaveFlag` are the trial; `FindSubscription`, `ReadProduct`, `Checkout`, `AddItem`
`accountSubscribe`; `CancelItem`, `ClearOrg`, `DeleteAccount`, `InsertAccount`
`accountUnsubscribe`; `Repair` the resolver of `stripe_product_id`, which enables
an account as a side effect of a query. `BeginHook`, `FindItem`, `SaveItem`,
`EndHook` are the webhook, one step for each item's read and save. Stripe
(external) is `Pay`, `Charge`, and what `Becomes` says of each request; it delivers
an event at any time after it, again after an error, and in any order. `past` is
history: handlers that overlapped (`overlap`), a request on the account that the
system keeps for itself (`mistaken`), a checkout begun while another was open
(`twice`), an event that tells of a subscription as it no longer is (`late`), an
await that failed (`failed`); and the products whose trial was granted. `over`, of
a request for a trial, is history too: when it began, a trial of the product had
been granted, or an event had been answered that it is paid for. Abstracted: the
arithmetic of plans, prorations and invoices; a mismatch between an item's price
and the account's stored product; organisations created with a trial.

## 4. Runs

Nine runs pass, three find a violation (section 6).

| run | question | bounds | distinct states |
|---|---|---|---|
| `ingest_safety` | at most once delivery, one place per event, no event beyond the environments of its revision, none forgotten but by a restart or one of three races, and by none of these on calm schedules | 2 events, 3 environments with the providers `LOG`, S3 and BigQuery, in pairs on 2 revisions (one is moved from the first to the second), 1 worker, 2 windows, 1 restart | 1.1M |
| `ingest_live` | every push ends, or waits for a job that a timeout discarded; what waits is drained and reclaimed | 2 events, 1 environment with a provider that may fail before it takes anything, 1 worker for up to 2 jobs, 3 windows, 1 restart | 127k |
| `ingest_shared_revision` | *violated*: an event is stored by the environment it was sent to | 2 environments on 1 revision | |
| `rules` | one application per occurrence, every group served, reset timers, no missed check, clearing | 3 rules in 2 groups, 3 events of which one is triggered when it is created, 2 triggers (one of them global), clock 0..2, 2 occurrences of each event, 1 change of data | 387k |
| `rules_stale_timer` | *violated*: only the timer of the last occurrence clears an event | 3 rules with one global trigger | |
| `inview` | time in view, with the timers that a clear leaves behind; no lost hold | minimum time 2, page moves until 5, clock to 8, 3 timers | 69k |
| `revisions` | no shared entity, late requests only unlink; for requests in turn: links resolve, exact duplicates, nothing lost | 2 revisions, 4 entities of 2 kinds, 3 requests at once, maximum 2, no transactions | 970k |
| `publication` | drafts stay private and what is served is what was made final (but for late edits and deletes), agreement of bucket and database, owners of domains, no lost deletion or attachment | 2 environments, 1 domain, 2 revisions, 1 variable, 3 requests of which 2 at once, 1 edit or delete, 1 failure; both kinds | 2.2M |
| `membership` | owners, roles, change of hands | 2 addresses, 3 requests of which 2 at once, any number of failures, 2 organisations at most | 341k |
| `actions` | shares at rest, fair selection, one execution, outcomes and ends of chains | 2 pages, a whole of 5, 2 groups, 4 edits and creations, 2 executions, actions of the 3 kinds | 481k |
| `billing` | who pays can use, who uses pays, one subscription, no trial once one was granted or paid for | 3 plans (2 for tags), 3 requests of which 2 at once, 1 failure or failed charge | 2.6M |
| `billing_paid` | *violated*: `is_paid` means subscribed | 2 requests in turn, nothing fails | |

Why these bounds are enough for the hazards they are about. Each race in the
ingest buffer is between one call of `add` and one other thread, or between two
calls; a second window is what makes the first one complete. Two environments
on a revision are needed for routing, and a third, on another revision, to notice
an event that leaves its own; a job of MongoDB can do nothing that one of BigQuery
cannot (it has no preparation, and ends at an error); one worker makes jobs wait for a thread, also in
`ingest_live`: a timeout discards those, and `push` waits for them (section 7). Two competing rules and one in another group show selection
and the visit of every group; two rules on a global trigger show shared states;
a clock of 2 is past every reset time and interval (0 and 1). The in-view clock
leaves two holds to be started, broken and completed; of the timers that clearing
leaves behind three are followed at once, enough for an orphan beside a hold that
is broken and one that is kept. Three requests are enough for a check, an
intruder and a later observer; `MaxElements = 2` is reached by one create after
one seed. The publication bounds allow create, update and delete on one
environment, two creations at once, and a request after a failure. A whole of 5
among 2 groups has a remainder, leaves both with one part or more in every way,
and lets a lock make the rest too small; a stale page needs a second one, and
edits of both. In `membership` a role changes, an owner and an intruder overlap,
and a third request looks at what they left; five initial states put the second
user in every position towards the organisation. In `billing` two plans of one
product are a change of plan and the third adds an item; three requests are a
subscription, a cancellation and one in between, with the events of each late.

Symmetry is declared where the model treats values alike: payloads, the
entities that are not seeded, requests, revisions and environments of
`Publication`, addresses, the two plans for tags; never in runs with liveness
properties. `CHECK_DEADLOCK FALSE` stands where a behaviour ends because its
bounds (clock, requests, crashes) are used up, or, in `ingest_live`, where `push`
waits for a discarded job and everything else is settled.

Fairness. `ingest_live`: request threads, the job and the pool's threads are run
by the JVM, the job is rescheduled (`fixedDelay`), the clock advances; no
timeout, failure or crash is forced, and none is excluded. That the call of a
provider returns is not the edge's to keep and not part of the fairness: `Prepare`,
`SendOk` and `SendFail` have none. It is a premise of the two properties
(`ProviderReturns`), as is in `QueueReclaimed` that a provider that is tried again
and again does not fail for ever (`ProviderRecovers`). The edge's own way to stop,
a `push` that waits for a job discarded by the timeout, is not excluded by the
bounds but named: `Starved`.
`rules`: the browser finishes a turn, fires timers that are due, and time
passes; events of the page are not fair. `inview`: the observer reports, timers
fire, time passes; the page may stand still. `actions`: some page's request is
answered, some microtask or due timer runs. One weak fairness condition for all
pages and one for all chains is enough, since each has a bounded amount of work;
users, the code of actions and the publication are not fair.

## 5. Proofs

Each proof is for any value of the constants: any number of events, pages,
environments, requests, edits, failures or restarts.

`IngestorProofs`, from the assumptions of `Ingestor`
(`ConfigAssumption`: the settings name an environment, a revision and a
provider; `BoundAssumption`: the bounds are numbers, with at least one thread;
`NoneAssumption`: null is not a value):

- `TypeCorrect`, `TypeSafety`: `Spec => []TypeInv`, hence `[]TypeOK`. `TypeOK`
  is not inductive: a thread dereferences what it, or the scan, read earlier.
  `TypeInv` adds `Refs`, which says what a program counter implies about the
  references a thread holds (a call past `PutMap` has settings, a listed job
  belongs to a queue, ...). One lemma per action.
- `PlaceCorrect`: `Spec => []OnePlace`. Inductive relative to `TypeInv`. Steps
  come in three sorts: *quiet* ones, which touch no queue, batch or outcome
  (`QuietSteps`, one argument for all); ones that move events between places
  (`EnqueueAccepts`, `DrainMoves`); and ones that settle events
  (`SendSettles`, `CrashSettles`, over the common `SettlesOnePlace`).
- `RoutedCorrect`: `Spec => []RoutedWithinRevision`: the environment that stores an
  event was named by a call of `add` together with the event's own revision, and the
  settings used were brought by some call. They need not be the event's own, nor
  the latest (`putIfAbsent`). The invariants follow the settings on their way to the
  store: what a call of `add` has, what the two unsynchronised maps hold, and what
  a worker has prepared (`RouteInv` for the environments, `BroughtInv` for the
  settings).
- `NoneForgottenCorrect`: `CalmSpec => []NoneForgotten`. `SomeInv`: an accepted
  event is in a queue, in a batch, or settled, and only a job that is draining or
  sending has a batch. `SeenInv`: a queue with an event in it is linked, or one of
  the three races has led the event astray; this is for any interleaving. That
  calm schedules have none of the races needs `CalmInv`: the one call of `add` in
  progress has read what is still so (`HasRead`), push is about to unlink only what
  is empty (`Unlinks`), and a queue that is not empty is linked (`AllLinked`).
- `DeliversAtMostOnce`: `Spec => AtMostOnceDelivery`. The same lemmas map each
  step to `Accept`, `Settle` or a stutter of `Delivery`.

`InViewProofs`, from `InViewAssumption` (the bounds are numbers, undefined is not):

- `TypeCorrect`: `TypeOK` with `Moving` (while something is to be reported, the
  page was moving just now), which bounds the timers.
- `HeldLongEnoughCorrect`: `HeldLongEnough` says nothing of timers that run, so
  the invariant has to: `Orderly` has, apart from the strays that a clear left
  behind, one pending timer at most, the one named by `timeoutId`, set when the
  element came into view and due no earlier than the minimum time after it; an
  element that is held, and not by a stray, has been in view for long enough. There
  are no strays unless the state was cleared. `Numbers` and `Flags` are the types
  it needs. It holds for any bound on the timers, and whatever is cleared.

`TagRulesProofs`, from the assumptions of `TagRules` (rules, groups and triggers
refer to each other, the times are numbers, and an event is a child of one trigger:
`EventManager.ts` inserts it and links it to one, line 260, and copies it with
its trigger). One step of the browser is
one entry of the turn's stack of calls, so that the invariants are about what is
still on that stack:

- `RulesCorrect`: `RulesInv`, the types with what an entry implies (`Fitting`: a
  raise has a listener, what is created is created within a dispatch).
- `NothingIsMissed`: `MissedInv`. A rule is watched or about to be; and where one
  passes while its group waits, a check of the group is still on the stack.
- `OwnEventsAreHeld`: `OwnInv`. An event of one rule has one listener, registered
  and raised once at a time (`HeardOnce`), and one timer, the one that is kept
  (`OneTimer`), unless it is triggered while it is created.
- `AppliedOnce`: `UsedInv`. Applications of a rule, and occurrences of its event
  that are not used up, are no more than the occurrences.

`RevisionsProofs`, from the assumptions of `Revisions` (the entities are
finitely many, the operations those of the managers). Every request is a process that stops at each read and write.

- `RevisionsCorrect`: `RevInv`, for any interleaving: what a request holds
  (`Fits`), that an entity is linked by its own revision only and once, and that a
  copy in progress belongs to one request. `LinksAreOwn` is part of it.
- `LateUnlinksOnly`: a request that began after the end of its revision stops at
  `CheckFinal` or at `CheckCount`, a delete after its `Unlink`, whose one list is what
  it read without the entity; from `RevInv`, by cases over the steps that write.
- `SerialCorrect`: `SerialInv`, for requests that come one at a time: what the
  request has read is current (`Undisturbed`), links to triggers resolve, and an
  entity outside the lists of its revision is the one the request has in hand
  (`Halfway`). `LinksResolveSerially`, `NothingLostSerially` and
  `DuplicatesExactly` follow.

`PublicationProofs`, from `PublicationAssumption` and `NoneAssumption`:

- `TypeCorrect`: `TypeOK` with `Hands` (what a request has in hand is what its
  next step dereferences: a model, an environment that exists, a configuration)
  and `EditsInv`: an account of the edits. What a final revision contains and the
  edits still in progress on it are together what it contained when it became final
  (`sealed`), the edits past their check by then (`late`) and the entities unlinked
  since (`cuts`).
- `NothingUndoneCorrect`: from `TypeInv` alone; `Hands` knows that only an
  update's model differs from what it read in its revision.
- `OneOwnerCorrect`: `OneOwner` is strengthened by what makes it inductive:
  `OneCreation` (two creations for one domain at once are in `raced`) and
  `FreeToInsert` (a creation past `CheckDomain` has a domain that is free, unless
  it is in `raced`).
- `PublishedIsFinalCorrect`: the invariant follows the revision and the
  configuration on their way: through the requests (past `ReadRevision` they hold
  a final revision, past `Build` a `Frozen` configuration), the documents and
  the files. `Frozen` is relative to the content of now; `EditsInv` turns it into
  the bound by late edits and deletes (`SealedPast`). It is for tag environments; ingest environments do not have it
  (section 7).
- `CompletedAgreesCorrect`: `AloneInv` says, step by step, what a request nobody
  disturbed has in hand (the configuration and the archive of the revision its
  model names) and what the database and the bucket already have of it. While
  it is undisturbed every other request is idle, and one that begins disturbs it.

`ActionGroupsProofs`, from the assumptions of `Selection` (`TotalAssumption`: the
whole is a positive number), `DistributionEditor` (`EditorAssumption`: the pages are finitely
many, the bounds are numbers, and there are no more groups than parts of the
whole; of 1001 groups the code would leave some without a share) and
`ActionChains` (`ChainsAssumption`: a bound, and null is not a number). The two
theorems about groups at rest assume that there is a page (`Page # {}`):
groups that no page ever shows are never balanced.

- Sums of shares. `SumAt` is a recursive function; what is said of it
  (`SumExists`, `SumsAgree`, `SumJoin`) is proved from a least counterexample
  (`Least`, over `NatLessThanWellFounded`). `Division`: dividing a whole
  among places gives shares that add up to it, each of at least one part if there
  are as many parts.
- `PagesCorrect`: the inductive invariant of editing. `EditorInv` needs no calm:
  types, that the numbers of groups are their own and were given out, and that a
  page saves each group once. `CalmInv` is about pages that saved one at a time:
  no group is locked without a share; the shares of a page are at least one
  part each; only one page is saving, and it knows how far the database is from
  what it saves (`Tracks`); a page that saw groups out of balance has the same
  groups in balance; and groups out of balance are going to be looked at.
- `QuietIsBalancedCorrect`: at rest nobody is going to look, so that the
  last part of `CalmInv` is the property.
- `EditKeepsWholeCorrect`: from `EditorInv` and `Division`; no calm needed.
- `SharesAreKeptCorrect`: the numbers that pick a group are those between two
  sums (`Edges`, `RangesMeet`), and their number is its share (`PicksAreShares`).
- `CalmRunsOnceCorrect`: groups served in a quiet moment are in balance
  (`CalmServed`, by the theorem above), so that every number picks one, and
  what was executed is recorded (`RecordedInv`).
- `OverdueIsTrueCorrect`: the invariant `ChainsInv` adds to `OverdueIsTrue` what
  the log says of an action whose timer runs (it is pending, so that a timer does
  not outlive the outcome), and that chains are sequences of logs (`ChainsType`).
- `OutcomeStandsCorrect`: `Moves` says what any step may do to the log of any
  chain; one lemma per step of `ActionChains`, over `LogMoves` where one log
  changes. Editing and publishing do not touch a chain.

`MembershipProofs`, from the assumption of `Membership` (null is neither an
address nor a number, which is what documents are named by; what an added user may
be is true or false). Users, organisations, invites, requests and failures are of
any number:

- `HandsChangeByTransferCorrect`: the invariant `HandsInv` is about what a request
  has read: a transfer past `fetchOrg` has read that who asks for it is the owner
  (`Sound`). `Elsewhere` shows which steps cannot be a transfer's, so that
  `OtherGoes` settles all of them; only `SaveOrg` and `InsertOrg` touch an
  organisation. The proof does not need that nothing fails or overlaps: the
  property holds without `calm`.
- `MembersCorrect`: the invariant of the other three. `BaseInv` holds in any
  overlap: what is left of a request is the end of its handler (`Placed`), and what
  it has read names documents there are (`Known`). `CalmInv` is what `calm` buys:
  no two requests conflict (`Apart`), the three properties (`Ruled`, `Resolved`,
  `OneRole`), and what each request has found so far still holds (`CalmKnown`: who
  is about to be linked has no role, who is about to be removed is not the owner,
  the organisations `deleteMe` has not left yet are those it read). None of the
  three is inductive without it: the check and the write are awaits apart. One
  lemma per step; a write must leave what every other request knows true, which
  `Conflict` grants where it would not. `PlainStep` and `Assemble` settle reads;
  `Spots` says where in its handler a request can be.
- `OwnerIsAdminCorrect`, `RolesResolveCorrect`, `OneRoleEachCorrect`: the
  properties, from `MembersCorrect`. The first needs that `getRole` finds *the* role
  of the owner: `OneRole`.

`BillingProofs`, from the assumptions of `Billing` (a plan is of one product, the
bounds are numbers, null is not a value). Stripe, its events and the handlers
interleave under any bounds; the properties exclude by `past` what the code does not provide
for, and each invariant excludes no more than its property:

- `BaseCorrect`, `TypeSafety`: `BaseInv`. The types (`TypeInv`), that without
  overlap one handler runs (`AloneInv`), and that what it has read still holds
  (`FitsInv`). Every other proof rests on it.
- `SubscribedOnce`: `OneInv`. A checkout is open only where no subscription is
  listed, and is the only one.
- `TriedOnce`: `TrialInv`. Once a trial was granted or an event of a payment
  answered, the right to try the product is gone, for good; of the event a handler is
  at work on, what is not done yet is still to do (`Covered`); and a request goes on
  to a trial only if it found the right when it began, that is before (`FoundOpen`).
  No overlap or failure is excluded.
- `SubscriptionIsKnown`: `KnownInv` (the identifier the organisation keeps is of a
  listed subscription, or about to be cleared) and `ToldInv` (a subscription it
  does not know is one that an event is still to tell of).
- `EnabledMeansPaid`: `EnabledInv`. An account that is enabled is tried or paid
  for, or is the one that the handler in progress is about to delete; it needs
  `SureInv`: only overlapping orders, or two open checkouts, give an organisation
  two subscriptions.
- `PaidMeansEnabled`: `PaidInv`. The account of a product that is paid for is
  enabled, or an event or handler that enables it is still to come.

The proof of `EnabledIsPaid` corrected the property. `getStripeSubscription`
takes the first subscription of the list (`StripeService.ts:407`); with two of
them the products can be read from one and canceled on the other. The run with
three requests was too short for that; with five, TLC finds it. `past` now holds
`unsure` from the moment a handler had a choice, and `EnabledIsPaid` excludes it.

Only model-checked: the liveness properties (out of the prover's reach: fairness
and `ENABLED`) and `EveryGroupServed`. Every other invariant and action property
that a passing run checks is a theorem. The library's induction theorems cannot be used (their parameter is an
operator); what holds of all numbers is proved from a least counterexample
instead. The `TypeOK` of `TagRules`, `Revisions`, `Membership`, `ActionGroups`
and `Billing` state the shape of the data for the reader and are not part of a run:
every other property of those modules would fail to evaluate without it.

## 6. Where code and documentation disagree

Each is a run that TLC finds violated, listed under `findings` with the line it
contradicts.

1. Environments attached to one ingest revision share its buffer; the last that
   called `add` decides where all of it is stored (`Ingestor.java:53`).
2. With a global trigger the reset timer of an earlier registration survives
   and clears a later occurrence (`TagManager.ts:277`). An event that triggers
   while it is created has such a timer without sharing: `setCustomBrowserEvent`
   stores its entry afterwards, and `setCustomEventResetStateTimeout` keeps a
   timer in an entry only (`EventStore.ts:38`).
3. The event of a subscription that is answered after `accountUnsubscribe` puts
   the canceled subscription back into the organisation (`StripeService.ts:185`):
   `is_paid` (`OrgManager.ts:157`) then answers true for good, and the
   organisation can neither subscribe nor unsubscribe.

## 7. What the model shows besides

These follow from the same modules. Most contradict no document. Two do, and have
no run of their own, because a property above already says what remains true. The
documentation of a revision's `locked` promises that it "has been finalised and
locked to prevent further changes" (`RevisionManager.ts:73`): `deleteTag`
(`TagManager.ts:276-285`) and `deleteTrigger` (`TriggerManager.ts:271`) unlink from a
final revision without a check, before the deletion itself is refused, and the
next build serves the revision without the entity; `LateOnlyUnlinks` and
`PublishedIsFinal` (`cuts`) allow for just that. And `TagInView.ts:24`, below.

- *Ingest.* An accepted event can be forgotten without a report: a second `put`
  discards the first queue (`Ingestor.java:59`), the event joins a queue or a map
  that was already unlinked (`:64`, `:79`, `:93`), or the process restarts (`:38`).
  `NoneForgotten` names these cases and excludes every other. An event can be added after the comment
  "window is complete" (`:89`). `putIfAbsent` keeps the first settings of an
  environment for the life of the process (`:50`), also when the environment is
  moved to another revision: its events are then stored under old settings. Two
  first calls for two environments at once can lose the settings of one of them in
  the unsynchronised map: the jobs of its queue fail before they read it, until
  another event of it comes (`:50`, `:97`; TLC shows it for `QueueReclaimed` with two
  environments in `ingest_live`, which has one). With
  more jobs than threads a timeout discards waiting jobs whose futures never
  complete: `push` waits for them for ever, and with `fixedDelay` the job is not run
  again (`:142`, `IngestJob.java:20`). `ingest_live` has one thread for two queues
  and reaches this (`Starved`). A provider call that does not return blocks `push`
  as well.
- *Rules.* With a global trigger one occurrence can apply a rule twice: the
  second listener sets the state again after the first check has used it up
  (`TagManager.ts:216`, `RuleExecutor.ts:675`). `AppliedPerOccurrence` is
  therefore about unshared triggers. When the create function of a shared trigger's
  event triggers at once (`PageReady` when the page is ready), it runs for the last
  rule before that rule listens: a group before it can use the event up, and the rule
  is not applied. `EveryGroupServed` is about the other events.
- *In view.* Clearing the state forgets the id of the hold timer, which then
  holds an element before its time (`InViewChecker.ts:26`), and deletes the id of the
  next timer when it fires, which is then a stray too: the case that
  `HeldLongEnough` names (`early`). `entries.every` takes a leaving and a return
  reported together for a leaving (`:11`). The test of `TagInView` looks at
  `visible` only (`TagInView.ts:29`), although its `minimum_time_in_view` is "the
  minimum duration the element must be in-view for" (`:24`).
- *Revisions.* An edit that passed its check can write after the finalisation
  (`UnderRevisionControl.ts:55`); a delete on a final revision unlinks before it
  is refused (`TriggerManager.ts:271`), and writes the list as it read it, so that
  what was linked in between is lost; two creates at once lose a link
  (`:311`); copies of an entity are not counted (`RepoUnderRevisionControl.ts:23`).
  A deleted global action group distribution stays linked, and its revision can
  from then on not be duplicated, finalised or published (`RevisionUtils.ts:62`).
- *Publication.* A deletion leaves the files in the bucket. A failed ingest
  creation leaves an environment whose provider is `{}`. Two creations at once
  can share a domain. Every save of a tag environment writes its variables as
  read, so that a concurrent change is lost (`Model.ts:341`). Two updates may
  save in one order and upload in the other. A request still running on a deleted
  environment can overwrite the file of the domain's next owner. An ingest
  environment can be created with a draft revision
  (`IngestEndpointEnvironmentManager.ts:474`), which can then still be edited.
- *Action groups.* Pages that save at the same time can leave shares that do not
  add up, for good: each sees what it saved itself (`clashed`). A save that fails,
  because another page deleted a group, is not followed by a load (`broken`). With
  every group locked the page does not balance, so that deleting a group leaves
  less than the whole; published like that, some numbers pick no group, the
  exception comes after the actions of earlier distributions were started and
  before the execution is recorded (`RuleExecutor.ts:745`), and a rule that
  cannot repeat is executed at every event. A distribution by page load draws
  anew at every execution, not once on a page load.
- *Organisations.* Under `Conflict`: two acceptances, or an invite and an
  acceptance, give a user two roles; an acceptance that overlaps the deletion of
  the user leaves a role without one, and `Org.users` then throws; a transfer
  that overlaps the recipient's demotion, removal or deletion leaves an owner who
  cannot administer. In turn: `acceptInvite` does not look for a role
  (`OrgManager.ts:902`), and `removeUser` and `deleteMe` drop one role only
  (`:966`). A creation that fails before the owner's role is saved leaves an
  organisation nobody can open; a failed `completeSignUp` leaves an address that
  is taken for good. `updateMe` overlapping `deleteMe` blocks an address. A
  transfer does not count the organisations of the recipient.
- *Billing.* A second trial can begin while the first is being granted or after it
  failed between its two saves (`OrgManager.ts:709`, `:711`), and after a payment
  until its event is answered: the right to a trial is taken there only. Two open checkouts make two subscriptions. A failure between the
  cancellation and `deleteAccount` leaves an account that is enabled and unpaid, one
  between delete and insert leaves none. Unsubscribing from data deletes the
  user's account and inserts it behind the system's, which `getFromOrg` then
  finds first: the next request works on, or deletes, the wrong one (`mistaken`).
  The `stripe_product_id` resolver enables the account whatever the status of the
  subscription, and a deletion event of Stripe is not handled. With manual
  invoicing, unsubscribing replaces an account by an enabled one.

## 8. Not modelled

Payload validation (`Payload.java`) is a check of one document against
one schema, without state; the edge's cache of 60 s (`IngestEntity.java:30`) only
delays what `Receive` already lets arrive in any order: `Ingestor` lets a request
carry the settings of any environment and revision.
Tags, rules, groups, events, conditions and data maps follow, one level deeper,
the pattern of `Revisions`: check that the revision is not final, write the
entity, rewrite the list of the parent.
Tokens, sessions, passwords and two-factor authentication are lookups of one
document. The usage updater is a loop of one writer; two at once are caught by
the unique index of `Usage`, as two users by that of the address and two invites
by theirs. Registration of platforms waits by polling, with no other actor.
The rest of the web application, GraphQL wiring, storage and statistics clients,
common enumerations and the router keep no state or only present it; much of the
repository's volume is generated (`ui/src/gql/generated`) or of that kind. The
reasons are with each component in `PROJECT.json`.

Abstracted in what is modelled: names, documents and schemas are values of small
sets; authorisation and audit records change nothing that the properties see,
except in `Membership`, which is about them; certificates and DNS are awaits
that may fail. Only `Transactions = FALSE` is run for `Revisions`: with
transactions fewer interleavings are possible.
