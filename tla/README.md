# A TLA+ model of the managed-gateway tenant controller

The controller watches the Gateway API objects of one tenant's *member* cluster
and provisions, in an *infra* cluster, an agentgateway data plane per Gateway
and one Istiod. It is level-triggered code built by hand (goroutines, a map and
a dirty bit instead of a work queue), reads everything from informer caches and
writes status with optimistic concurrency. These modules model that control
logic, TLC checks it on small instances, and TLAPS proves the safety properties
for all.

Paths below are relative to `src/controller/internal/` unless they say otherwise.

## Inventory

| Part | Source | State | Operations | What makes it correct |
|---|---|---|---|---|
| Gateway work processor | `membercluster/handler.go` 25-99 | `states` map (running, dirty), goroutines | enqueue, run, reconcileWithRetries | one reconcile per Gateway at a time, no event lost, ends when cancelled |
| GatewayClass processor | `membercluster/handler.go` 101-142, `status/writer.go` 21-45 | in-flight `sync.Map`, class status | process, reconcileGatewayClass, MarkGatewayClassAccepted | owned classes become Accepted, no stale write |
| Member cache and handlers | `membercluster/reconciler.go`, `handler.go` 144-250 | informer caches | direct and fan-out handlers, objectChanged, periodic refresh | every change reaches the infra cluster |
| Gateway reconciler | `gateway/reconciler.go` 53-330, 409-456 | infra objects | Reconcile, validate, provision, wait, clean up | Programmed only with valid assets and a live data plane; nothing left of deleted Gateways |
| Gateway and listener status | `status/writer.go` 47-202 | conditions | MarkAccepted, MarkProgrammed, MarkListenerResolvedRefs | writes are current, Programmed does not flap, refs reported |
| Route parent status | `status/writer.go` 204-299, 609-658 | `status.parents` of Routes | MarkRoutesAccepted, mergeRouteParents | entries of others survive, own entries are current |
| Attachment and reference decisions | `status/writer.go` 350-607, `gateway/reconciler.go` 298-330 | none | routeAcceptedByGateway, hostnamesIntersect, backendRefsResolved, both ReferenceGrant rules | they decide what their names say |
| Provisioner | `provisioner/apply.go`, `render.go` | infra objects | Apply, prepareForUpdate, preserveServiceFields, rendering | no foreign object overwritten, assigned fields kept |
| Istiod refresh | `gateway/reconciler.go` 458-557, `../cmd/controller/main.go` 208-274 | Istiod Deployment | RefreshIstiod, istiodResyncLoop, the apply at startup | mounts come to be the union of declared certificates, and no refresh takes a declared one away |
| Member token | `gateway/reconciler.go` 332-407 | token Secret, annotation on the pod template | ensureAgentGatewayMemberToken, tokenSecretCurrent | a valid token at all times, pods rolled with it |
| Bootstrap | `../cmd/controller/main.go` | leader lease | Start, loadKubeconfig | one active replica |

How they interact: informers call the handlers, each from its own goroutine; the
handlers call `enqueue`; a goroutine per Gateway calls `Reconcile`, which reads
the member caches, calls the status writers (member API server) and the
provisioner (infra API server). Goroutines of different Gateways share the
Routes they write to, the Istiod Deployment, and infra objects whose names
collide. The hard parts are therefore interleavings around the dirty bit and
the in-flight map, reads from caches that lag behind the controller's own
writes, conflicts and bounded retries, partial failures of a reconcile, events
that never come (infra objects, core objects without a generation, deletions
while no leader runs), and waits with deadlines. `PROJECT.json` lists them line
by line under "hazards".

## Modules

| Module | Models | Notes |
|---|---|---|
| `KeyQueue` | the abstract promise of the work processor | phase and dirty bit per key; used by the composed modules |
| `GatewayProcessor` | the processor in detail | critical sections under `p.mu` are single actions, everything else interleaves |
| `GatewayProcessor_proofs` | theorems about it | see Proofs |
| `GatewayClassProcessor` | class handler, in-flight map, class status | the API server's history is a sequence, the cache a prefix of it |
| `GatewayStatus` | one Gateway through Reconcile and the status writers | on `KeyQueue`; each Mark function is a read, a comparison and a conditional write |
| `GatewayStatus_proofs` | theorems about it | see Proofs |
| `MemberCluster` | informers, relists, handlers, fan-out, refresh, restart | on `KeyQueue`; a reconcile is one read and one write |
| `MemberCluster_proofs` | theorems about it | see Proofs |
| `RouteStatus` | several Gateways and other controllers on shared Routes | on `KeyQueue` |
| `RouteStatus_proofs` | theorems about it | see Proofs |
| `DataPlane` | Apply and deleteManagedGatewayObject for Gateways with one object name | on `KeyQueue`; a request is a step, reads come from a lagging cache |
| `DataPlane_proofs` | theorems about it | see Proofs |
| `IstiodRefresh` | RefreshIstiod from every goroutine, the resync loop and the startup apply | on `KeyQueue`; a list, a read or a write is a step |
| `IstiodRefresh_proofs` | theorems about it | see Proofs |
| `MemberToken` | the member token of one Gateway against time | on `KeyQueue`; the ticker and the duration of runs are explicit |
| `MemberToken_proofs` | theorems about it | see Proofs |
| `RouteAttachment` | decisions of the status writers and both ReferenceGrant rules | operators only |
| `Rendering` | certificate names, validation, Istiod's template, Service ports | operators only |
| `Decisions` | a call of one of these and its result | compares each with a reference definition |
| `ClassAndDecisions_proofs` | theorems about Decisions and GatewayClassProcessor | see Proofs |
| `MC...` | instances for TLC | |

Conventions. A cache is modelled as the object's version in the cache and the
sequence of versions the watch has not delivered; the API server holds the last
of them. A status update succeeds exactly if the version that was read is still
the newest, which the modules keep as a Boolean (`newest`) or as an index
(`base`). A version's `gen` is its metadata.generation and 0 when the object
does not exist. Definitions named in the comment as a mutant are wrong variants
of the definition after them; nothing uses them, they document which mistake
each property would notice.

**GatewayProcessor.** `running` and `dirty` are the entries of `p.states`; `pc`,
`job` and `attempt` belong to goroutines. `Change` and `undelivered` stand for
the informer, `saw`, `served` and `abandoned` record which version of the world
an attempt read and how it ended, so that "no lost event" can be said.
`Enqueue` is the method of that name (`MarkDirty` or `Start`), `Settle` the
critical section of `run`.

**GatewayClassProcessor.** `Process` is the closure returned by
newGatewayClassProcessor: it drops an event whose name is in flight. `Relist` is
a watch that broke: the informer jumps to the newest version, and a class created
again in between may arrive as an update with the old generation. `Wipe` is
another writer that takes the condition away. objectChanged drops both (`Lost`),
and no periodic refresh covers classes. `missed` records such an update, a dropped
event and exhausted attempts, until the next goroutine starts. `ReadFresh`,
`WriteStatus`, `WriteRefused` are one round of RetryOnConflict.

**GatewayStatus.** `pc` walks through Reconcile: get, accept, validate,
resolve (MarkListenerResolvedRefs), provision, the two waits, program; a name
with "!" is the update after the read, which stores what `read` gives; that this
is what the API server holds is proved (`ReadInv`). A Gateway that is deleted is
not created again here, as it is in MemberCluster. `Fails` is any failing request or wait,
with what the calls before it left behind. `validated` records the generations
whose TLS assets passed. `permitted` and `present` are the certificate
references that a ReferenceGrant permits and whose Secret is complete.
SupportedKinds, addresses and messages are left out, the ServiceAccount, the
token and RefreshIstiod have no effect here except that they may fail. Infra
objects are read from the infra API server directly: the lag of the manager's
own cache is in DataPlane.

**MemberCluster.** Objects are Gateways, `Routes` (anything with a generation,
GatewayClasses and ReferenceGrants included) and `Services` (core objects,
whose generation stays 0). Handler calls are a set, since a second call for an
object adds nothing to one that is still to come. `Relist` is a watch that broke:
the informer jumps to the last version and the handler sees one update. An object
deleted and created again in between has generation 1 twice, so objectChanged
takes that update for one of the status; `missed` remembers such objects, Fresh
excepts them, and EventuallyFresh says that the periodic refresh makes up for it.
`Crash` loses everything but the two clusters.

**RouteStatus.** A verdict is identified by the parentRef and by the generations
of Route and Gateway it was computed from. A Route's parentRefs are, for each
Gateway, a list of sections (sectionName and port), and routeParentStatuses gives
one entry for each; that no two of them are equal is what the API server's
validation ensures (`RefListsAssumption`). Routes are deleted and created again,
and `Relist` may show that as an update with the old generation, which `missed`
records until the next refresh; Gateways that are deleted stay so here. `read` is
the version that Get returned and that the update sends back. Any run may fail,
any number of times. The three loops over HTTPRoutes, GRPCRoutes and
TLSRoutes are one, and the order within a list is arbitrary. `Abort` is the
loop ended by one Route's error, which Reconcile only logs. `Keep` is the loop
of mergeRouteParents that carries over the entries of others, `OwnEntries` the
set it does not keep.

**DataPlane.** The Gateways that share one object name (usually one, more if
namespace and name run together to the same string), and the Deployment and the
Service of that name. A goroutine is at an object (`step`) with the Gateway's
generation as it read it (`gen`, 0 for a cleanup); `Get` is the read of Apply or
of deleteManagedGatewayObject and decides between create, update, delete,
refusal and nothing. `misled` records the two decisions that a cache behind the
API server makes wrong: a creation answered by AlreadyExists, and a deletion
that is skipped. `OthersWrite` stands for other managers, who may label an
object as theirs or strip the label, and for controllers that write its status.
Member reads are current here, and the member's own lag is in the modules above.
The ServiceAccount, which the Gateways of a tenant share and no cleanup deletes,
is left out; the token Secret and the refresh of Istiod have modules of their own.

**IstiodRefresh.** A refresher is a Gateway's goroutine, the loop `"resync"` or
the apply at startup `"boot"`. It lists Gateways, lists policies (`certs` is what
it has collected), reads the Deployment and creates or updates it; nothing
serialises refreshers, so each is between two of these steps while others run.
Of the Deployment the mounts are kept and whose it is by its label, of its cached
copy only the latter (`shown`) and whether it is old (`behind`), which is what
Apply goes by: `Refuse` is prepareForUpdate's refusal of an object that another
manager has labelled. As long as it is labelled so, no refresh succeeds, and
MountsConverge excepts that. An update lands only on the version that was read (`newest`). The API server
rejects a Deployment in which two certificates make one volume name (`Rejected`).
When the Gateway exists, its goroutine logs a failed refresh and goes on to wait
for the data plane; when it is gone (`cleaning`), the failure fails the attempt.
`steady` is history: the pairs of source and certificate declared ever since the
refresher began to list.

**MemberToken.** No clock is kept: a token, and an expiration in an annotation,
is the time it has left, and `Tick` reduces all of them. The ticker is urgent
(time does not pass Period without it), and a run takes at most Delay, retries
included, because each attempt has a deadline. The goroutine checks the cached
Secret, requests a token, reads, creates or updates the Secret and applies the
Deployment with the expiration stamped on the pod template. The cache may be
any time behind (`behind`), and `misled` records how a run has believed it: a
token that looked current and was not any more, a creation of the Secret or the
Deployment that was answered AlreadyExists and swallowed. `ok` and `tampered` are
history: the last run succeeded, and others have damaged the Secret since.

**RouteAttachment, Rendering, Decisions.** A hostname is a sequence of labels; a
certificate name is a number, 0 the empty name; the names a Gateway declares are a
set, since all lists of them end in `sortedUniq`; a Service is its ports. The
backend references of a Route are the pairs of a rule and a place in it, the first
bad one in their order decides. In `Decisions` a state is a call and its result;
its assumptions say which arguments the API server's validation lets through.
`Denotes` gives the concrete names
a hostname means, `Attaches` says that some request reaches the Route through a
listener, ValidatedMeansMounted relates the two functions that read certificate
references, one to validate and one to mount them.

## Runs

| Run | Config | Checks | Bounds |
|---|---|---|---|
| processor | GatewayProcessor | TypeOK, MutualExclusion, NoLostEvent, ImplementsKeyQueue, EventuallyObserved, WindsDown | 2 keys, 3 goroutines, 2 attempts, 1 change per key, any number of refreshes |
| class | GatewayClass | AcceptedUnlessMissed, StampsCurrent, ComesToRest | 5 writes by users or other writers of the status, any relists, 3 attempts, 3 conflict steps, 2 failures |
| status_safety | GatewayStatusSafety | TypeOK, ProgrammedAfterValidation, SettledGateway, StatusWritesAreCurrent | 2 listeners, 4 specs, 2 edits, 2 attempts, 2 conflict steps, 1 failure |
| status_live | GatewayStatusLive | ProgrammedIsStable, EventuallyProgrammed | 1 edit, 1 change of an asset, 1 failure |
| member | MemberCluster | TypeOK, Converged, EventuallyFresh | a Gateway, a Route, a Service, 2 edits, 1 given-up run, 1 restart, any relists |
| routes | RouteStatus | TypeOK, OneEntryPerParentRef, SettledRoutes, OnlyOwnEntriesChange | 2 Gateways, 1 Route that may name two sections of each, 2 writes by users or another controller, any relists, refreshes and failures |
| dataplane | DataPlane | TypeOK, SettledObjects, NoOrphans, OverwritesOnlyOwn | up to 2 Gateways of one name, 2 objects each, 2 edits by users or other managers, 2 attempts, 1 failure |
| istiod | IstiodRefresh | TypeOK, RefreshKeepsMounts, MountsConverge | a Gateway, a policy, the loop and the startup apply, 3 certificates of which two make one volume name, 2 edits by users, other writers or owners, 2 attempts, 1 fault |
| token | MemberToken | TypeOK, TokenValid, RolledWithToken, TokenRecovers | life 6, margin 4, period 3, a run at most 1, 2 attempts, 2 faults |
| decisions | Decisions | HostnamesIntersectIsSetIntersection, AcceptedMeansReachable, ResolvedMeansAllExist, GrantRulesAgree, ValidatedMeansMounted, TemplateIsOfTheSet, PortsKeepNodePorts | names up to 4 labels over 2 letters, 1 or 2 listeners, 1 or 2 references, lists of up to 3 certificates or ports |

What the properties say is in the comment above each. The bounds are enough for
the cases that matter: a change can arrive in every state of a goroutine
(one change and unbounded refreshes set and clear the dirty bit repeatedly), an
edit can fall between any two reads or writes of a reconcile, retries can run
out and can succeed late, and an object can be deleted and come back: a class in
`class`, a Gateway in `member`, `dataplane` and `istiod` (in GatewayStatus it may
only leave our class and return), a Route in `routes`. The retry counts 3 and 5 of the code are lowered where only "some are left" and
"none is left" are told apart. In `istiod` one Gateway is enough for overlaps,
since the loop and the startup apply refresh beside it, and two edits can move a
certificate from the policy to the Gateway. In `token` an hour is a unit, a run
is rounded up to one, and a life of 6 stands for 12: renewals come more often,
and the theorems cover every other choice. In RouteStatus and DataPlane the model
values are symmetric and only safety is checked there. Deadlock is checked in
`istiod` and `token`, whose loops never end; elsewhere the system may stop, once
users do and the processor is cancelled, or every Gateway is gone.

Fairness. Goroutines that exist are scheduled; a reconcile call returns because
its context has a deadline of 30 seconds; timers and tickers fire, the resync
loop's among them, and time passes; watches deliver, caches catch up and
informers call their handlers; the infra cluster brings up what was applied.
Success is never assumed: where liveness is checked, failures are bounded in number, not by fairness. The
users owe nothing. The liveness of Programmed and of the token rests on the
three-hour refresh, that of the mounts on the resync loop; without them TLC finds
counterexamples. TokenRecovers says that a token that is not valid is replaced,
and no more: since a cache may lag for any time, a token may run out again and
again before the cache shows how old it is.

### Where the code and its documents disagree

| Run | What TLC shows | The document |
|---|---|---|
| status_unvalidated | a spec edited during the wait is marked Programmed by the reconcile of the old spec, and stays so although its own validation fails | README.md:46 of the repository |
| member_orphans | infra objects of a Gateway deleted while no leader runs stay | docs/design.md:78 |

The models also contain, without a run of their own:

- an event for a class whose goroutine is ending is dropped by LoadOrStore, and
  a class created again at that moment is never accepted (docs/design.md:489); a
  class created again in a gap of the watch, or whose condition another writer
  takes away, is not accepted again either, as objectChanged drops the update and
  classes have no periodic refresh (AcceptedUnlessMissed excepts these and
  exhausted attempts, and nothing else);
- updates of Services, Secrets, ConfigMaps and Namespaces, which have no
  generation, trigger no refresh (docs/design.md:120; Fresh excepts it);
- the apply at startup names no certificate, although the comment at main.go
  215-217 speaks of the initial union: a restart takes all mounts away until
  a refresh succeeds (RefreshKeepsMounts excepts `"boot"`, MountsConverge covers it);
- ResolvedRefs=False may not be written, because MarkListenerResolvedRefs
  compares with a cache that does not show yet what MarkAccepted wrote a moment
  before (docs/design.md:498);
- a cleanup deletes an object that a Gateway with a colliding name has taken over
  since the read, as the deletion has no precondition (docs/design.md:161);
- a Deployment of Istiod that another manager has labelled is refused by every
  refresh, so that it keeps its mounts for good (MountsConverge excepts it);
- a Service that Apply takes over from somebody who gave its ports other names
  has new NodePorts allocated, since servicePortMatches compares names when both
  have one (PortsKeepNodePorts excepts it);
- two certificates whose names make one volume name block every refresh of
  Istiod, for all Gateways, until one of them is gone;
- a token whose creation is answered AlreadyExists is lost, and its expiration
  is stamped on the Deployment all the same;
- only the first of several bad certificate references is reported; a class
  re-created for another controller between the two reads of the class goroutine
  is accepted; parent entries of a deleted Gateway stay on Routes.

## Proofs

`GatewayProcessor_proofs` proves, for any sets of keys and goroutines and any
number of attempts and changes (assumptions: NoKey is not a key, MaxAttempts is
a positive number, MaxChanges a number):

- `TypeCorrect`: `Spec => []TypeOK`;
- `MutualExclusionHolds` and `EntryMeansGoroutineHolds`: the two are inductive
  only together. An entry of the map has to imply a goroutine for `enqueue` to
  be right in starting none, and a goroutine has to be the only one for `run` to
  be right in deleting the entry;
- `NoLostEventHolds`: on top of these, NoLostEvent needs that what an attempt
  read, and what was served or abandoned, is never newer than the world. The
  interesting step is `Settle`: a goroutine that has settled with a stale read
  leaves a set dirty bit behind, since the change came after its read and its
  event found the key running;
- `RefinesKeyQueue`: `Spec => ImplementsKeyQueue`, where a key is queued if its
  goroutine has made no attempt since it was started or restarted, and busy
  after that.

`ClassAndDecisions_proofs` proves two sets of theorems; the modules they are about
have no name in common. Of GatewayClassProcessor, for any number of edits, failures,
attempts and conflict steps (assumption: the last two are positive):

- `TypeCorrect`: `Spec => []TypeOK`; that RetryOnConflict keeps within its steps
  needs that a call is made only while one is left (`StepsLeft`);
- `AcceptedUnlessMissedHolds`: once the cache shows the newest version and nothing
  was missed, that version is accepted or a handler call or a goroutine is still
  to look at it (`NewestIsHandled`). Whatever version a watch or a relist shows, it
  has a new generation and its handler is called, or it is accepted, or `missed`
  records it (`DeliverClass`);
- `StampsCurrentHolds`: only WriteStatus changes the class without a user, and it
  stores the newest version with its own generation stamped.

Of Decisions, whose specification is `CallSpec`, for hostnames, listeners, rules,
references, grants and lists of any number and length. The assumptions are what
validation by the API server gives: lists are numbered, a field that is set is
not Nil, a Gateway has a listener. Beyond that the set of names is large enough
for every hostname to stand for one, and the ports of the current Service are
distinct and have any names, except that one named p-<number> has that number. The invariant
(`CallInv`) says that a result is that of the call; the rest is about operators:

- `HostnamesIntersectHolds` and `AcceptedMeansReachableHolds`: a wildcard stands
  for the names that end in its tail and are longer (`WildcardDenotes`), and of two
  tails that end one name the shorter ends the longer (`EndsFacts`). So if two
  hostnames share a name, they are equal or one covers the other (`SharedIsCovered`),
  and the one that is covered stands for a part of what the other does
  (`CoveredDenotes`);
- `ResolvedMeansAllExistHolds`: if a reference is bad there is a first bad one
  (`FirstPlace`, from the well-foundedness of `<`), and its status is not
  ResolvedRefs; a good one is a Service port that exists;
- `GrantRulesAgreeHolds` and `ValidatedMeansMountedHolds`: the two copies of each
  rule, case by case;
- `TemplateIsOfTheSetHolds`: `Ascending` lists each element of a finite set once
  (`AscendingLists`), since such a list exists for every finite set of numbers
  (`ListExists`, by induction on the cardinality);
- `PortsKeepNodePortsHolds`: the places where a port occurs first give every port
  once (`RenderedPorts`), and servicePortMatches pairs a rendered port with a
  current one exactly if the numbers agree and the current one has no name or the
  rendered one (`PortsPaired`).

`DataPlane_proofs` proves, for any number of Gateways that share an object name,
any sequence of kinds and any bounds (assumptions: Kinds is a sequence that is
not empty, the bounds are numbers and MaxAttempts is positive):

- `TypeCorrect`: `Spec => []TypeOK`. That attempts stay within their bound needs
  that a goroutine is off with a count of 0 unless its key is busy
  (`OffUnlessBusy`);
- `OverwritesOnlyOwnHolds`: `Spec => OverwritesOnlyOwn`, from the invariant
  `SafeToUpdate`: an update whose resourceVersion is still the newest was decided
  on a version that another manager has not labelled, since reading and deciding
  saw the newest version and every later write makes the update fail. The lemmas
  on `Last` say what storing and delivering a version do to the newest one;
- `NoOrphansHolds` and `SettledObjectsHolds`, both from `ObjectInv`: a run that
  was not misled leaves every object it has passed as its generation asks for
  (`PassedInv`), that generation is the last one or the dirty bit is set
  (`CallInv`), and so the objects are right when no run is left to do (`RestInv`).
  What a Gateway may count on (`Asked`) differs: while it shares its name another
  Gateway may overwrite what it applied, but never with its annotations, so a
  cleanup is final in any case. Therefore the second theorem speaks of Gateways
  that are alone and the first of all.

`MemberCluster_proofs` proves, for any three disjoint sets of Gateways, objects
with a generation and objects without one, and any bounds:

- `TypeCorrect`: `Spec => []TypeOK`;
- `ConvergedHolds`: for every input of a Gateway, the cached version is known to
  the Gateway's run or data plane, or an event that makes it known is still to
  come (`PresentKnown`, `GoneKnown`). The delicate steps are the handler calls
  that objectChanged drops: successive versions of an object with a generation
  differ in what it compares (`ChangesShow`), so what is dropped is a relist that
  `missed` records or an update of an object without generation, and for those
  only the existence is claimed (`Same`).

`GatewayStatus_proofs` proves, for any number of listeners, any references and
specs and any bounds (assumptions: NoRef is not a reference, specs are well
formed, MaxAttempts and ConflictSteps are positive), from `GatewayInv`:

- `TypeCorrect`: `Spec => []TypeOK`;
- `ProgrammedAfterValidationHolds`: a run past the validation has put its
  generation into `validated`, and generations go up (`ValidatedFirst`,
  `GenerationsGoUp`);
- `SettledGatewayHolds`: if no newer generation is on its way and no event is
  left, the run has read the last version and what it has done is done for it
  (`Settling`). The difficulty is a Mark function that finds nothing to write in
  an old version of the cache: what one version of a generation shows, the newest
  shows too (`NothingUndone`), so skipping the write is right;
- `StatusWritesAreCurrentHolds` and `ProgrammedIsStableHolds`: only the three Mark
  updates store a version without a user (`WhoStores`), each sends back the version
  it read and lands only if that is the newest (`ReadInv`, `ReadIsNewest`), and each writer is `Faithful` to the version it is
  given: it keeps generation and spec, stamps what it changes, and resets
  Programmed only if it was not True for this generation.

`RouteStatus_proofs` proves, for any Gateways and Routes, parent lists of any
length and any bounds (assumptions: ConflictSteps is positive, a Route's parentRefs
differ), from `RouteInv`:

- `TypeCorrect`: `Spec => []TypeOK`;
- `OneEntryHolds`: the list written for a Gateway has its own entries removed and
  those of one run of routeParentStatuses added (`OfOneRun`);
- `OnlyOwnEntriesChangeHolds`: removing the entries for one Gateway and appending
  its own leaves the entries of all others as they were, in their order. These lemmas
  on `Keep` are proved by induction on the length of the list;
- `SettledRoutesHolds`: as for GatewayStatus, a run that finds nothing to write in
  an old version must be right about the newest one (`NotUnsaid`), which needs
  that no entry comes from a later generation of the Gateway than the run's
  (`EntriesUpTo`). Since a Route that is created again starts from generation 1,
  this is said of the versions that share the newest one's generation with all
  versions in between (`Recent`). What a write sends back is the newest version
  (`ReadInv`).

`IstiodRefresh_proofs` proves, for any Gateways, policies and certificates, any
sets of declarations and any bounds (assumptions: Gateways, policies and the two
other refreshers are different, declarations are sets of certificates,
MaxAttempts is positive):

- `TypeCorrect`: `Spec => []TypeOK`;
- `RefreshKeepsMountsHolds`: what has been declared since a refresher began is in
  what it has listed: of Gateways after the first list (`GatewaysListed`), of
  policies too after the second (`AllListed`). That needs `StillThere` (what is
  counted as steady is declared) and `OnlyOurs` (a Gateway that is not ours, which
  the list skips, declares nothing that counts).

`MemberToken_proofs` proves, for all times with Period + Delay <= Refresh and
Refresh + Delay < Life (`TimesAssumption`; 3 hours, 2 minutes, 4 and 12 in the
code) and any number of attempts and faults:

- `TypeCorrect`: `Spec => []TypeOK`;
- `TokenValidHolds`: a token granted in a run is younger than the run
  (`GrantedInRun`), so at the end of a run that found or made a current token it
  had more than the margin when the run was queued (`CurrentInRun`), and at the
  latest one period later the next run is queued (`CurrentAfterRun`). An old cache
  is harmless because a token in it has less time left than the real one
  (`CacheBehind`);
- `RolledWithTokenHolds`: what a run that was not misled has in hand when it
  applies the Deployment is the Secret's token (`StampInHand`).

Each theorem is the initial condition, one lemma that goes through the actions
and a last temporal step. TLC finds the inductive invariants to
hold on the instances of the runs, too (`NotUnsaid` of RouteStatus_proofs with a
bound in place of its quantifier over the numbers). Induction over data is stated
about sets and not about predicates: a set of sequences that holds the empty one
and with each sequence the one that is longer by an element holds them all
(`SequenceInduction` in RouteStatus_proofs, from the well-foundedness of `<` on
the numbers; `NumberInduction` in ClassAndDecisions_proofs is the same for sets of
numbers).

Model-checked only are the liveness properties, since fairness and ENABLED are
out of the prover's reach: EventuallyObserved, WindsDown, ComesToRest,
EventuallyProgrammed, EventuallyFresh, MountsConverge, TokenRecovers. Every other
property of a run that passes is stated by a theorem.

## Not modelled

- Constant layout in `provisioner/render.go`: containers, probes, security
  contexts, platform switches, defaults. What other parts depend on is in
  Rendering (names, order and hash of certificates, ports), DataPlane and
  IstiodRefresh (names that collide) and MemberToken (the stamped expiration).
- Pods and rollouts: that one missing Secret keeps new Istiod pods from starting
  although validation failed only for one Gateway, and that an available replica
  of the old ReplicaSet satisfies waitForAgentGatewayAvailable.
- `EnsureNamespace` and `gatewayHasMatchingListener`, which nothing calls.
- The xDS echo tool, scripts, manifests and the conformance harness, which keep
  no state of the controller; flags, logging and the reading of the kubeconfig,
  whose failure ends the process.
- Leader election is trusted to elect one leader at a time. Member caches are
  started without waiting for them, but their reads block until they are synced,
  so no model lets a reconcile read an empty cache.
- The policy List whose error backendTLSPolicyCACertNames swallows fails only when
  the context has ended, and then the write that follows fails too.

## Plan

1. Done: KeyQueue, GatewayProcessor, GatewayClassProcessor, GatewayStatus,
   MemberCluster with relists, RouteStatus, DataPlane, IstiodRefresh, MemberToken,
   RouteAttachment, Rendering and Decisions; the proofs of all safety properties
   and of the refinement of KeyQueue.
2. Open: the hazards in `PROJECT.json` that have a note and no property, above
   all pods and rollouts in the infra cluster.
