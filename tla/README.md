# A TLA+ model of the SkyWalking Cloud on Kubernetes operator

SWCK is a Kubernetes operator (`operator/`) that runs Apache SkyWalking from
custom resources (CRs), a webhook that injects the Java agent into pods, and a
custom metrics adapter (`adapter/`). The modules here model all three: the
engine that turns a CR into cluster objects, the reconcilers around it and the
admission webhooks in front of it; the injector with the reconciler that counts
its pods; and the adapter. TLC checks each module on a small instance. TLAPS
proves for every instance all the safety properties the runs check, and that
the engine and the adapter's registry each implement an abstract specification
(section 4).
`PROJECT.json` maps each definition to the lines it models and lists the
hazards each property is for.

## 1. Inventory

| Component | State it keeps | Operations | Hard because |
|---|---|---|---|
| Apply engine (`pkg/kubernetes`) | the objects of the cluster, each with a version annotation | `ApplyAll`, `Apply`, `apply`, `compose`, `hash` | several API calls per pass, any may fail; other writers in between; updates name no resourceVersion |
| OAPServer, UI, Satellite, BanyanDB, Fetcher reconcilers | the CR's status; nothing in memory | `Reconcile`, `InjectStorage`, `checkState`, `updateStatus` | CR read from a lagging cache; deleted and recreated CRs; own writes wake the reconciler; errors collected, logged or hidden |
| OAPServerConfig reconciler | a ConfigMap, an overlay (environment, mounts, label) on Deployments of others, status | `Reconcile`, `OverlayEnv`, `OverlayStaticFile`, `checkState` | a second controller writes the same Deployments; delete-then-create of the ConfigMap |
| OAPServerDynamicConfig reconciler | a ConfigMap per configuration, status | `Reconcile`, `UpdateDynamicConfig` | delete-then-create; configurations that exclude each other |
| EventExporter reconciler | a ConfigMap named by a digest, its name in the status, a Deployment | `Reconcile`, `overlayData`, `checkState` | four calls that must all succeed; the status update may conflict |
| Storage reconciler | StatefulSet, certificate request, secrets, status | `Reconcile`, `createCert`, `checkSecurity`, `checkState` | waits for an approval it gives itself; secret deleted and created |
| Admission webhooks of the CRs | none; decide what is stored | `Default`, `ValidateCreate`, `ValidateUpdate` of eleven kinds | run again at every update, over values that earlier runs left |
| Java agent injector (`pkg/operator/injector`) | none; what it knows is what the pod carries | `Handle`: a chain of six steps, overlays by priority | called again at every update; each step may end the chain; SwAgents change meanwhile |
| JavaAgent reconciler | a JavaAgent per group of pods, with two counters | `Reconcile`, `UpdateStatus`, the event filter | set off by pods, not by its CR; deletions are filtered out; no requeue after success; the CR goes with the first pod's workload |
| SwAgent reconciler | none | `Reconcile` is empty | |
| Custom metrics adapter | registry of metric definitions, refreshed by a goroutine | `sync`, `updateMetrics`, `GetExternalMetric`, `ListAllExternalMetrics` | one request reads the registry under a lock and one without; OAP fails or is silent |
| Manifest repository, `main.go`, generated code | none | | |

The reconcilers do not call each other; they interact through the cluster. The
OAPServer reconciler reads Storage CRs; OAPServerConfig writes the Deployments
the OAPServer reconciler renders; each reconciler is woken by the watch on its
CR, by the watches on some of the objects it writes (`Owns`) and by
`RequeueAfter` a minute (`schedDuration`) after every success; an error puts
the request back into the queue. A controller has one worker. Webhooks decide
what specs reconcilers ever see. The JavaAgent reconciler sees of the injector's
work the annotation "succeed" on pods. The adapter shares nothing with the
operator; it talks to OAP and answers autoscalers.

What makes the components correct: a pass that ends well has left nothing out;
objects always stem from a CR version that was stored, and do not go back in
time; after the last change everything follows it and the operator comes to
rest; controllers that share an object do not undo each other's work; a status
reports what the cluster had; stored CRs are defaulted, stably, and valid; a
pod has the whole agent or nothing of it; the adapter's answers come from one
list of OAP's, and from the right entity.

## 2. Modules

| Module | Models | Run by |
|---|---|---|
| `Application` | apply engine and the common Reconcile loop: queue, cache, watch, requeue, Storage injection | `MCApplication` |
| `DesiredState` | abstract: versions of CRs, and which version each object is from | `MCApplication` (refinement) |
| `Application_proofs` | theorems about `Application` | tlapm |
| `OAPServerConfig` | OAPServerConfig reconciler composed with the OAPServer reconciler (reduced to its Deployment) | `MCOAPServerConfig` |
| `EventExporter` | EventExporter reconciler | `MCEventExporter` |
| `StatusReport` | `checkState`/`updateStatus` of OAPServer, UI, Satellite, BanyanDB | `MCStatusReport` |
| `FetcherStatus` | `UpdateStatus` of the Fetcher | `MCFetcherStatus` |
| `OAPServerDynamicConfig` | OAPServerDynamicConfig reconciler | `MCOAPServerDynamicConfig` |
| `Storage` | Storage reconciler: certificate, credentials, StatefulSet, status | `MCStorage` |
| `Admission` | `Default`/`validate` of all kinds and the API server's admission order | `MCAdmission` |
| `Injector` | the webhook for pods, and the API server and users around it | `MCJavaAgent` |
| `JavaAgent` | JavaAgent reconciler, composed with `Injector` (EXTENDS) | `MCJavaAgent` |
| `Adapter` | custom metrics adapter with OAP and its requests | `MCAdapter` |
| `MetricRegistry` | abstract: one list of metrics, replaced and read at once | `MCAdapter` (refinement) |
| `Storage_proofs`, `OAPServerConfig_proofs`, `EventExporter_proofs`, `OAPServerDynamicConfig_proofs`, `Adapter_proofs` | theorems about the module of that name | tlapm |
| `StatusReport_proofs` | theorems about `StatusReport` and `FetcherStatus` | tlapm |
| `Webhooks_proofs` | theorems about `JavaAgent` with `Injector`, and about `Admission` | tlapm |

Conventions. Every API call of a reconcile is one action; everything else in
the cluster may happen between two of them. `pc` names the call that comes
next. `CallFails` is a call that fails without effect, `ReplyLost` one that is
carried out while its caller sees an error, `Crash` a restart of the operator:
memory is gone, caches are listed afresh, every CR is queued. Users' steps are
counted in `edits`, failures in `faults`; `MaxEdits` and `MaxFaults` are the
bounds. A definition `X_Something` marked *Mutant* is a plausible bug in `X`,
not part of any specification. `FetcherStatus` and `Admission` have
specifications of their own name (`FetcherSpec`, `AdmissionSpec`), and
`FetcherStatus` variables of its own, since a module of proofs extends them
together with another component.

### Application

`log[c]` is the history of CR `c` on the API server (a deletion is a version);
`cache[c]` is how far the informer cache has followed it; the CR a reconcile
works with is a position `seen` in it. `objects` maps a key (CR and manifest,
or a fixed name for cluster-scoped manifests) to an object: content, metadata,
version annotation and owner UID, plus two auxiliary fields that say where it
came from. `Template` is any function from CR, manifest, spec and storage to a
manifest, nothing (`ErrNothingLoaded`) or a failure.

| Action | Code |
|---|---|
| `StartReconcile` | `Reconcile`: `Get` of the CR from the cache; one that is gone ends the reconcile |
| `InjectStorage` | `InjectStorage`/`ConfigStorage`; a failed read is logged only: without the Storage nothing is injected, without its secret the rest of it (`WithoutLogin`). `storage` is what the cache shows of the Storage CR and its secret |
| `ApplyTemplate` | `Apply`: the template renders to nothing (skipped) or fails |
| `ApplyGet` | `apply`: `Get`, compare the version annotation, choose create, update or neither |
| `ApplyWrite`, `ApplyRejected` | `apply`: `Create`/`Update`, or AlreadyExists/NotFound |
| `CheckState` | `checkState` and `RequeueAfter`; what it writes is in `StatusReport` |
| `Observe`, `RequeueAfter` | controller-runtime's watch and delayed queue |
| `CreateCR`, `UpdateCR`, `DeleteCR`, `ChangeStorage` | users |
| `DeleteObject`, `Drift`, `Annotate`, `GarbageCollect` | other writers of the objects |

The reads of `apply` are unstructured and therefore bypass the cache. The
digest is taken to be injective in the content it covers (everything but kind,
apiVersion and metadata). The owner reference of a cluster-scoped object names
a namespaced CR, which the garbage collector does not act upon. `apply` itself
has no branch for "unchanged content but other owner": an object whose CR was
deleted and created again with the same spec keeps the old owner until the
garbage collector removes it and the next pass creates it anew; `Converges`
covers this.

### DesiredState

What users may rely on while the operator works, without caches, queues, passes
or crashes: a history of versions per CR, and for each of its own (not
cluster-scoped) objects the version it comes from, or none. One object at a
time is put in place (`Place`), from a stored version that renders it, and only
if no object of the CR is from a newer one; objects may go away (`Remove`);
users store versions (`Submit`). `Application` implements it with its `log` as
`versions` and the auxiliary `src` of each object as `placed`; edits of others
that leave an object's origin alone are stuttering. It is the promise that a
CR's objects may be of several versions during a roll-out, but never move
backwards, also across crashes: the mutant whose restart lists an old cache
breaks it.

### OAPServerConfig

`dep[s]` is the Deployment of OAPServer `s`: the version annotation (by the spec
it was rendered from), environment, label `md5-env`, mounted files. `cm` is the
ConfigMap. `OAPServerGet`/`OAPServerWrite` are the other controller, which
overwrites without a resourceVersion. `StartReconcile`, `GetDeployment`,
`GetConfigMap`, `DeleteConfigMap`, `CreateConfigMap`, `UpdateDeployment`,
`CheckState` are one pass of the OAPServerConfig reconciler, server by server.
Its `Update` carries the resourceVersion of the cached copy; `copyFresh` says
whether that is still current. Pods that come and go change the status of the
Deployment and with it the resourceVersion (`PodsChange`). A Deployment that is
not found leaves an empty one whose first container is indexed: the panic is
recovered by controller-runtime and counts as an error.

### EventExporter

A pass is `StartReconcile` (returning early when the status already names the
ConfigMap), `CreateConfigMap`, `GetOldConfigMap`, `DeleteOldConfigMap`,
`ApplyAll` (reduced to the Deployment), `CheckState`. `CheckState` writes the
status for two reasons: it does not name the ConfigMap yet, or it does not have
the conditions and replicas which the Deployment reports (`report`, changed by
`PodsChange`). A status is stored only if the cache has reached the last version
of the CR; its spec is then that version's, while the name in the status is of
the version the pass began with. `raced` remembers who did not wait: users who
made a change before the last one was installed (`Installed`), and pods that came
or went between the submission of a configuration and its rendering. `Awaited`
are the executions without faults and without the former, `Undisturbed` those
without the latter too.

### StatusReport and FetcherStatus

The histories of the CR's status and of the Deployment are sequences with a
cache position each. The four reconcilers differ in whether a missing object is
an error, whether there is a Service and whether external IPs are reported.
`DeepDerivative` is modelled by what it does: a zero field is not compared, a
list, of conditions or of IPs, only as a prefix. The ports of a UI are left out:
they follow the Service as its address does. `RetryOnConflict` has no effect because the
`ErrorCollector` turns a conflict into a new error. In the Fetcher, the
condition that exists is changed in a copy and written back unchanged, and
every error of the update is reported as a success.

### OAPServerDynamicConfig

`cms[c]` is the ConfigMap of CR `c`: data (by its MD5), labels, version label
and owner UID. A pass is `StartReconcile`, then for each OAPServer of the
version `CheckConfigMap` (the refusal of names other CRs define, the `Get` and
the comparison), `DeleteConfigMap` and `CreateConfigMap`, and at the end
`CheckState`. Reads come from the cache and consecutive ones are one step. CRs
and OAPServers are as the cache shows them, since a cache that lags is an edit
that comes later; only the status update depends on what the API server has,
and is refused unless the copy is `fresh`. `touched` remembers the CRs users
edited during the pass.

### Storage

A pass is `createCert`, call by call (`GetSecret`, `DeleteCSR`, `CreateCSR`,
`ApproveCSR`, `PollCSR`, `DeleteSecret`, `CreateSecret`), which any error ends
without an error of the reconcile; `CheckSecurity`, which gathers the
environment; `ApplyAll`, reduced to the StatefulSet; `CheckState`. Keys are
compared only, so a new key is any that nothing holds. `expiring` is "ends
within 24 hours", and `Expire` the time that passes. `up[c]` is
`ReadyReplicas == Replicas`, which a missing StatefulSet satisfies.
`userFirst` is the order in which Go visits the two keys of the user's secret.
The signer, and that the service name of a StatefulSet cannot be changed, are
Kubernetes'. In this module CRs are read as in `OAPServerDynamicConfig`.

The owner reference of the StatefulSet has the UID of the CR that the pass read.
`stale` says that this CR was deleted since, whether or not there is a new one of
its name; a set that is then applied (`Applied`) is an `orphan`, like those that
were there when the CR was deleted, and `GarbageCollect` takes it. An `Update` by
a later pass gives it the owner of that pass.

### Admission

One object of any of the eleven kinds goes through creates, replacements,
patches of one field and deletes. Each write is defaulted and then validated;
`ValidateUpdate(old, new)` validates its first operand, as the code does.
Defaulting that writes into absent annotations panics: the request is denied.

### Injector and JavaAgent

`Handle(pod, sw)` is the whole chain as a function of the pod and of the SwAgent
that is used: `GetInjectStrategy`, `OverlaySwAgentCR`, `OverlaySidecar` (with
the validators), `OverlayAgent`, `OverlayPlugins` with `OverlayOptional`, and
`Inject`. Annotations are a function on the keys that are present; of a value
counts whether it is empty, refused, or somebody's. The SwAgents are listed in
no fixed order, so that "the last that matches" is any that matches, and a List
that fails counts as none. `CreatePod`, `CopyPod` and `UpdatePod` are requests
to the API server, which calls the webhook and refuses an update that changes
the spec. The annotation "succeed", by which the webhook knows an injected pod,
is the user's to edit like any other: pods may be submitted with it, and an
update may set or drop it. The auxiliary `meddled` marks pods with which this
happened. `Fold` is what `strings.EqualFold` makes of names. A copy is submitted
with the annotations of the original; a copy of an injected pod from which the
annotation was taken before it is submitted would be injected a second time, and
is not modelled.

In `JavaAgent` pods are cached (`podCache`), filtered (`Passes`) and queued; a
pass is `StartReconcile`, `ApplyGet`, `ApplyCreate`, `CountPods`,
`WriteStatus`. A cached JavaAgent is current or not (`agentFresh`). `Groups`
are the values of the first label, by which pods are counted. `Resync` is the
informer's periodic report of every pod, without which a JavaAgent that was
just created would have no counters.

### Adapter

`metricDefines` is a slice, which the refreshing goroutine stores, and requests
load, as two words in either order. `Refresh` is `Tick`, `ListMetrics`,
`LockRequest`, `LockAcquire`, `StoreHalf`, `StoreRest`, `Unlock`. A request for
the list is `List`, `RLock`, two `ReadWord`, `Collect`, `RUnlock`; one for a
value `Get`, two `ReadWord` without the lock, `Lookup` (up to the call of OAP),
`Query`, `Reply`. A length beyond the array reads memory that is not the
list's: any definition, none, a recovered panic, or the end of the process
(`LookupDies`). `since` collects the lists the registry had while a request read
it. `restarts` counts how often the process was stopped, which `MaxRestarts`
bounds, and how often it died. `ExtractValue` is the loop of `Extract` over the
requirements of the selector; a string is a sequence of pieces and `Hex` is
hexadecimal decoding.

### MetricRegistry

What those who list the metrics may rely on, without the lock, the two words of
the slice, the goroutine and OAP's failures: there is one list, which is
replaced as a whole (`Replace`), and never by an empty one; a request is
answered (`Answer`, `Done`) with the names the list has at one moment; and only
a restart forgets the list. `Adapter` implements it with `TheList`, which counts
as replaced with the first of the two stores, and with the answers of the
requests for the list. Requests for a value are not part of it: they take no
lock, and `GetExact` is what can be said of them. An update that let an empty
answer of OAP through would break it.

## 3. Runs

| Run | Shows | Bounds |
|---|---|---|
| `application` | `PassComplete`, `Provenance`, `NoRollback`, `ImplementsDesiredState`; `Converges`, `Quiesces` | 2 CRs, 3 specs (plain, with a host, failing), 3 manifests, a storage with or without its login or none, 3 edits, 1 fault |
| `oapserverconfig` | `LabelIsHonest`, `NoRevert`; `EnvConverges`, `ConfigMapConverges`, `NoFight` | 2 OAPServers, 2 specs, environments and file sets; 2 edits, or 1 and a fault; the second edit comes at rest, or is a change of the pods |
| `oapserverconfig_files` | violation: mounts are lost with a new rendering | 1 OAPServer, 1 edit |
| `eventexporter` | `MountedExists`, `OneConfigMapAtRest`; `ConfiguredUndisturbed` | 3 configurations, another field, 1 report of the pods or none, 3 edits of which two may be faults |
| `eventexporter_raced` | violation: a conflicting status update wedges the reconciler, although users wait for each rendering | 2 configurations, another field, 1 report of the pods or none, 3 edits |
| `statusreport` | `NeverMixed`; `Reported`, `Quiet` | 4 reconcilers, 2 conditions, 1 replica, 2 IPs, 2 edits, 1 fault |
| `fetcherstatus` | `ConditionWasTrue`, `Recorded` | 4 edits, 3 faults |
| `oapserverdynamicconfig` | `NoNewDuplicate`; `Installed`, `StateReported` | 2 CRs, the name of one within the other's, 2 data sets and versions, 2 OAPServers of each version, 2 edits, 1 fault |
| `storage` | `CertFitsKey`, `GoesWithItsStorage`, `KeepsValid`; `Issued`, `Configured`, `ReadyReported` | 1 Storage in 3 forms (user from a secret; tls and default user; external), 2 credentials, 4 keys, 3 edits, 1 fault |
| `admission` | `Defaulted`, `DefaultsSuffice` | every kind and combination of set and unset fields, 3 versions |
| `javaagent` | `AllOrNothing`, `UserEnvKept`, `NothingLeftToInject`; `CountersConverge` | 2 pods with 2 containers of one group from 2 workloads, 8 ways to submit the first, 4 relabellings, 1 SwAgent in 2 forms, 3 edits of which one may be a fault |
| `adapter` | `Assembled`, `ListIsSnapshot`, `ImplementsRegistry`, `GetExact`; `Follows`, `Answered` | 1 request of each kind, 4 lists of definitions, 9 selectors, 2 changes of OAP or 1 and a restart |

Each property has a mutant that breaks it under the same configuration. The
`TypeOK` of each module is proved (section 4) and not listed with the runs.

*Why the bounds are enough.* In `application` three manifests are one of each
sort the templates have: cluster-scoped with a fixed name; owned, watched and
dependent on the storage; optional and unwatched. Two CRs make the worker
alternate and meet at the shared object. Three edits reach create, change,
change back; create, delete, create again; and create with two outside
interferences. One fault at every possible call suffices to meet each recovery
path; after a fault all worker state is gone, so that a second one starts from a
state that edits reach too. In `oapserverconfig` two servers share the pass and
the ConfigMap; a second edit only waits until the first has been dealt with
(`AtRest`), and edits during a pass are those of the first. In `eventexporter`
three steps reach a configuration that is changed and changed back, a pod
between two changes, and a fault behind each call of a replacement. In
`statusreport` two edits give the Deployment and the status three versions,
enough for a status to be written over a newer one or to be mixed from two. In
`oapserverdynamicconfig` two edits let both CRs change during one pass, and two
OAPServers make the loop go round with a cache that does not show the ConfigMap
the first round made; a selector that does not parse is refused where a
collision is, and is not submitted. In `storage` one CR suffices: a second one
would share the worker and the secret, which is what two passes for one CR do;
three edits reach put or issue, expire, drop, and every change between two calls
of `createCert`. In `javaagent` three edits reach create, create, delete;
create, copy or relabel, change the SwAgent; and a fault at each call of a pass
beside two of them; the second pod need only be there to be counted and is
submitted in one way. In `adapter` one request of each kind suffices: requests
do not touch each other's state, and readers share the lock; two changes make
three lists follow one another within one lookup. Only the request with the long
selector races with the others, the other selectors are looked up alone, since
what labels come to does not depend on the registry. In `fetcherstatus` the
bounds are simply generous. `admission` has no bound on the length of an
object's life.

*Fairness.* A worker goes on while it can (`WF` on its steps): Go schedules
goroutines, and each call ends or times out. The work queue is first in, first
out, so a CR that waits is taken although the worker is busy again and again
(`SF` on `StartReconcile`, on `OAPServerGet`). Watches, timers, caches and the
garbage collector deliver (`WF`), and the cluster's signer signs what is
approved. Every path of the `Reconcile`s but the JavaAgent's ends in
`RequeueAfter` or an error, so there is a next reconcile: this is the `timer`
and `queue` of `Application`, and the unguarded `StartReconcile` of the other
modules. The JavaAgent reconciler has no requeue; it rests on the informer,
which reports every pod again each `SyncPeriod` (`WF` on `Resync`), and on the
queue (`SF` on `StartReconcile`). In the adapter goroutines go on and the ticker
ticks (`WF`); a call of OAP returns unless OAP is silent, in which case nothing
is assumed; Go's `RWMutex` lets waiting readers in before the next writer (`SF`
on `RLock`). Nothing is assumed of users, failures and crashes, which the bounds
end.

*Deadlock* is checked everywhere but in `MCApplication`,
`MCOAPServerDynamicConfig`, `MCStorage` and `MCJavaAgent`, where the system may
really stop: once every CR is deleted (or external), or no pod is left, nothing
is queued and no timer runs.

## 4. Proofs

Nothing in a theorem is bounded: CRs, servers, pods, containers, requests,
specs, lists, edits and faults are as many as the constants say, which are any
that satisfy the assumptions below.

| Module | Theorem | Statement |
|---|---|---|
| `Application_proofs` | `TypeCorrect` | `Spec => []TypeOK` |
| | `PassIsComplete` | `Spec => []PassComplete` |
| | `ObjectsAreGenuine` | `Spec => []Provenance` |
| | `NoRollbackEver` | `Spec => NoRollback` |
| | `Refinement` | `Spec => ImplementsDesiredState` |
| `Storage_proofs` | `TypeCorrect` | `Spec => []TypeOK` |
| | `CertificateFits` | `Spec => []CertFitsKey` |
| | `ValidIsKept` | `Spec => KeepsValid` |
| | `NoneIsLeftBehind` | `Spec => []GoesWithItsStorage` |
| `OAPServerConfig_proofs` | `TypeCorrect` | `Spec => []TypeOK` |
| | `LabelIsAlwaysHonest` | `Spec => []LabelIsHonest` |
| | `NeverReverts` | `Spec => NoRevert` |
| `EventExporter_proofs` | `TypeCorrect` | `Spec => []TypeOK` |
| | `MountsWhatExists` | `Spec => []MountedExists` |
| | `NoConfigMapLeft` | `Spec => []OneConfigMapAtRest` |
| `StatusReport_proofs` | `TypeCorrect` | `Spec => []TypeOK` |
| | `StatusNeverMixed` | `Spec => []NeverMixed` |
| | `ConditionWasAlwaysTrue` | `FetcherSpec => []ConditionWasTrue` |
| | `FetcherTypeCorrect` | `FetcherSpec => []FetcherTypeOK` |
| `OAPServerDynamicConfig_proofs` | `TypeCorrect` | `Spec => []TypeOK` |
| | `NoDuplicateIsMade` | `Spec => NoNewDuplicate` |
| `Webhooks_proofs` | `PodsAreWhole` | `Spec => []AllOrNothing` |
| | `UserEnvIsKept` | `Spec => []UserEnvKept` |
| | `NothingIsLeft` | `Spec => []NothingLeftToInject` |
| | `TypeCorrect` | `Spec => []TypeOK` (of `JavaAgent`) |
| | `DefaultedAlways` | `AdmissionSpec => []Defaulted` |
| | `DefaultsAlwaysSuffice` | `AdmissionSpec => []DefaultsSuffice` |
| `Adapter_proofs` | `ListsAreSnapshots` | `Spec => ListIsSnapshot` |
| | `GetsAreExact` | `Spec => GetExact` |
| | `EntitiesAreAssembled` | `Spec => []Assembled` |
| | `RegistryIsImplemented` | `Spec => ImplementsRegistry` |
| | `TypeCorrect` | `Spec => []TypeOK` |

*Assumptions.* Each module states what its constants are, by name, and TLC
evaluates it at every run: bounds are natural numbers, marker values such as
`None` are not ordinary values, submissions have the fields of a spec. Three
components say more. `Storage` has at least four keys, as a key is never reused while it is
in use and three may be in use when a fourth is made. In `Adapter` a request
is of one kind, and what OAP answers, a selector and the strings in it are
sequences. In `Injector` a container matcher selects containers of the pod, a
SwAgent has all of its fields, some perhaps empty, and lists of environment
variables are sequences; in `JavaAgent` pods are finitely many and belong to a
workload or none. `Admission` assumes nothing.

### The engine

The inductive invariant `IndInv` of `Application_proofs` adds three facts to the first three
properties. `CacheInHistory`: the cache is a position of the history.
`WorkerInv`: a busy worker handles a version that existed and that the cache
has reached, a pass starts at the first manifest, and what is about to be
written was rendered. `NothingNewer`: no object of a CR was rendered from a
version the cache has not reached, nor, while that CR is reconciled, from one
newer than the version being reconciled. The last is the reason for
`NoRollback`: since the one worker takes the CR from a cache that only moves
forward, what it writes cannot be older than what is there, although `Update`
names no resourceVersion. Neither a crash nor a lost reply breaks it, as the
cache listed afresh is the newest there is. `PassComplete` needs `WorkerInv` to
know that the pass began at the first manifest and `Provenance` needs it to
know that the version rendered was not a deletion. There is one lemma for each
kind of step (`SubmitInd`, `TouchInd`, `ReturnInd`, `AdvanceInd`, `StoreFacts`,
`FrameInd`), and `StepInd` goes through the actions of `Next`.

The refinement follows the same cases. `StoreRefines`: a write of a reconcile
to one of the CR's own objects is `Place` of the version seen, which rendered it
by `WorkerInv` and is not older than the others by `NothingNewer`; a write to a
cluster-scoped object stutters. `SubmitRefines` and `TouchRefines` map users'
and other writers' steps to `Submit`, `Remove` or stuttering, and `StepRefines`
puts them together.

### The other reconcilers

An `IndInv` consists of the property, `TypeOK`, mostly a `WorkerInv` (what the
worker holds at each `pc`), and what follows.

`Storage`. `CertFitsKey` is about two fields of a secret that is written once,
but the two come by different ways: the key from memory, the certificate from a
request that other passes and users may delete and make anew under the same
name. `RequestInv`: a request that is there between this pass's `Create` and the
end of its polling is for the key of this pass; a request somebody else left
was deleted, or its existence ended the pass. That there is a key to make
that is not in use, `FreshKey`, is a pigeonhole argument over the secret, the
request and the worker, which `CertFitsKey` itself takes part in. `RenewInv`, for
`KeepsValid`: until it deletes the secret, a pass that has made a key has found
none or an expiring one, and what is there now is that one, or was placed later.
`OwnerInv`, for `GoesWithItsStorage`: a pass whose CR is not there is `stale`, so
that what it applies is owned by one that is gone.

`OAPServerConfig`. `HonestInv` extends `LabelIsHonest` to all the places a
Deployment goes through: the cache and the worker's copy. `CacheInv`: a cached
Deployment that counts as current is the one at the API server. `CopyInv`: a
copy with a current resourceVersion differs from the Deployment by the overlay
alone; it is what makes `NoRevert` hold, and the OAPServer reconciler, whose
updates name no resourceVersion, keeps it because each of its writes makes the
copy stale.

`EventExporter`. The first half of `MountedExists`, which holds in all executions,
needs that the status names only ConfigMaps that were created (`StatusInv`), as a
pass that returns early takes the name from there. The second half and
`OneConfigMapAtRest` are about undisturbed executions, and their invariant
describes one whole replacement of a ConfigMap. `LagInv`: the cache is at most
one version behind, and behind a pending configuration only if that is the
edit itself. `Settled`: outside a replacement there is the ConfigMap the status
names, and the cache knows it. `PassInv`: a replacement works on the last
version; within one there are the old and the new ConfigMap, and from `apply` on
the new one only. `OldPassInv`: a pass that replaces nothing renders what the
status names, and cannot write a status while a configuration is pending, since
it has nothing new to report. `DepInv`: what is mounted is what the status names,
or the pending one from its rendering on. Without the condition on the pods
`OldPassInv` fails, and the run `eventexporter_raced` shows what comes of it.

`StatusReport`. `NeverMixed` is inductive once it also holds of what the worker
carries from `checkState` to the update. `FetcherStatus` is the same: every
version's condition, not the last one's only, is an outcome or absent, because a
write may copy any version that the cache has shown.

`OAPServerDynamicConfig`. `ClearInv`: between the check and the `Create` no CR
but those edited meanwhile defines a name of the ConfigMap that is coming. The
worker looks once, and acts some steps later.

### The webhooks

`AllOrNothing` is nearly inductive: `Whole` adds which fields a pod has, and the
environment below. The work is in `InjectCompletes`, which goes through the chain
for any annotations and any SwAgent: `Inject` makes a pod that has nothing of the
agent complete, with one init container, one volume, which is the one it fills,
and in each target a mount of that volume and no other, while the other
containers keep the environment they had.

`NothingLeftToInject` is kept by what the API server refuses. `Settled`: where
the chain would go on to inject a stored pod it ends before, at an annotation
that is not valid, and the error is on the pod already. A create settles the pod
(`HandleSettles`), since the annotations that made the chain end are still there.
An update may change every annotation, the injector's own too, but not the spec,
and an injection always shows in the spec (`InjectShows`): an update that makes the
webhook inject is refused, and any other leaves a pod that is settled again
(`UpdateKeeps`). This is also why users cannot bring about a second agent in a
stored pod by dropping "succeed", and the first half of `AllOrNothing` does not
depend on it.

`UserEnvKept` is about the value a container sees, which of several variables
of one name is the last one's. The invariant (`EnvGrown`) remembers that the
environment of a container is the user's own list, unchanged, followed by
variables whose name the list does not have, or which is that of the variable
that loads the agent (`Grown`); the last position of any other name in the list
is then its last position in the whole (`GrownKeepsValues`). That the loop of
`Inject` lets an environment grow in this way, whatever variables the SwAgent
has, is `AddEnvsGrows`, an induction on the turns of the loop.

`TypeCorrect` is by components: pods (`PodsTyped`), users (`UsersTyped`) and the
reconciler (`ReconcilerTyped`), where a cached pod is as typed as the stored one
it once was and a busy worker has a request.

For the custom resources, `AdmissionInv` says that the stored object has the
fields of its kind and is a fixed point of `Default`. One lemma per kind shows
that defaulting is idempotent (what it fills in is never what it would fill in
again); a patch of one field keeps the fields, and is defaulted again.
`DefaultsSuffice` then follows from the fixed point alone: an object with an
empty field would have been changed by `Default`.

### The adapter

Two arguments meet in one invariant. A request for the list holds the read
lock, and `LockInv` keeps the refresher's stores away from it, so that both
words it loads are the registry's (`ListerInv`). A request for a value holds no
lock. Of it is known only that each word it has loaded, and each one it may
load next, is from a list the registry had since the request began (`ReadInv`);
if these have one length, the two words fit. `RegistryInv` says what the
registry is between the two stores: one word of the old list and one of the new.

For the refinement, `FreshInv` adds that what the goroutine is about to store is
not empty, and that a request has an answer only between `Collect` and `RUnlock`.
`StoreHalf` is then a `Replace`, `Collect` an `Answer` (`CollectRefines`: no store
is under way, and what was loaded is the registry as it is now), `RUnlock` a
`Done`, both ways to restart a `Restart`; all else stutters.

`Assembled` compares the loop of `extractValue` with what the selector says.
`EntityInv` reduces it to `ExtractValue(s, k) = Meaning(s, k)` for any
well-formed selector. `FilledStep` is the invariant of the loop: after each turn
the buffer has, at the number of each label met so far, the label's text, and
nothing elsewhere, however often `bufferEntity` has made it longer. The labels
can be listed in the order of their numbers, in one way (`SortedExists`,
`SortedIsChosen`), and a buffer with gaps comes to the same string as the pieces
listed in this order (`BufferJoins`), by induction on the length of the buffer.

### Induction

The induction theorems of the library take a predicate as parameter, which the
provers here cannot instantiate. Its facts on well-founded relations do not: a
set of natural numbers that is not empty has a least element (`Least`), so that
a set with 0 and the successors of its members has all (`Induction`). From this
follows that a loop has a value after each turn (`LoopIsDefined`), which gives a
recursive function its equations, and induction on the number of turns. This is
why the loops of `AddEnvs` and `ExtractValue` are written as recursive functions
on the number of turns, and why `Meaning` chooses an ordered listing instead of
sorting.

### Only model-checked

- All liveness properties (`Converges`, `Quiesces`, `EnvConverges`,
  `ConfigMapConverges`, `NoFight`, `ConfiguredUndisturbed`, `Reported`, `Quiet`,
  `Recorded`, `Installed`, `StateReported`, `Issued`, `Configured`,
  `ReadyReported`, `CountersConverge`, `Follows`, `Answered`): they rest on
  fairness, which is out of the prover's reach.

No safety property is checked by TLC alone.

## 5. What the model assumes

- An API call takes effect at one moment, and none is under way after the
  operator has restarted. (With two operators, or a write that arrives after
  its sender has died, `NoRollback` would not hold.)
- There is one API server, and one worker per controller: no reconciler sets
  `MaxConcurrentReconciles`.
- A cache never goes back, and jumps over versions at will.
- Digests are injective.
- controller-runtime recovers panics and treats them as errors, and calls
  `ValidateUpdate` with the old and the new object in this order.

## 6. Deviations

Violated by what the code does, each with a run and a finding in
`PROJECT.json`:

- `FilesMounted`: file mounts are lost with a new rendering of the Deployment.
- `Configured` of `EventExporter`: a status update that conflicts wedges the
  reconciler. An edit during a pass makes it conflict, and so does the status that
  another pass wrote because pods came or went. In the latter case no call has
  failed and users may have waited for each rendering: the Deployment is rendered
  and as configured (`ConfiguredUndisturbed`), but the status keeps the old name
  and every later pass ends at the `Create`, so that the next change of another
  field is not rendered. Only a new configuration gets past it, and the ConfigMap
  of the last one then stays behind.

Met while modelling, and visible in the properties as what they leave out:

- An object whose template no longer renders is skipped and stays until the CR
  is deleted (`apply.go:82`); `InPlace` asks nothing of such a manifest.
- ClusterRole bindings have one name per kind and the last CR's subject. Two
  CRs of a kind overwrite each other's for ever; `Settled` and `Quiesces` are
  about the other objects.
- An update sends the rendering alone: annotations other tools set are lost.
  An edit that leaves the version annotation is never undone (`drifted`).
- `Ready` of an OAPServerConfig adds up available replicas, whether or not the
  files are mounted.
- `DeepDerivative` does not compare zeros: a Deployment that loses its last
  replica with the same conditions keeps the old number in the status;
  `Reported` is about what is not zero.
- The condition of a Fetcher keeps its first outcome, as a copy of it is
  changed (`fetcher_controller.go:99`), although `fetcher_types.go:58` speaks of
  the latest observations; `ConditionWasTrue` is about any outcome.
- `ValidateUpdate` validates the old object: an update of a BanyanDB to two copies
  is let in, although `validate` "only support[s] 1 copy for now". It is then the
  old object itself, so that no later update is let in. `DefaultsSuffice` is about
  the kinds this cannot happen to.
- Two dynamic configurations with a name in common refuse each other, also when
  one of them is installed already, and a name is defined twice if an edit
  falls between the check and the `Create`. The version label of a ConfigMap is
  not compared, so a CR whose version changes keeps the old label and reads
  Stopped; it reads Running when a ConfigMap's name merely contains its own.
- The times in the statuses of OAPServerConfig, OAPServerDynamicConfig and
  Storage change at every pass: each pass wakes the reconciler again, about once
  a second.
- A Storage is Ready while it has no StatefulSet, and never ceases to be. With
  a user's secret its environment has either order, and the StatefulSet is
  updated whenever the order differs. Changing its `tls` is refused by the API
  server at every pass (the service name is immutable).
- The certificate of a Storage is encoded with the password "skywalking"
  (`storage_controller.go:333`) and decoded with the empty one (line 237), so
  that one the operator made is never renewed; `Issued` speaks of those that can
  be decoded.
- A certificate request that is denied, or never signed, occupies the only
  worker for ever: the loop in `createCert` has no end.
- Changing the kind of a UI keeps the image filled in for the former kind.
- Defaults do not fill in everything that validation asks for of BanyanDB,
  Storage and JavaAgent.

- A SwAgent's `ContainerMatcher` replaces the pod's annotation, and its command
  and arguments are emptied, although docs/java-agent-injector.md:47 puts
  annotations first and SwAgents next. Of several SwAgents that match, which one
  is last is not fixed. The user's own `JAVA_TOOL_OPTIONS` is overridden
  (`UserEnvKept` leaves that variable out).
- A labelled pod that was not injected, for a refused annotation or because it
  was labelled later, cannot be updated with valid annotations afterwards: the
  webhook would change its spec. `NothingLeftToInject` is about updates that
  change nothing the webhook looks at. The same happens to an injected pod when
  "succeed" is dropped and the label kept. The error annotation is never taken
  away.
- A JavaAgent's configuration is never updated, since it has no version
  annotation. After the last injected pod of a group its counters stay as they
  were, and a queued pod that is gone is retried for ever (`NotFound` is
  returned as an error). `Owns(JavaAgent)` never matches, as its owners are
  workloads.
- `GetExternalMetric` reads the registry without the lock. When the number of
  OAP's metrics changes at that moment, it may miss a metric, or read beyond the
  array; `GetExact` is about refreshes that keep the number.
- Labels that cannot be parsed (two components, a number outside 0 to 127,
  wrong hexadecimal) make the request panic on a nil value instead of being
  refused, and a key that merely starts with a parameter's name counts as it.
  `NotIn` and `!=` are read like `=`. The refusal of a missing metric says that
  it "is defined in OAP" (`provider.go:174`).
- A call of OAP has no deadline and ignores the request's context.

## 7. Not modelled

Template text, YAML and digests byte by byte (data); the text of JVM options
and of the init container's shell commands; the times kept in statuses;
`kubectl` output. `operator/main.go` and `adapter/main.go` parse flags and
register controllers and webhooks, once and in a fixed order: there is no state
to get wrong that another part sees, but for leader election, which is off by
default (section 5 says what two operators would break). The type declarations
(`*_types.go`) have no behaviour; of their fields the modules use those that
webhooks and reconcilers read. The SwAgent reconciler is empty.

Generated code (`zz_generated.deepcopy.go`, `zz_generated.openapi.go`) is left
out: copies and declarations without decisions. It makes up 17,156 of the
24,258 lines of Go outside tests, so that the map covers about half of the
lines people wrote, but less than a sixth of all.

## 8. Plan

Done: all the components of section 1 that keep state, a proof of every safety
property the runs check and of the types of every module that states them, and
two refinements. What is left:

1. Abstract specifications of the other reconcilers, as `DesiredState` is of the
   engine: `OAPServerDynamicConfig` and `Storage` replace objects by deleting and
   creating them, and promise less.
2. The liveness properties for every instance, once a prover for them is at hand.
