# TLA+ verification of gwayne

gwayne is a web application (Go, gin, gorm, client-go) that manages several
Kubernetes clusters from one process. This directory holds TLA+ models of the
parts of it whose correctness depends on interleavings, failures or restarts,
the TLC configurations that check them on small instances, and proofs, checked
by TLAPS, of the theorems that matter most. Paths below are relative to the
root of the repository's sources; a file name alone, such as `client.go`, means
the file of that name in `pkg/kubernetes/client/`, unless the section says
otherwise.

## 1. Inventory

| Component | State | Operations | Interacts with |
|---|---|---|---|
| Eager cluster registry (`client.go`, `cache.go`, `pkg/initial/client.go`) | `clusterManagerSets` and `sharedInformerFactoryCache` (two `sync.Map`), stop channels, informers | resync every 5 s, `Manager` on every request, one builder goroutine per cluster, cleanup | reads the table `cluster`; serves every handler |
| Cluster table (`models/cluster.go`, `controllers/cluster`) | rows: configuration, status, deleted | create, update (whole row), soft and hard delete, list | read by both registries |
| Lazy cluster registry (`lazy_client.go`, `lazy_interface.go`) | `lazyManagers` map of clients, a RWMutex per client, idle time and access count | `GetCluster`, `GetClient`, `GetKubeClient`, initialization, cleanup every 5 min, `Stop` | the table; shares the informer factories with the eager registry |
| Configuration optimizer, monitors (`config_optimizer.go`, `monitor.go`) | hashes and counters under a RWMutex | get, update, age out | none wired in |
| Resource handler and kinds (`handler.go`, `clientfactory.go`, `api/resources.go`) | map of the kinds of a cluster, under a RWMutex | get, create, update, delete, list; discovery | API server, listers |
| Generic proxy, PV, CRD and namespace handlers (`controllers/kubernetes/{proxy,persistentvolume,crd,namespace}`) | none of their own | CRUD, rollout restart | resource handler, API server |
| Node operations (`controllers/kubernetes/node`, `pkg/kubernetes/resources/node`) | none of their own | labels, taints, cordon, update, delete, drain, statistics | API server |
| Web terminal (`controllers/kubernetes/pod/terminal.go`) | a session per socket, channel of window sizes, cache of shells | read, write, resize, detect the shell | API server |
| Users, authentication, permission (`models/user.go`, `controllers/auth`, `controllers/permission`, `middleware/jwt.go`) | table `user`, tokens | login (db, LDAP, OAuth2), `EnsureUser`, updates by whole row, deletion | RSA keys, database |
| RSA keys (`pkg/rsakey`) | two files | generate on first start, load | start of the process |
| Start and stop of the process (`main.go`) | none | start, graceful shutdown | everything |
| AI configuration and diagnosis (`pkg/k8sgpt`, `controllers/k8sgpt`) | provider list under a RWMutex, viper, environment variable `KUBECONFIG`, temporary files | add, remove, default, explain, diagnose | the registry, viper |
| Configuration (`pkg/config`) | the viper singleton | read, reload when the file changes (`viper.WatchConfig`) | AI configuration, start |
| Listing: selection, sort, paging (`resources/dataselector`, `pkg/pagequery`, `resources/proxy`) | pure | filter, sort, page | every list handler |
| Pod listing and logs (`controllers/kubernetes/pod`) | none | list, stream | listers, API server |
| Routing, database set-up (`routers`, `models/db.go`) | none | registration, migration, seed rows | everything |

What is hard: the registry is read and changed by every request and by the
resync with no lock across its steps; a panic in the resync ends the process;
builds and queries fail half way; the lazy registry closes clients while
requests take them; the diagnosis changes variables of the whole process; rows
and Kubernetes objects are read, changed and written back whole, while other
requests, controllers and `kubectl` write them too; a terminal passes messages
of three kinds through one goroutine and a bounded channel; the process may end
between any two steps.

Properties that make each component correct, in a line:

* eager registry: one builder per cluster, one manager per entry, no manager
  dropped with its informers running, every deleted cluster leaves, every
  normal cluster is served, every request returns;
* lazy registry: no channel is closed twice, no cache is dropped open, a lock is
  held by somebody who works under it; unless a cleanup hangs in `Shutdown`, every
  call ends and what is idle or worn out leaves;
* node operations: each takes effect at once on the node as it is then; a drain
  that succeeds has seen every pod it found go;
* resources: the same, and an update overwrites only what it read; the kinds
  are discovered once;
* terminal: sizes arrive in order, input arrives whole, the shell is the
  container's own, a session ends with its shell and its reader with its client;
* users and keys: the keys match, a login changes no rights, password or name,
  every request is answered;
* AI configuration: the default provider is one of the list, in memory and in
  the file; writers do not lose each other's updates; every call returns; a
  diagnosis removes its files, unless the process is killed;
* listing: a page is the slice of the sorted, filtered list that was asked for.

## 2. Plan

Done, in this order, the most important behaviour first:

1. `ClusterRegistry`, its abstraction `ManagerLifecycle`, its proofs;
2. `LazyClients`, the lazy registry and the factories it shares, its proofs;
3. `AIConfig`, the provider list, its file, explanations, diagnoses, its proofs;
4. `NodeOperations` and `ResourceRequests` against one abstract specification,
   `AtomicObject`, with the refinement proved for both;
5. `Server`: start, stop, key files, logins and the administration of users,
   its proofs;
6. `Terminal`: sessions, sizes and the cache of shells, its proofs.

Left, in the order in which they would add most: the operators of filtering,
sorting and paging against a reference definition; the whole-row writes of the
table of clusters composed with the registry (the registry sees them, but two
administrators of one cluster are modelled only as the two of one user in
`Server`); the configuration optimizer, if it is ever wired in. Every invariant
and every action property that a run checks is proved; liveness is left to TLC
(section 5).

## 3. The modules and the code

| Module | Models | Sources |
|---|---|---|
| `ClusterRegistry` | the eager registry, the shared factories, the table it reads | `client.go`, `cache.go`, `pkg/initial/client.go`, `models/cluster.go`, `controllers/cluster/cluster.go` |
| `ManagerLifecycle` | what the registry promises of one entry | abstract |
| `LazyClients` | the lazy registry, its cleanup, the shared factories | `lazy_client.go`, `lazy_interface.go`, `cache.go` |
| `AIConfig` | the AI providers, explanations, diagnoses | `pkg/k8sgpt/ai_manager.go`, `diagnostic.go`, `controllers/k8sgpt` |
| `NodeOperations` | every handler that changes a node, and the drain | `controllers/kubernetes/node/node.go`, `resources/node/node.go` |
| `ResourceRequests` | the handlers of all other objects, the cache of kinds | `handler.go`, `clientfactory.go`, `api/resources.go`, `controllers/kubernetes/{proxy,crd,persistentvolume,namespace}`, `resources/{crd,namespace}` |
| `AtomicObject` | what the last two promise of one object | abstract |
| `Server` | start and stop, the key files, logins, users | `main.go`, `pkg/rsakey`, `models/user.go`, `controllers/{auth,permission}`, `middleware/jwt.go` |
| `Terminal` | the web terminal | `controllers/kubernetes/pod/terminal.go` |
| `Lists` | the loops over lists of `AIConfig` and `Terminal`: filtering, adding up | - |
| `*Proofs` | the theorems about each of the seven modules above that is not abstract, and about `Lists` | - |
| `MC*` | instances of the above for TLC | - |

`PROJECT.json` maps each definition to its lines. Definitions marked *Mutant*
in the modules are deliberate errors; no specification uses them. They serve to
show that the properties can tell.

### ClusterRegistry

Three kinds of goroutines share two `sync.Map`s and the table: the `Ticker`
(`wait.Forever` around `BuildApiserverClient`), `Requests` inside `Manager`,
and a builder per caller and cluster. `pc` says where a caller is, `builder`
where each of its builders is.

* `registry[c]` is the entry of `clusterManagerSets`. A *placeholder*, the
  manager that `LoadOrStore` puts there before the build, has the cache `Nil`.
* `factory[c]` is the entry of `sharedInformerFactoryCache`, together with the
  state of its informers: idle, running on a channel, or stopped for ever
  (client-go never runs an informer twice).
* `closed` holds the stop channels that are closed. `Caches` are addresses of
  caches: one that nothing refers to any more may be allocated again.
* `db` is the table. `Create`, `Update`, `Delete` write whole rows.

A step is one access to a map or to the table, with the local work up to the
next one. `ListClusters` is the query; `VisitKey`, `ReloadManager`,
`CloseManager`, `RemoveManager` are the loop of `cleanUpDeletedClusters`, whose
second `Load`, `Close` and `Delete` are separate accesses; `SpawnOrSkip` and
`WaitEnds` are the build loop and `wg.Wait`; `ClaimCluster`, `BuildClients`,
`FindFactory`, `StoreFactory`, `BuildCacheController`, `StoreManager` are the
builder. A panic ends the process when it happens in the resync and only the
request when it happens in a handler (`gin.Recovery`): `Panic`, `Restart`.

`Shutdown`, which `Close` calls, waits for the informers of the factory. They
listen to the channel that was closed just before (`InformersInv`, section 5), so
that the wait ends and is no step of its own; this supposes that the lazy registry
has none of its own on the factory.

Left out: what the clients and listers do once a manager was returned, the
list of API resources (a set of informers is one value), and two rows of one
name, which the unique key of the table excludes.

### ManagerLifecycle

An entry is *absent*, *building*, *ready*, *closing* and absent again, with one
row throughout. `ClusterRegistry!Lifecycle` is the refinement mapping: the phase
is computed from the entry and from whether its channel is closed.

### LazyClients

`managers` is the `sync.Map`; the managers it points to are objects at
addresses (`object`), because the code keeps pointers to a manager that has
left the map, and that is where it gets hard. `lock` is the write lock of `mu`;
what a goroutine does under a read lock touches nothing but the manager's own
fields and is one step. `QueryCluster` and `StoreManager` are the unlocked
check-then-store of `GetCluster`; the table changes at any time, so the query
finds a row of any status, or none. `LockManager` is the double check of
`GetClient`; `BuildClients`, `StoreFactory`, `StartFactory`, `RegisterInformers`
are `initialize`, with an error at every stage; `CleanupStarts`, `VisitKey`,
`MarkManager`, `RangeEnds`, `LoadVictim`, `Close`, `ShutdownEnds`,
`DeleteManager`, `SweepEnds` are the two loops of `cleanup`. Idle time and the
access count are one bit, `due`.

`current` is `sharedInformerFactoryCache`, and `informers` the
`SharedInformerFactory` at each address, which managers of one cluster share.
`factory.Start(stop)` starts what is registered by then, whoever registered it, on
the channel of the caller; `ForResource` registers, and the builder's own
goroutine, or that of `Start`, is the first to call `Run` (`RunInformer`), after
which the other's returns. `Close` closes the channel with the lock held and goes
on to `shutdown`, where it waits for the goroutines of `Start`, on whatever channel
they run: `ShutdownEnds` is enabled when there is none. `Hung` are the states in
which it waits for one on a channel that nobody has closed.

Objects and channels that nothing refers to are forgotten and may be allocated
again; this keeps the state finite and loses nothing a step could observe. One
informer stands for those of a factory; the listers that are read through it are
left out.

### AIConfig

`ai` is the section of viper in memory and `file` the one on disk; a provider is
its name. `writer` and `readers` are the RWMutex: since a goroutine that called
`Lock` keeps new readers out while it waits for the ones inside, `Lock` sets
`writer` and `ReadSection` waits until `readers` is zero. `SetSection` and
`WriteConfig` are separate, because a diagnosis may set the section in between,
the write may fail, and the process may end. A diagnosis saves `KUBECONFIG`,
sets it to a file of its own, lends its section to k8sgpt (`LendSection`, which
takes no lock), analyses, reads and sets the section again, and restores. An
event that is diagnosed directly is an `Explain`. `Restart` may happen at any time;
it empties the memory and keeps the files (`file`, `temps`), as the temporary ones
are removed by nothing but a `defer` of the diagnosis that made them.

External: k8sgpt (`analysis.NewAnalysis`, the AI clients), which either answers
or fails. Left out: the settings of a provider, `KUBERNETES_MASTER`, treated
like `KUBECONFIG` by the code, and the text of prompts and answers.

### NodeOperations and AtomicObject

One node, as the API server has it (`node`, with its `revision`, the
resourceVersion), the `pods` bound to it, and the handlers at work on it. A
handler reads the node (`GetNodeByName`), makes another of it (`AddLabel`,
`SetTaint`, `Cordon`, ..., which give `{}` where the code returns an error), and
sends it back under the revision it read (`UpdateNode`). `Update` sends the body
of the client, with the resourceVersion of the client or with none. `DrainNode`
goes on with `ListPods`, `DeletePod` for each pod it listed, and `Drained`.
Every call may fail, and a write may be applied although its answer is lost.

Around the handlers: `WriteOutside` (controllers, kubelet, other clients),
`Bind` (the scheduler, and DaemonSets), `Terminate`. A pod may be bound at any
time: the scheduler has decided on what it saw, and binding asks nothing of the
node. `staying` is a history variable: the pods that an unforced drain found in its
list and that have been there ever since.

Assumptions about Kubernetes: the API server compares resourceVersions; it
refuses a taint that is there already. Labels and taints are sets; the
value of a label is left out, so that giving a label another value is no change.
A pod that is being deleted counts as gone, as for the drain, which skips it.
`validateLabel` refuses keys with a prefix and `AddLabels` does not call it:
`Refused` are such keys.

`AtomicObject` is one object and requests on it. A request is asked, is applied
at once to the object as it is at that moment, and is answered "ok" only after
that. `NodeContract` and `ObjectContract` say that the handlers implement it:
`NodeOperations!Atomic` and `ResourceRequests!Atomic` are the refinement
mappings, and `Results` says for each request what it makes of an object it has
for itself.

### ResourceRequests

A handler is the sequence of the calls it makes (`Put`, `RestartWorkload`,
`CRDUpdate`, `NamespaceCreate`, ...), `at` is the place a handler has come to,
and each kind of call is an action. `CheckCache`, `LockCache`, `Discover` and
`LookUp` are the double-checked map of kinds of `getResource` under its RWMutex;
`GetResourceMap` says what a discovery makes of what it found, group by group,
some of which may be missing (`ResourceMaps`). `GetCurrent` and `UpdateObject`
are the two calls of the generic update, which puts the newest resourceVersion
into the client's object; `PatchObject` is the restart; `Probe` and
`CreateObject` are `CreateNotExitNamespace`.

Assumptions: a finalizer may keep an object that is deleted; a read may be of
the informers' copy, which may be behind, so its result is not related to the
object; kinds that require a resourceVersion refuse an update without one, which
the model allows for every kind. The choice among the versions of a custom
resource is left out: the look-up of its definition is a read, which may fail.

### Server

The process starts (`Start`, `InitRsaKey`, `WritePrivate`, `WritePublic`,
`LoadKeys`), serves, is asked to stop (`Shutdown`) and ends (`Exit`), or is
killed at any point (`Crash`). A key file is there or not, empty or holding a
key: creating and writing it are two steps. The table has one user, `row`, whose
columns are the name, the rights, the password and the profile; a name that it does
not have, or has no longer, is that of somebody else. The handlers hold a copy
of the row (`user`), which is where stale data comes from: `Authenticate`,
`FindUser`, `InsertUser`, `UpdateLogin`, `generateJWT` are `Login` and
`EnsureUser`, `ReadUser` and `SaveUser` the three whole-row changes of an
administrator, of which `UpdateUserById` writes the name with the profile.
`UserCreate` inserts a user even if the body could not be bound, and answers 400
then: an insertion that was made may be answered "failed".

Left out: lists of users, the lifetime of tokens, the rows of other users
and the first row that the migration inserts. LDAP and OAuth2 servers answer or
fail. gorm's `Save` inserts a row again that was deleted meanwhile, and a login
against the table writes back the profile it has read; both are in the model.
The key files are written by the server alone, and read where it writes them:
`rsakey.go:27` writes `./conf/rsa-*.pem`, whatever paths the configuration names,
so `KeysMatch` is about the default paths.

### Terminal

Sessions follow each other; the cache of shells outlives them. `inbox` is what
the browser has sent over the socket, `reader` the goroutine of client-go that
calls `Read`, `sizeChan` the channel, `resizer` the goroutine that calls `Next`,
`process` the shell. A client that is connected may never send the first message,
with which its session starts (`handleTerminalSession`). Every name of a container is a sequence of words and the
key of the cache joins them with dashes, as the code does, so that two
containers may have one key. A clock with a bound makes entries of the cache
expire while `CleanupShellCache` runs.

Left out: output, which is passed on unchanged, and sessions at the same time,
which share nothing but the cache, where one after the other does as well.
Tokens are accepted or refused.

## 4. The runs

| Run | What it shows | Instance |
|---|---|---|
| `registry_safety` | `OneBuilder`, `RemovesWhatItClosed`, `NoOrphanInformers`, `FactoryBuiltOnce`, and the registry implements `ManagerLifecycle` | 1 cluster, 2 configurations, resync + 2 requests, everything may fail |
| `registry_liveness` | deleted clusters leave for good, normal ones are served, requests return, closing ends | 1 cluster, resync + 1 request, updates, failing queries and builds |
| `lazy_safety` | `ClosesOnce`, `ClosedBeforeReplaced`, `LocksHaveHolders` | 1 cluster, 2 callers + cleanup; 1 922 648 states |
| `lazy_liveness` | every call and every cleanup ends and what is due leaves, unless a cleanup hangs (section 6) | 1 caller + cleanup; 6 944 states |
| `ai_safety` | `DefaultListed`, `WritersAlone`, `FilesGoWithTheirUsers` | 2 providers, 2 handlers |
| `ai_liveness` | every call ends, but for the deadlock of section 6 | 1 provider, 2 handlers |
| `node_operations` | `NodeContract` (refinement), `DrainedIsEmpty`, every request is answered | 2 handlers, 2 labels, 1 taint, 2 pods, 2 writes; 597 756 states |
| `resource_requests` | `ObjectContract` (refinement), `OverwritesWhatItRead`, `KindsStable`, every request is answered | 2 handlers, 3 groups of which any may be missing, 2 writes; 301 125 states |
| `server` | `KeysMatch`, `LoginKeepsRights`, every request is answered | 2 handlers, 2 key pairs, 2 names, 2 profiles; 758 734 states |
| `terminal` | `SizesInOrder`, `InputWhole`, `OwnShell`, sizes arrive, a session ends with its shell and its reader with its client | 3 containers of 2 pods, channel of 1, 2 messages, 3 times; 427 355 states |
| `finding_panic`, `finding_environment` | what a comment says and the code does not do, section 6 | as small as the counterexample |

Each safety run also checks the type invariant of its module. Deadlock is checked in all
of them: the server always waits for another request.

**Why the bounds are enough.**

* The registry. Nothing in it depends on two clusters at once but the loop over
  their names, and the proofs of section 5 hold for every number of clusters and
  of callers, so one cluster with three competing callers is what TLC has to
  explore. Two configurations are enough to change one. `Caches` has one address
  more than entries, callers and factories can keep alive at once, so that
  `FreshCaches` never is empty and no step is prevented by it.
* `LazyClients`: two callers and the cleanup keep at most two managers alive;
  with a third address the number of reachable states is the same. Two managers of
  one cluster at once, which `lazy_safety` has, take two callers. With two, the
  liveness properties are beyond TLC (some ten million states); `lazy_liveness` has
  one, with which a cleanup can hang all the same (a build that fails leaves informers
  on a channel that nobody closes). For any number of
  callers the theorems `LocksAreHeld` and `HangLasts` take the place.
* `AIConfig`: two handlers are what a lock and an environment variable need to go
  wrong, two providers what the fallback of the default needs. Three temporary
  paths are those of two diagnoses and one that a kill has left behind;
  `finding_environment` has four, so that a diagnosis finds a fresh one.
* `NodeOperations`, `ResourceRequests`: a lost update takes a read, a write of
  somebody else and a write. Two writes (`MaxRevision`) are those of two handlers,
  or of one and of somebody else; a handler that asks again meets the object at
  every stage. One pod of a DaemonSet and one of no DaemonSet are the two cases of
  the drain; with both of them bound, left alone, deleted and put back at any
  time, the list is out of date in every way a drain can meet. Of the three groups
  that discovery finds, the second hides the first and has no client, and the
  third is not one of Kubernetes: what serves the kind depends on which of the
  discoveries fail.
* `Server`: two pairs are an old one and a new one, which is all that two files
  can mix. Two names are the one that a user has and the one that it gets. Two handlers are a login and an administrator, or two of either.
* `Terminal`: the channel holds one size instead of ten, so that two fill it and
  block the reader. Two containers of one pod tell a key that forgets the
  container; the third, in another namespace, has the key of the first.
  `TTL = 1` of two ticks has an entry live, expire and be detected again.

**Symmetry and views.** Configurations, requests, callers, handlers and
providers are only compared for equality, and symmetry is only used in runs
without liveness. The `CHOOSE` of a fresh address ranges over a set outside the
symmetry. `lazy_safety` identifies states that differ in factories and channels
nothing refers to, or in whether a factory whose informer runs is shutting down, as
nothing starts that informer again (`MCLazyClients!Reachable`).

**Fairness.** Go runs every goroutine that can run: weak fairness of callers
and builders in `ClusterRegistry`, of the handlers in `NodeOperations`,
`ResourceRequests` and `Server`, and of the server's steps and the goroutines of
the stream in `Terminal`. For a step that is a call to the API server, to the
database or to a directory it also says that the call ends, in success or in
failure. An informer that was started runs: weak fairness of `RunInformer` in
`LazyClients`. `wait.Forever` calls again: weak fairness of `TickerFires`. The
database does not refuse the resync for ever: strong fairness of its query,
which competes with the failing query. A Go RWMutex does not let a waiter
starve: strong fairness of the steps of a caller and of the cleanup in
`LazyClients`, of a handler in `AIConfig` and of `Locking` in
`ResourceRequests`. Nobody has to send a request, type, leave, write the table or an
object, stop the lazy manager or end the process; in `Terminal` no client has to
send its first message and no shell has to end, even if its input has.

A service that never answers is not in `CallsEnd`: `GetCompletion` would keep
the read lock, as `ai_manager.go:319` passes a context without a deadline.

## 5. What is proved

The theorems hold for every value of the constants that satisfies the `ASSUME`s
of the module: any number of clusters, callers, handlers, providers, pods, labels,
key pairs, containers and messages, any size of channels and of buffers, and any
bound on writes and ticks. Every proof module shows that an invariant is inductive (`Invariant` or
`Invariance`), lemma by lemma for each action, and draws the rest from it. No
property is inductive on its own.

| Module | Theorems | Strengthening |
|---|---|---|
| `ClusterRegistryProofs` | `TypeCorrect`, `OneBuilderAlways`, `RemovesWhatItClosedAlways`, `FactoryBuiltOnceAlways`, `NoOrphanInformersAlways`, `ServedUntilUnlisted`, `ResyncAloneNeverPanics`, `Implements` | see below |
| `LazyClientsProofs` | `TypeCorrect`, `ClosesAtMostOnce`, `NoneForgotten`, `LocksAreHeld`, `HangLasts` | local variables name a cluster, a manager, a factory and a channel where the code uses them (`Placed`); who initializes or closes a manager has its lock, and nobody has initialized it before, or it has a cache to close (`Locked`); what anything refers to is there, and has a cache only if it is initialized (`Live`); a builder's channel is open and nobody else's (`Unshared`); a cleanup in `Shutdown` has closed the channel of its manager (`ClosesFirst`) |
| `AIConfigProofs` | `TypeCorrect`, `DefaultIsListed`, `FilesGoWithUsers`, `WritersWorkAlone`, `ReadersUndisturbed`, `EmbraceLasts` | who is between the read and the end of the write of an update has the lock (`Mutex`); only a diagnosis that has set the environment has a temporary file, which is there and no other's (`Owned`); the section in memory, in the file and in every handler's hands lists its default (`Sections`, `Requested`); who is inside `Explain` holds the lock for reading, and nobody is then between the read and the end of the write of an update; who has the lock is on the way to write (`Reading`, `Excluded`, `Held`) |
| `NodeOperationsProofs` | `TypeCorrect`, `DrainEmpties`, `RequestsAdvance`, `Refinement` | a handler is where its request leads (`Served`); a body that carries the current revision was made of the current node (`Fresh`); the pods that a drain found and that stayed are those it has left to delete, but for DaemonSets' (`Emptying`); what a handler has left to do is a number (`Work`) |
| `ResourceRequestsProofs` | `TypeCorrect`, `NothingOverwritten`, `KindsAreStable`, `LockIsHeld`, `KindIsKnown`, `CallsAdvance`, `Refinement` | every handler's sequence of calls is well formed, a fact about constants (`Well`); a handler that has the current resourceVersion has read the object as it is (`Current`); a generic update has one when it writes (`Got`); the lock of the cache is held by the handler that discovers (`Locked`); who is past the lookup finds its kind in the cache (`Known`) |
| `ServerProofs` | `TypeCorrect`, `KeysAlwaysMatch`, `LoginsKeepRights` | a public key that is there is the one of the private file, and a start that writes the private file finds no other (`FilesMatch`); a handler is where its request leads (`Served`) |
| `TerminalProofs` | `TypeCorrect`, `OwnShells`, `SizesKeepOrder`, `InputArrivesWhole` | what is cached under a key was detected in a container of that key (`Cached`); a session that starts has such a shell (`Bound`); a reader that waits at the channel has a size (`Sending`); each goroutine of the stream is where the session allows (`Stages`, `Quiet`, `Waits`); the sizes that the shell has, that are in hand, in the channel and in the socket are a tail of those sent (`Order`), and what was typed likewise (`Whole`) |
| `ListsProofs` | lemmas only | induction over sets of numbers and of sequences |

The registry's argument is the longest:

* `RemovesWhatItClosed` needs to know that a manager that is still open is the
  one in the map (`OpenIsCurrent`), and that only one of two cleanups gets past
  `Close` (`OneRemover`), because the other finds the channel closed and
  panics. It is the panic that makes the registry safe.
* That in turn needs a stop channel to have one owner (`CachesInv`): one
  entry or one builder.
* `OneBuilder` needs a cleanup never to delete a placeholder: `Close` of a
  placeholder dereferences its nil cache, and panics.
* `FactoryBuiltOnce` follows from `OneBuilder`: only one builder of a cluster
  is between the `Load` and the `Store` of its factory.
* `NoOrphanInformers` needs to know that running informers listen to the
  channel of the current manager, or of the builder that is about to store it
  (`InformersInv`).
* `LocalsInv` says where the local variables mean something.

Two more theorems bound what can go wrong with the eager registry.
`ServedUntilUnlisted`: a manager that serves is closed by nothing but a restart,
or a cleanup whose own query did not return the cluster (`ClosesUnlisted`).
`ResyncAloneNeverPanics`: without requests and with builds that succeed, the
resync's cleanups meet only managers they can close, so each panic of
`finding_panic` takes a request or a build that failed. Its two assumptions narrow the
environment, and the run `finding_panic` shows what happens without them.

`Implements` and the two theorems `Refinement` map each step of the detailed
module to a step or a stutter of the abstract one. For the handlers the only
step that applies a change is the write that the API server accepts; for the
node, `Fresh` says that what is written is then what the request makes of the
node as it is.

`DefaultIsListed`, `SizesKeepOrder` and `InputArrivesWhole` are about lists of
any length. `Lists` writes the loops over a list as functions of how far the loop
has come, and `ListsProofs` shows what they do with one element more at either
end. The induction that takes is over a set, of the numbers or of the sequences
that a formula holds for, and comes from the library's theorem that a set has a
least element (`WFMin`). From there the proofs go step by step: a provider that
is removed leaves a list without repetitions and without itself, so the new
default, the first that is left, is one of the list; a size that moves from one
place to the next leaves the sequence of all places as it is, and so does a piece
of input that is not cut off.

**Only model-checked**: the liveness properties, twelve of them, which depend on
fairness and on `ENABLED`, for which there is no prover. Every invariant and every
action property of the runs is the subject of a theorem. Of some liveness
properties a theorem shows the half that is a safety property:

* `RequestsAdvance`: every step of a node handler brings it nearer to its answer,
  and nobody else sets it back. With the finitely many pods that the theorem assumes
  a request takes at most four steps and one for each pod, even if DaemonSets put
  pods back meanwhile.
* `CallsAdvance`: a resource handler goes through its calls, seven at most, in order.
* `LockIsHeld`: who waits for the lock of the cache of kinds waits for a handler that
  has a step to take and holds no other lock.
* `LocksAreHeld`: who waits for the lock of a lazy manager waits for a caller that
  builds and holds no other lock, or for `Close`. `HangLasts` says what the latter may
  come to: once `Close` waits for an informer on a channel that is open, it does so
  for ever. So `EveryCallEnds` excepts no more than it must.

## 6. Where the code, its comments and its purpose part

Two runs end in a counterexample to a comment of the source:

* `finding_panic`: a resync and a request that clean up the same deleted
  cluster interleave; one asserts the type of a nil `Load` (`client.go:186`), or
  closes a closed channel. In the resync this ends the process. The resync
  alone does not come to it (`ResyncAloneNeverPanics`).
* `finding_environment`: of two diagnoses that overlap, the second saves the
  temporary file of the first as the original `KUBECONFIG`, and restores it
  when it is gone (`diagnostic.go:158,190`).

The models have these behaviours of the code too; they are consequences of what
it does, and no property claims otherwise:

* a changed configuration of a cluster is noticed and a builder started, which
  finds the old entry and returns (`client.go:71-79`): it is used only after the
  cluster has left the registry once, or the process has started again. A build
  that fails leaves its placeholder, and the next builders find that
  (`client.go:82`): `NormalClustersBecomeReady` excepts it (`Failed`);
* when a cluster is removed and comes back, its factory was kept, its informers
  have stopped and do not run again: its lists stay as they were
  (`cache.go:34,63`);
* a caller may initialize a lazy manager between the `Close` and the `Delete` of
  the cleanup (`lazy_client.go:289`); nothing stops its informers any more;
* the cleanup of the lazy registry may hang (`lazy_client.go:229-245`,
  `cache.go:105-113`): `Shutdown` waits, with the lock of the manager held, for every
  informer that `Start` runs for the shared factory, and one may run on the channel
  of another manager of the cluster, or of a build that failed half way, which
  nobody closes. Every later caller of that manager then waits for its lock, and no
  manager is ever cleaned up again. `EveryCallEnds` and `DueManagersLeave` except
  this and nothing else (`Hung`); `HangLasts` says that it is for ever;
* `Explain` locks for reading and calls `GetProvider`, which does so again
  (`ai_manager.go:295,227`); with a writer in between each waits for the other.
  `CallsEnd` says that this is the only way for a call not to end (`Embraced`),
  and the theorem `EmbraceLasts` that nothing but a restart gets out of it;
* a process that is killed during a diagnosis leaves
  `/tmp/k8sgpt-kubeconfig-*`, with the credentials of a cluster, for good: its
  removal is only deferred (`diagnostic.go:161-206`), and no start looks for it
  (`FilesGoWithTheirUsers` has `Restart` as its one exception). That the removal
  succeeds is assumed, as its error is not looked at;
* a pod that was scheduled before the cordon and is bound after the drain has listed
  the pods stays on the node although the drain has succeeded
  (`resources/node/node.go:231-274`): `DrainedIsEmpty` speaks of the pods in the list;
* `ListenAndServe` returns when `Shutdown` closes the listeners, and its
  goroutine ends the process (`main.go:50`): requests that the shutdown was to
  wait for are cut off (`Server!Exit`);
* a crash after the file of the public key was created and before it has content
  lets every later start find two files, fail to load them and exit
  (`rsakey.go:95`): `KeysMatch` speaks of the starts that serve;
* of two administrators who change different columns of a user at once, the
  second writes back what the first has changed, and inserts a row again that was
  deleted (`user.go:144-178`); no property claims otherwise. A change of the profile
  writes the name too (`user.go:172`), and a login under the old name, through a
  directory, then inserts another user;
* `UserCreate` answers 400 when it cannot bind the body, does not return, and inserts
  what it has (`controllers/permission/user.go:53-55`);
* the keys are written to `./conf` even if the configuration names other files
  (`rsakey.go:27`): a file it names that is missing stays missing, and no start serves;
* two containers whose names join to one key share a cached shell
  (`terminal.go:134`): `OwnShell` allows for it. The goroutine of client-go that
  waits in `Next` outlives the session, as nobody closes the channel
  (`terminal.go:75`), and a socket whose binding is refused is left open; input
  longer than the buffer is cut off (`terminal.go:98`). When the client has gone, only
  its reader ends (`SessionEnds`): the shell is not told, the stream has no deadline
  (`terminal.go:84-87,367`), and the session lasts as long as its shell;
* goroutines of the node statistics add up in shared variables without a lock
  (`controllers/kubernetes/node/node.go:50`), and `handler.go:93` writes into the
  informers' own copy of an object. Both are data races in Go variables of the
  reading handlers, and not modelled;
* without a stored and a served version, the choice of the version of a custom
  resource takes the first of a list that may be empty; it is not modelled beyond
  the calls it makes.

## 7. What is not modelled

* Configuration optimizer and monitors: nothing of the server calls them.
* The handlers of the table of clusters, beyond what the registries see of them
  (`ClusterRegistry`, `LazyClients` write rows in the same ways).
* Configuration: `app.ini` is read at the start and again whenever it changes
  (`viper.WatchConfig`, `config.go:97`), into one structure that handlers read
  meanwhile without a lock: a data race, of which no model speaks. That the AI section
  is read again from a file that somebody edits is left out of `AIConfig` too.
* Listing, selection, sorting, paging: pure functions of lists, on which no state
  of the server depends. The listing and the statistics of nodes, pods and logs
  read and pass on.
* Routing and the set-up of the database: in a fixed order, once.
* The pure I/O of logs, of the front end, of LDAP and OAuth2 servers.
