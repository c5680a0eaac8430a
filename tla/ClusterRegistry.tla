--------------------------- MODULE ClusterRegistry ---------------------------
(***************************************************************************)
(* The registry of cluster managers of gwayne:                             *)
(*   pkg/kubernetes/client/client.go   clusterManagerSets and its users,   *)
(*   pkg/kubernetes/client/cache.go    the shared informer factories,      *)
(*   pkg/initial/client.go             the 5 second resync,                *)
(*   models/cluster.go                 the rows of table "cluster".        *)
(*                                                                         *)
(* Goroutines: one Ticker (wait.Forever around BuildApiserverClient), any  *)
(* number of Requests (HTTP handlers inside Manager), and one builder per  *)
(* (caller, cluster), spawned by BuildApiserverClient.  Every access to a  *)
(* sync.Map or to the database is one atomic step; everything between two  *)
(* of them is local to the goroutine.                                      *)
(***************************************************************************)
EXTENDS FiniteSets

CONSTANTS
    Clusters,       \* cluster names, the unique key of the table
    Configs,        \* what a row says of the API server: Master and KubeConfig
    Ticker,         \* the goroutine started by InitClient
    Requests,       \* goroutines serving an HTTP request
    Caches,         \* addresses of CacheFactory objects (their stop channels)
    Nil,            \* Go's nil, an absent key, an absent row
    Env,            \* what the environment may do, see EnvOps
    BuildFailures   \* where a build may fail, see BuildStages

\* Writes of the table, failing queries of it, and the end of the process.
EnvOps == {"add", "update", "softDelete", "delete", "dbError", "kill"}

\* "client": buildClient or one of the typed clients; "discovery": GetResourceMap;
\* "resource": ForResource, after some informers were started.
BuildStages == {"client", "discovery", "resource"}

Statuses == {"normal", "maintaining"}

Row == [config : Configs, status : Statuses, deleted : BOOLEAN]

\* A placeholder is a manager whose only field set is Cluster: its cache is Nil.
ClusterManager == [cluster : Row, cache : Caches \cup {Nil}]

Factory == [config    : Configs,
            informers : {"idle", "running", "stopped"},
            stop      : Caches \cup {Nil}]

Callers == {Ticker} \cup Requests

ASSUME ConstantsAssumption ==
    /\ Ticker \notin Requests
    /\ Env \subseteq EnvOps
    /\ BuildFailures \subseteq BuildStages
    /\ Nil \notin Row \cup ClusterManager \cup Factory \cup Clusters \cup Caches

VARIABLES
    db,         \* table "cluster": one row per name, or Nil
    registry,   \* clusterManagerSets
    factory,    \* sharedInformerFactoryCache, with the state of its informers
    closed,     \* the stop channels that are closed
    pc,         \* where each caller is
    target,     \* the cluster a request asked Manager for
    listed,     \* the rows GetAllNormalClusters returned to the caller
    todo,       \* the keys still to visit: of Range, then of the build loop
    victim,     \* the key the caller is removing
    loaded,     \* the manager the caller loaded to close it
    answer,     \* what Manager returned
    builder,    \* where the builder goroutine of (caller, cluster) is
    stop        \* the stop channel that builder made

callerVars == <<pc, target, listed, todo, victim, loaded, answer>>
builderVars == <<builder, stop>>
vars == <<db, registry, factory, closed, pc, target, listed, todo, victim,
          loaded, answer, builder, stop>>

Stages == {"idle", "claim", "client", "factory", "newFactory", "discover", "store"}

Answers == {"none", "served", "unready", "maintaining", "notExist", "error"}

Locations == {"idle", "list", "range", "reload", "close", "remove", "build", "load"}

TypeOK ==
    /\ db \in [Clusters -> Row \cup {Nil}]
    /\ registry \in [Clusters -> ClusterManager \cup {Nil}]
    /\ factory \in [Clusters -> Factory \cup {Nil}]
    /\ closed \in SUBSET Caches
    /\ pc \in [Callers -> Locations]
    /\ target \in [Callers -> Clusters \cup {Nil}]
    /\ listed \in [Callers -> [Clusters -> Row \cup {Nil}]]
    /\ todo \in [Callers -> SUBSET Clusters]
    /\ victim \in [Callers -> Clusters \cup {Nil}]
    /\ loaded \in [Callers -> ClusterManager \cup {Nil}]
    /\ answer \in [Callers -> Answers]
    /\ builder \in [Callers -> [Clusters -> Stages]]
    /\ stop \in [Callers -> [Clusters -> Caches \cup {Nil}]]

------------------------------------------------------------------------------
(* The process: a start finds nothing in memory, whatever the table holds. *)

Everywhere(v) == [c \in Clusters |-> v]

NothingListed == Everywhere(Nil)

ForAll(v) == [p \in Callers |-> v]

Init ==
    /\ db \in [Clusters -> Row \cup {Nil}]
    /\ registry = Everywhere(Nil)
    /\ factory = Everywhere(Nil)
    /\ closed = {}
    /\ pc = ForAll("idle")
    /\ target = ForAll(Nil)
    /\ listed = ForAll(NothingListed)
    /\ todo = ForAll({})
    /\ victim = ForAll(Nil)
    /\ loaded = ForAll(Nil)
    /\ answer = ForAll("none")
    /\ builder = ForAll(Everywhere("idle"))
    /\ stop = ForAll(Everywhere(Nil))

\* The process ends and is started again: memory is lost, the table is not.
Restart ==
    /\ registry' = Everywhere(Nil)
    /\ factory' = Everywhere(Nil)
    /\ closed' = {}
    /\ pc' = ForAll("idle")
    /\ target' = ForAll(Nil)
    /\ listed' = ForAll(NothingListed)
    /\ todo' = ForAll({})
    /\ victim' = ForAll(Nil)
    /\ loaded' = ForAll(Nil)
    /\ answer' = ForAll("none")
    /\ builder' = ForAll(Everywhere("idle"))
    /\ stop' = ForAll(Everywhere(Nil))
    /\ UNCHANGED db

------------------------------------------------------------------------------
(* The table, as the cluster controller writes it.                         *)

WriteRow(c, row) ==
    /\ db' = [db EXCEPT ![c] = row]
    /\ UNCHANGED <<registry, factory, closed, callerVars, builderVars>>

\* The body of the request becomes the row, whatever status it carries.
AddCluster(c, row) ==
    /\ "add" \in Env
    /\ db[c] = Nil
    /\ WriteRow(c, row)

\* First must find the name; Save then writes every column of the body.
UpdateClusterByName(c, row) ==
    /\ "update" \in Env
    /\ db[c] # Nil
    /\ WriteRow(c, row)

DeleteClusterByName(c) ==
    /\ db[c] # Nil
    /\ \/ "softDelete" \in Env /\ WriteRow(c, [db[c] EXCEPT !.deleted = TRUE])
       \/ "delete" \in Env /\ WriteRow(c, Nil)

\* The handlers of the cluster controller.  First and Save are one step: what a
\* Save of a stale row leaves is a row some other Update could have written.
Create(c) == \E row \in Row : AddCluster(c, row)

Update(c) == \E row \in Row : UpdateClusterByName(c, row)

Delete(c) == DeleteClusterByName(c)

\* The WHERE clause of GetAllNormalClusters.
Normal(row) == row # Nil /\ row.status = "normal" /\ ~row.deleted

\* Mutant: the WHERE clause forgets the status.
AllButDeleted == [c \in Clusters |-> IF db[c] # Nil /\ ~db[c].deleted THEN db[c] ELSE Nil]

GetAllNormalClusters == [c \in Clusters |-> IF Normal(db[c]) THEN db[c] ELSE Nil]

------------------------------------------------------------------------------
(* Manager and the resync: entering and leaving BuildApiserverClient.      *)

AnswerFor(m) ==
    IF m.cluster.status = "maintaining" THEN "maintaining"
    ELSE IF m.cache = Nil THEN "unready" ELSE "served"

\* Manager, called by Cluster, Client and KubeClient and by every handler: a
\* miss refreshes the registry once before it answers.
ManagerCalled(p, c) ==
    /\ p \in Requests
    /\ pc[p] = "idle"
    /\ target' = [target EXCEPT ![p] = c]
    /\ \/ /\ registry[c] # Nil
          /\ answer' = [answer EXCEPT ![p] = AnswerFor(registry[c])]
          /\ UNCHANGED pc
       \/ /\ registry[c] = Nil
          /\ pc' = [pc EXCEPT ![p] = "list"]
          /\ answer' = [answer EXCEPT ![p] = "none"]
    /\ UNCHANGED <<db, registry, factory, closed, listed, todo, victim, loaded,
                   builderVars>>

\* The second Load of Manager.
ManagerAnswers(p) ==
    /\ pc[p] = "load"
    /\ pc' = [pc EXCEPT ![p] = "idle"]
    /\ answer' = [answer EXCEPT ![p] =
           IF registry[target[p]] = Nil THEN "notExist" ELSE AnswerFor(registry[target[p]])]
    /\ UNCHANGED <<db, registry, factory, closed, target, listed, todo, victim,
                   loaded, builderVars>>

\* wait.Forever calls BuildApiserverClient again 5 seconds after it returned.
TickerFires ==
    /\ pc[Ticker] = "idle"
    /\ pc' = [pc EXCEPT ![Ticker] = "list"]
    /\ UNCHANGED <<db, registry, factory, closed, target, listed, todo, victim,
                   loaded, answer, builderVars>>

\* Where a caller goes when BuildApiserverClient returns.
AfterBuild(p) == IF p = Ticker THEN "idle" ELSE "load"

\* A query that fails makes BuildApiserverClient return at once.
ListFails(p) ==
    /\ "dbError" \in Env
    /\ pc[p] = "list"
    /\ pc' = [pc EXCEPT ![p] = AfterBuild(p)]
    /\ UNCHANGED <<db, registry, factory, closed, target, listed, todo, victim,
                   loaded, answer, builderVars>>

\* cleanUpDeletedClusters then visits every key of the map that was not
\* returned; sync.Map.Range may meet them in any order.
ListClusters(p) ==
    /\ pc[p] = "list"
    /\ pc' = [pc EXCEPT ![p] = "range"]
    /\ listed' = [listed EXCEPT ![p] = GetAllNormalClusters]
    /\ todo' = [todo EXCEPT ![p] = {c \in Clusters : GetAllNormalClusters[c] = Nil}]
    /\ UNCHANGED <<db, registry, factory, closed, target, victim, loaded, answer,
                   builderVars>>

------------------------------------------------------------------------------
(* cleanUpDeletedClusters                                                  *)

\* A panic in the resync ends the process (wait.Forever's HandleCrash panics
\* again); gin.Recovery turns one in a handler into a 500.
Panic(p) ==
    \/ p = Ticker /\ Restart
    \/ /\ p \in Requests
       /\ pc' = [pc EXCEPT ![p] = "idle"]
       /\ answer' = [answer EXCEPT ![p] = "error"]
       /\ listed' = [listed EXCEPT ![p] = NothingListed]
       /\ todo' = [todo EXCEPT ![p] = {}]
       /\ victim' = [victim EXCEPT ![p] = Nil]
       /\ loaded' = [loaded EXCEPT ![p] = Nil]
       /\ UNCHANGED <<db, registry, factory, closed, target, builderVars>>

\* Range meets key c, or finds that it has no value.
VisitKey(p, c) ==
    /\ pc[p] = "range"
    /\ c \in todo[p]
    /\ todo' = [todo EXCEPT ![p] = @ \ {c}]
    /\ \/ registry[c] = Nil /\ UNCHANGED <<pc, victim>>
       \/ /\ registry[c] # Nil
          /\ pc' = [pc EXCEPT ![p] = "reload"]
          /\ victim' = [victim EXCEPT ![p] = c]
    /\ UNCHANGED <<db, registry, factory, closed, target, listed, loaded, answer,
                   builderVars>>

\* Mutant: the manager is deleted without Close.
SkipsClose(p) ==
    /\ pc[p] = "reload"
    /\ registry[victim[p]] # Nil
    /\ loaded' = [loaded EXCEPT ![p] = registry[victim[p]]]
    /\ pc' = [pc EXCEPT ![p] = "remove"]
    /\ UNCHANGED <<db, registry, factory, closed, target, listed, todo, victim, answer,
                   builderVars>>

\* The second Load, whose "ok" is dropped: the type assertion panics on nil.
ReloadManager(p) ==
    /\ pc[p] = "reload"
    /\ \/ registry[victim[p]] = Nil /\ Panic(p)
       \/ /\ registry[victim[p]] # Nil
          /\ loaded' = [loaded EXCEPT ![p] = registry[victim[p]]]
          /\ pc' = [pc EXCEPT ![p] = "close"]
          /\ UNCHANGED <<db, registry, factory, closed, target, listed, todo,
                         victim, answer, builderVars>>

\* Mutant: the informers were given another channel than the one Close closes.
StopsNothing(k) == UNCHANGED factory

\* Informers run until the channel they were started with is closed.
StopInformers(k) ==
    factory' = [c \in Clusters |->
        IF factory[c] # Nil /\ factory[c].stop = k /\ factory[c].informers = "running"
        THEN [factory[c] EXCEPT !.informers = "stopped"]
        ELSE factory[c]]

\* Mutant: Close tolerates a channel that is closed already.
ClosesAgain(p) ==
    /\ pc[p] = "close"
    /\ loaded[p].cache # Nil
    /\ closed' = closed \cup {loaded[p].cache}
    /\ StopInformers(loaded[p].cache)
    /\ pc' = [pc EXCEPT ![p] = "remove"]
    /\ UNCHANGED <<db, registry, target, listed, todo, victim, loaded, answer,
                   builderVars>>

\* ClusterManager.Close: a placeholder has no CacheFactory, and a channel is
\* closed once.
CloseManager(p) ==
    /\ pc[p] = "close"
    /\ \/ loaded[p].cache \in closed \cup {Nil} /\ Panic(p)
       \/ /\ loaded[p].cache \notin closed \cup {Nil}
          /\ closed' = closed \cup {loaded[p].cache}
          /\ StopInformers(loaded[p].cache)
          /\ pc' = [pc EXCEPT ![p] = "remove"]
          /\ UNCHANGED <<db, registry, target, listed, todo, victim, loaded, answer,
                         builderVars>>

\* Mutant: a closed manager is not deleted.
KeepsManager(p) ==
    /\ pc[p] = "remove"
    /\ pc' = [pc EXCEPT ![p] = "range"]
    /\ victim' = [victim EXCEPT ![p] = Nil]
    /\ loaded' = [loaded EXCEPT ![p] = Nil]
    /\ UNCHANGED <<db, registry, factory, closed, target, listed, todo, answer, builderVars>>

\* clusterManagerSets.Delete: by key, whatever manager is there now.
RemoveManager(p) ==
    /\ pc[p] = "remove"
    /\ registry' = [registry EXCEPT ![victim[p]] = Nil]
    /\ pc' = [pc EXCEPT ![p] = "range"]
    /\ victim' = [victim EXCEPT ![p] = Nil]
    /\ loaded' = [loaded EXCEPT ![p] = Nil]
    /\ UNCHANGED <<db, factory, closed, target, listed, todo, answer, builderVars>>

\* Mutant: the loop runs over every name, listed or not.
BuildsUnlisted(p) ==
    /\ pc[p] = "range"
    /\ todo[p] = {}
    /\ pc' = [pc EXCEPT ![p] = "build"]
    /\ todo' = [todo EXCEPT ![p] = Clusters]
    /\ UNCHANGED <<db, registry, factory, closed, target, listed, victim, loaded,
                   answer, builderVars>>

CleanUpEnds(p) ==
    /\ pc[p] = "range"
    /\ todo[p] = {}
    /\ pc' = [pc EXCEPT ![p] = "build"]
    /\ todo' = [todo EXCEPT ![p] = {c \in Clusters : listed[p][c] # Nil}]
    /\ UNCHANGED <<db, registry, factory, closed, target, listed, victim, loaded,
                   answer, builderVars>>

------------------------------------------------------------------------------
(* The loop of BuildApiserverClient and its wg.Wait                        *)

\* Mutant: a cluster without an entry is not built.
BuildsOnlyKnown(row, m) ==
    m # Nil /\ <<m.cluster.config, m.cluster.status>> # <<row.config, row.status>>

\* isClusterUnchanged, which answers TRUE when the cluster must be built.
IsClusterUnchanged(row, m) ==
    m # Nil => <<m.cluster.config, m.cluster.status>> # <<row.config, row.status>>

SpawnOrSkip(p, c) ==
    /\ pc[p] = "build"
    /\ c \in todo[p]
    /\ todo' = [todo EXCEPT ![p] = @ \ {c}]
    /\ \/ IsClusterUnchanged(listed[p][c], registry[c])
          /\ builder' = [builder EXCEPT ![p][c] = "claim"]
       \/ ~IsClusterUnchanged(listed[p][c], registry[c]) /\ UNCHANGED builder
    /\ UNCHANGED <<db, registry, factory, closed, pc, target, listed, victim,
                   loaded, answer, stop>>

WaitEnds(p) ==
    /\ pc[p] = "build"
    /\ todo[p] = {}
    /\ \A c \in Clusters : builder[p][c] = "idle"
    /\ pc' = [pc EXCEPT ![p] = AfterBuild(p)]
    /\ listed' = [listed EXCEPT ![p] = NothingListed]
    /\ UNCHANGED <<db, registry, factory, closed, target, todo, victim, loaded,
                   answer, builderVars>>

------------------------------------------------------------------------------
(* The builder goroutine                                                   *)

Placeholder(row) == [cluster |-> row, cache |-> Nil]

At(p, c, stage) == builder[p][c] = stage

GoTo(p, c, stage) == builder' = [builder EXCEPT ![p][c] = stage]

\* Mutant: Store instead of LoadOrStore.
ClaimsAnyway(p, c) ==
    /\ At(p, c, "claim")
    /\ registry' = [registry EXCEPT ![c] = Placeholder(listed[p][c])]
    /\ GoTo(p, c, "client")
    /\ UNCHANGED <<db, factory, closed, callerVars, stop>>

\* Mutant: the early return of a builder that finds an entry skips wg.Done.
ClaimsWithoutDone(p, c) ==
    /\ At(p, c, "claim")
    /\ registry[c] = Nil
    /\ registry' = [registry EXCEPT ![c] = Placeholder(listed[p][c])]
    /\ GoTo(p, c, "client")
    /\ UNCHANGED <<db, factory, closed, callerVars, stop>>

\* LoadOrStore of the placeholder: an entry, of whatever age, ends the build.
ClaimCluster(p, c) ==
    /\ At(p, c, "claim")
    /\ \/ /\ registry[c] = Nil
          /\ registry' = [registry EXCEPT ![c] = Placeholder(listed[p][c])]
          /\ GoTo(p, c, "client")
       \/ registry[c] # Nil /\ GoTo(p, c, "idle") /\ UNCHANGED registry
    /\ UNCHANGED <<db, factory, closed, callerVars, stop>>

\* An error return of the builder: the placeholder stays.
GivesUp(p, c) ==
    /\ GoTo(p, c, "idle")
    /\ UNCHANGED <<db, registry, closed, callerVars, stop>>

\* buildClient, the dynamic client and the CRD client: only local work.
BuildClients(p, c) ==
    /\ At(p, c, "client")
    /\ \/ "client" \in BuildFailures /\ GivesUp(p, c) /\ UNCHANGED factory
       \/ /\ GoTo(p, c, "factory")
          /\ UNCHANGED <<db, registry, factory, closed, callerVars, stop>>

\* getSharedInformerFactory, the Load.
FindFactory(p, c) ==
    /\ At(p, c, "factory")
    /\ GoTo(p, c, IF factory[c] = Nil THEN "newFactory" ELSE "discover")
    /\ UNCHANGED <<db, registry, factory, closed, callerVars, stop>>

\* getSharedInformerFactory, the Store: a factory lists with one client for ever.
StoreFactory(p, c) ==
    /\ At(p, c, "newFactory")
    /\ factory' = [factory EXCEPT ![c] =
           [config |-> listed[p][c].config, informers |-> "idle", stop |-> Nil]]
    /\ GoTo(p, c, "discover")
    /\ UNCHANGED <<db, registry, closed, callerVars, stop>>

\* Addresses no goroutine can reach any more, or never allocated.
FreshCaches ==
    {k \in Caches :
        /\ \A c \in Clusters : registry[c] # Nil => registry[c].cache # k
        /\ \A c \in Clusters : factory[c] # Nil => factory[c].stop # k
        /\ \A p \in Callers : loaded[p] # Nil => loaded[p].cache # k
        /\ \A p \in Callers, c \in Clusters : stop[p][c] # k}

NewStop == CHOOSE k \in FreshCaches : TRUE

\* go Informer().Run(stop): an informer that has started never runs again.
RunInformers(c, k) ==
    factory' = [factory EXCEPT ![c] =
        IF @.informers = "idle"
        THEN [@ EXCEPT !.informers = "running", !.stop = k]
        ELSE @]

\* The loop over the resources: ForResource may fail after some informers were
\* started, with a stop channel nobody else will ever hold.
StartInformers(p, c) ==
    /\ FreshCaches # {}
    /\ RunInformers(c, NewStop)
    /\ closed' = closed \ {NewStop}
    /\ \/ "resource" \in BuildFailures /\ GoTo(p, c, "idle") /\ UNCHANGED stop
       \/ GoTo(p, c, "store") /\ stop' = [stop EXCEPT ![p][c] = NewStop]
    /\ UNCHANGED <<db, registry, callerVars>>

\* buildCacheController, from GetResourceMap on.
BuildCacheController(p, c) ==
    /\ At(p, c, "discover")
    /\ \/ "discovery" \in BuildFailures /\ GivesUp(p, c) /\ UNCHANGED factory
       \/ StartInformers(p, c)

\* clusterManagerSets.Store of the complete manager.
StoreManager(p, c) ==
    /\ At(p, c, "store")
    /\ registry' = [registry EXCEPT ![c] =
           [cluster |-> listed[p][c], cache |-> stop[p][c]]]
    /\ stop' = [stop EXCEPT ![p][c] = Nil]
    /\ GoTo(p, c, "idle")
    /\ UNCHANGED <<db, factory, closed, callerVars>>

------------------------------------------------------------------------------
BuilderStep(p, c) ==
    \/ ClaimCluster(p, c)
    \/ BuildClients(p, c)
    \/ FindFactory(p, c)
    \/ StoreFactory(p, c)
    \/ BuildCacheController(p, c)
    \/ StoreManager(p, c)

CallerStep(p) ==
    \/ ListClusters(p)
    \/ ListFails(p)
    \/ ReloadManager(p)
    \/ CloseManager(p)
    \/ RemoveManager(p)
    \/ CleanUpEnds(p)
    \/ WaitEnds(p)
    \/ ManagerAnswers(p)
    \/ \E c \in Clusters : VisitKey(p, c) \/ SpawnOrSkip(p, c)

Admin(c) == Create(c) \/ Update(c) \/ Delete(c)

\* The process is killed and started again.
Kill == "kill" \in Env /\ Restart

Next ==
    \/ \E c \in Clusters : Admin(c)
    \/ \E p \in Callers, c \in Clusters : ManagerCalled(p, c) \/ BuilderStep(p, c)
    \/ \E p \in Callers : CallerStep(p)
    \/ TickerFires
    \/ Kill

Spec == Init /\ [][Next]_vars

\* The Go scheduler runs every goroutine that can run, wait.Forever calls
\* again, and the database does not fail the resync for ever.  Nobody has to
\* send a request, write the table or kill the process.
Fairness ==
    /\ WF_vars(TickerFires)
    /\ SF_vars(ListClusters(Ticker))
    /\ \A p \in Callers : WF_vars(CallerStep(p))
    /\ \A p \in Callers, c \in Clusters : WF_vars(BuilderStep(p, c))

FairSpec == Spec /\ Fairness

------------------------------------------------------------------------------
(* Properties                                                              *)

\* A builder past its LoadOrStore.
Building(p, c) == builder[p][c] \notin {"idle", "claim"}

\* LoadOrStore lets one builder per cluster through, and no cleanup takes its
\* placeholder away before it stores the manager (client.go:70-79,107).
OneBuilder ==
    \A c \in Clusters, p \in Callers :
        Building(p, c) =>
            /\ registry[c] = Placeholder(listed[p][c])
            /\ \A q \in Callers : Building(q, c) => q = p

\* cleanUpDeletedClusters deletes by key, but the manager it finds there is the
\* one it has just closed: no live manager is dropped with its informers
\* running, however requests, resync and builders interleave (client.go:186-189).
RemovesWhatItClosed ==
    \A p \in Callers :
        pc[p] = "remove" =>
            /\ registry[victim[p]] = loaded[p]
            /\ loaded[p].cache \in closed

Running(c) == factory[c] # Nil /\ factory[c].informers = "running"

\* Informers never outlive the entry through which they can be stopped: a
\* cluster without an entry has none running (cache.go:22-26,52).
NoOrphanInformers ==
    \A c \in Clusters : Running(c) => registry[c] # Nil

\* The Load and the Store of getSharedInformerFactory are two steps, yet no
\* factory is ever replaced by a second one (cache.go:63-69).
FactoryBuiltOnce ==
    \A p \in Callers, c \in Clusters :
        builder[p][c] = "newFactory" => factory[c] = Nil

\* The life of an entry: see ManagerLifecycle.
Phase(c) ==
    IF registry[c] = Nil THEN "absent"
    ELSE IF registry[c].cache = Nil THEN "building"
    ELSE IF registry[c].cache \in closed THEN "closing"
    ELSE "ready"

RegisteredRow(c) == IF registry[c] = Nil THEN Nil ELSE registry[c].cluster

Lifecycle == INSTANCE ManagerLifecycle WITH
    phase <- [c \in Clusters |-> Phase(c)],
    row   <- [c \in Clusters |-> RegisteredRow(c)],
    Rows  <- Row

\* Every step of the registry is a step of the life cycle: absent, building,
\* ready, closing, absent, with one row throughout, never replaced in place.
FollowsLifecycle == Lifecycle!Spec

\* An entry whose informers were stopped is eventually deleted.
ClosingEnds == Lifecycle!ClosingEnds

\* A cluster that stays deleted, absent or in maintenance leaves the registry
\* for good (the promise of the comment at client.go:51).
RemovedClustersLeave ==
    \A c \in Clusters : <>[](~Normal(db[c])) => <>[](registry[c] = Nil)

\* Every call of Manager returns: wg.Wait waits for builders that end.
RequestsReturn == \A p \in Requests : pc[p] # "idle" ~> pc[p] = "idle"

\* The entry is what a failed build left behind.
Failed(c) == Phase(c) = "building" /\ \A p \in Callers : ~Building(p, c)

\* A cluster that stays normal is eventually served by a complete manager for
\* good, unless its build fails, whatever cleanups on old listings and panics of
\* the resync do meanwhile (client.go:42-124).
NormalClustersBecomeReady ==
    \A c \in Clusters : <>[]Normal(db[c]) => <>[](Phase(c) = "ready" \/ Failed(c))

------------------------------------------------------------------------------
(* What comments of the source say, and the code does not do               *)

\* client.go:30, 51 and cache.go:23, concurrent access to the managers is safe,
\* and the cleanup closes and deletes those of deleted clusters: it never meets
\* an absent, an incomplete or a closed one, on each of which it panics.
CleanupsDoNotPanic ==
    \A p \in Callers :
        /\ pc[p] = "reload" => registry[victim[p]] # Nil
        /\ pc[p] = "close" => loaded[p].cache \notin closed \cup {Nil}

==============================================================================
