------------------------------ MODULE LazyClients ------------------------------
(***************************************************************************)
(* The lazy registry of cluster clients of gwayne:                         *)
(*   pkg/kubernetes/client/lazy_client.go     managers, their locks, the   *)
(*                                            cleanup goroutine,           *)
(*   pkg/kubernetes/client/lazy_interface.go  Client, KubeClient, Manager, *)
(*   pkg/kubernetes/client/cache.go           the shared informer          *)
(*                                            factories it builds on.      *)
(*                                                                         *)
(* Any number of Callers, and one Cleaner.  What a goroutine does while it *)
(* holds a lock for reading is one step; initialize, which builds clients  *)
(* and informers while it holds the lock for writing, is several, and so   *)
(* is Close.  One informer stands for those of a factory.                  *)
(***************************************************************************)
EXTENDS FiniteSets

CONSTANTS
    Clusters,       \* names of rows of the table
    Callers,        \* goroutines that ask for a client
    Cleaner,        \* the goroutine of startCleanup
    Managers,       \* addresses of LazyClusterManager objects
    Caches,         \* addresses of stop channels
    Factories,      \* addresses of SharedInformerFactory objects
    Nil,
    BuildFailures   \* where initialize may fail

\* "client" is an error of initialize; "discovery" and "resource" are errors of
\* buildCacheController, before and after informers were started.
BuildStages == {"client", "discovery", "resource"}

Procs == Callers \cup {Cleaner}

\* Where a caller is inside initialize, with the lock.
Building == {"build", "newFactory", "start", "register"}

Statuses == {"normal", "maintaining"}

CacheFactory == [stop : Caches, factory : Factories]

\* registered: a builder has asked for the informer and will Run it.  running:
\* somebody has called Run; a second Run returns at once.  started: the channel of
\* the goroutine of Start that Runs the informer, until it returns.  Shutdown waits
\* for that one and for no builder's, whose channels are therefore left out.
SharedInformerFactory ==
    [registered : BOOLEAN, running : BOOLEAN, started : Caches \cup {Nil},
     shuttingDown : BOOLEAN]

NewSharedInformerFactory ==
    [registered |-> FALSE, running |-> FALSE, started |-> Nil, shuttingDown |-> FALSE]

\* due: idle for longer than maxIdleTime, or accessed more than maxAccessCount
\* times.  lock: who holds mu for writing.
LazyClusterManager ==
    [cluster     : Clusters,
     status      : Statuses,
     initialized : BOOLEAN,
     cache       : CacheFactory \cup {Nil},
     due         : BOOLEAN,
     lock        : Procs \cup {Nil}]

ASSUME LazyAssumption ==
    /\ Cleaner \notin Callers
    /\ BuildFailures \subseteq BuildStages
    /\ Nil \notin Statuses \cup Clusters \cup Procs \cup Managers \cup Caches
              \cup Factories \cup CacheFactory \cup LazyClusterManager

VARIABLES
    managers,   \* lcm.managers
    object,     \* the LazyClusterManager at each address
    current,    \* sharedInformerFactoryCache
    informers,  \* the SharedInformerFactory at each address
    closed,     \* the closed channels
    stopped,    \* lcm.stopChan is closed
    pc,         \* where each goroutine is
    wanted,     \* the name the goroutine works on
    held,       \* the manager it points to
    found,      \* the factory a builder got from getSharedInformerFactory
    channel,    \* the channel it made
    todo,       \* the keys the Cleaner has still to visit
    toDelete    \* the keys it has marked

cleanerVars == <<todo, toDelete>>
vars == <<managers, object, current, informers, closed, stopped, pc, wanted, held,
          found, channel, todo, toDelete>>

Locations == {"idle", "query", "store", "get", "lock"} \cup Building
             \cup {"range", "mark", "sweep", "close", "shutdown", "delete"}

TypeOK ==
    /\ managers \in [Clusters -> Managers \cup {Nil}]
    /\ object \in [Managers -> LazyClusterManager \cup {Nil}]
    /\ current \in [Clusters -> Factories \cup {Nil}]
    /\ informers \in [Factories -> SharedInformerFactory]
    /\ closed \in SUBSET Caches
    /\ stopped \in BOOLEAN
    /\ pc \in [Procs -> Locations]
    /\ wanted \in [Procs -> Clusters \cup {Nil}]
    /\ held \in [Procs -> Managers \cup {Nil}]
    /\ found \in [Procs -> Factories \cup {Nil}]
    /\ channel \in [Procs -> Caches \cup {Nil}]
    /\ todo \in SUBSET Clusters
    /\ toDelete \in SUBSET Clusters

Init ==
    /\ managers = [c \in Clusters |-> Nil]
    /\ object = [m \in Managers |-> Nil]
    /\ current = [c \in Clusters |-> Nil]
    /\ informers = [f \in Factories |-> NewSharedInformerFactory]
    /\ closed = {}
    /\ stopped = FALSE
    /\ pc = [p \in Procs |-> "idle"]
    /\ wanted = [p \in Procs |-> Nil]
    /\ held = [p \in Procs |-> Nil]
    /\ found = [p \in Procs |-> Nil]
    /\ channel = [p \in Procs |-> Nil]
    /\ todo = {}
    /\ toDelete = {}

------------------------------------------------------------------------------
(* What the goroutines can still reach; the rest is garbage, and its        *)
(* addresses may be allocated again.                                        *)

Referenced(mgrs, h) ==
    ({mgrs[c] : c \in Clusters} \cup {h[p] : p \in Procs}) \ {Nil}

LiveManagers == Referenced(managers, held)

LiveCaches == {object[m].cache : m \in {n \in LiveManagers : object[n].cache # Nil}}

LiveFactories ==
    {f \in Factories :
        \/ \E c \in Clusters : current[c] = f
        \/ \E p \in Procs : found[p] = f
        \/ \E k \in LiveCaches : k.factory = f}

FreshManagers == Managers \ LiveManagers

FreshFactories == Factories \ LiveFactories

FreshCaches ==
    Caches \ ({k.stop : k \in LiveCaches} \cup {channel[p] : p \in Procs}
                 \cup {informers[f].started : f \in Factories})

\* The references change; a manager they leave behind is forgotten, so that states
\* only differ in what can matter.
Refer(mgrs, h, o) ==
    /\ managers' = mgrs
    /\ held' = h
    /\ object' = [m \in Managers |-> IF m \in Referenced(mgrs, h) THEN o[m] ELSE Nil]

Pick(S) == CHOOSE x \in S : TRUE

------------------------------------------------------------------------------
(* The time                                                                *)

\* Thirty minutes without an access make every manager that exists due.
IdleTimePasses ==
    /\ object' = [m \in Managers |->
           IF m \in LiveManagers THEN [object[m] EXCEPT !.due = TRUE] ELSE object[m]]
    /\ UNCHANGED <<managers, current, informers, closed, stopped, pc, wanted, held, found, channel,
                   cleanerVars>>

------------------------------------------------------------------------------
(* GetCluster                                                              *)

\* updateAccess: not idle any more.  accessCount is incremented without a lock
\* that excludes others, so whether it is past the maximum is left open.
AfterAccess(o) == {[o EXCEPT !.due = d] : d \in BOOLEAN}

GetCluster(p, c) ==
    /\ pc[p] = "idle"
    /\ wanted' = [wanted EXCEPT ![p] = c]
    /\ \/ /\ managers[c] # Nil
          /\ object' \in {[object EXCEPT ![managers[c]] = o] :
                              o \in AfterAccess(object[managers[c]])}
          /\ held' = [held EXCEPT ![p] = managers[c]]
          /\ pc' = [pc EXCEPT ![p] = "get"]
       \/ /\ managers[c] = Nil
          /\ pc' = [pc EXCEPT ![p] = "query"]
          /\ UNCHANGED <<object, held>>
    /\ UNCHANGED <<managers, current, informers, closed, stopped, found, channel, cleanerVars>>

NewManager(p, row) ==
    [cluster |-> wanted[p], status |-> row, initialized |-> FALSE, cache |-> Nil,
     due |-> FALSE, lock |-> Nil]

\* Mutant: the error of GetClusterByName is ignored.
IgnoresMissingRow(p) ==
    /\ pc[p] = "query"
    /\ FreshManagers # {}
    /\ LET m == Pick(FreshManagers)
       IN /\ held' = [held EXCEPT ![p] = m]
          /\ object' \in {[object EXCEPT ![m] = NewManager(p, row)] :
                              row \in Statuses \cup {Nil}}
    /\ pc' = [pc EXCEPT ![p] = "store"]
    /\ UNCHANGED <<managers, current, informers, closed, stopped, wanted, found, channel,
                   cleanerVars>>

\* GetClusterByName, then a new manager with a copy of the row.  The table changes
\* at any time, so the row has any status, or is missing.
QueryCluster(p) ==
    /\ pc[p] = "query"
    /\ \/ /\ pc' = [pc EXCEPT ![p] = "idle"]
          /\ wanted' = [wanted EXCEPT ![p] = Nil]
          /\ UNCHANGED <<object, held>>
       \/ /\ FreshManagers # {}
          /\ LET m == Pick(FreshManagers)
             IN /\ held' = [held EXCEPT ![p] = m]
                /\ object' \in {[object EXCEPT ![m] = NewManager(p, row)] : row \in Statuses}
          /\ pc' = [pc EXCEPT ![p] = "store"]
          /\ UNCHANGED wanted
    /\ UNCHANGED <<managers, current, informers, closed, stopped, found, channel, cleanerVars>>

\* managers.Store: whatever is there by now is replaced.
StoreManager(p) ==
    /\ pc[p] = "store"
    /\ Refer([managers EXCEPT ![wanted[p]] = held[p]], held, object)
    /\ pc' = [pc EXCEPT ![p] = "get"]
    /\ UNCHANGED <<current, informers, closed, stopped, wanted, found, channel, cleanerVars>>

\* LazyClient.Manager and LazyClient.Cluster return here.
ReturnsManager(p) ==
    /\ pc[p] = "get"
    /\ Refer(managers, [held EXCEPT ![p] = Nil], object)
    /\ pc' = [pc EXCEPT ![p] = "idle"]
    /\ wanted' = [wanted EXCEPT ![p] = Nil]
    /\ UNCHANGED <<current, informers, closed, stopped, found, channel, cleanerVars>>

------------------------------------------------------------------------------
(* GetClient and GetKubeClient                                             *)

Mine(p) == object[held[p]]

Free(m) == object[m].lock = Nil

\* The caller returns and leaves its manager as o.
Returns(p, o) ==
    /\ Refer(managers, [held EXCEPT ![p] = Nil], [object EXCEPT ![held[p]] = o])
    /\ pc' = [pc EXCEPT ![p] = "idle"]
    /\ found' = [found EXCEPT ![p] = Nil]
    /\ channel' = [channel EXCEPT ![p] = Nil]
    /\ wanted' = [wanted EXCEPT ![p] = Nil]
    /\ UNCHANGED <<stopped, cleanerVars>>

\* It returns with a clientset or a handler, and releases the lock it may hold.
Serves(p, o) == \E r \in AfterAccess([o EXCEPT !.lock = Nil]) : Returns(p, r)

\* The part under RLock.
GetClient(p) ==
    /\ pc[p] = "get"
    /\ Free(held[p])
    /\ \/ /\ Mine(p).initialized
          /\ Serves(p, Mine(p))
          /\ UNCHANGED <<current, informers, closed>>
       \/ /\ ~Mine(p).initialized
          /\ pc' = [pc EXCEPT ![p] = "lock"]
          /\ UNCHANGED <<managers, object, current, informers, closed, stopped, wanted, held,
                         found, channel, cleanerVars>>

\* Mutant: the second check, under the lock, is missing, and initialize does not
\* look at initialized.
LocksWithoutCheck(p) ==
    /\ pc[p] = "lock"
    /\ Free(held[p])
    /\ Mine(p).status = "normal"
    /\ object' = [object EXCEPT ![held[p]].lock = p]
    /\ pc' = [pc EXCEPT ![p] = "build"]
    /\ UNCHANGED <<managers, current, informers, closed, stopped, wanted, held, found, channel,
                   cleanerVars>>

\* Lock, the second check, and the status of the copied row.
LockManager(p) ==
    /\ pc[p] = "lock"
    /\ Free(held[p])
    /\ \/ Mine(p).initialized /\ Serves(p, Mine(p))
       \/ /\ ~Mine(p).initialized
          /\ Mine(p).status = "maintaining"
          /\ Returns(p, Mine(p))
       \/ /\ ~Mine(p).initialized
          /\ Mine(p).status = "normal"
          /\ object' = [object EXCEPT ![held[p]].lock = p]
          /\ pc' = [pc EXCEPT ![p] = "build"]
          /\ UNCHANGED <<managers, stopped, wanted, held, found, channel, cleanerVars>>
    /\ UNCHANGED <<current, informers, closed>>

\* Mutant: an error of initialize returns without Unlock.
ForgetsUnlock(p) ==
    /\ pc[p] = "build"
    /\ \/ /\ "client" \in BuildFailures
          /\ Returns(p, Mine(p))
       \/ /\ found' = [found EXCEPT ![p] = current[Mine(p).cluster]]
          /\ pc' = [pc EXCEPT ![p] =
                 IF current[Mine(p).cluster] = Nil THEN "newFactory" ELSE "start"]
          /\ UNCHANGED <<managers, object, stopped, wanted, held, channel, cleanerVars>>
    /\ UNCHANGED <<current, informers, closed>>

\* The clients, then the Load of getSharedInformerFactory.
BuildClients(p) ==
    /\ pc[p] = "build"
    /\ \/ /\ "client" \in BuildFailures
          /\ Returns(p, [Mine(p) EXCEPT !.lock = Nil])
       \/ /\ found' = [found EXCEPT ![p] = current[Mine(p).cluster]]
          /\ pc' = [pc EXCEPT ![p] =
                 IF current[Mine(p).cluster] = Nil THEN "newFactory" ELSE "start"]
          /\ UNCHANGED <<managers, object, stopped, wanted, held, channel, cleanerVars>>
    /\ UNCHANGED <<current, informers, closed>>

\* The Store of getSharedInformerFactory.
StoreFactory(p) ==
    /\ pc[p] = "newFactory"
    /\ FreshFactories # {}
    /\ LET f == Pick(FreshFactories)
       IN /\ current' = [current EXCEPT ![Mine(p).cluster] = f]
          /\ found' = [found EXCEPT ![p] = f]
          /\ informers' = [informers EXCEPT ![f] = NewSharedInformerFactory]
    /\ pc' = [pc EXCEPT ![p] = "start"]
    /\ UNCHANGED <<managers, object, closed, stopped, wanted, held, channel, cleanerVars>>

\* Start starts what is registered and was not started before; what is running
\* already it starts in vain.
Starts(i) == i.registered /\ ~i.running /\ ~i.shuttingDown /\ i.started = Nil

\* The channel, and factory.Start, whoever has registered the informer.
StartFactory(p) ==
    /\ pc[p] = "start"
    /\ FreshCaches # {}
    /\ LET f == found[p]
           k == Pick(FreshCaches)
       IN /\ channel' = [channel EXCEPT ![p] = k]
          /\ closed' = closed \ {k}
          /\ informers' = IF Starts(informers[f])
                          THEN [informers EXCEPT ![f].started = k] ELSE informers
    /\ pc' = [pc EXCEPT ![p] = "register"]
    /\ UNCHANGED <<managers, object, current, stopped, wanted, held, found, cleanerVars>>

\* The rest of buildCacheController, go Informer().Run(stop), and of initialize:
\* without a cache when the discovery or a resource failed.
RegisterInformers(p) ==
    LET f == found[p]
        registered == [informers EXCEPT ![f].registered = TRUE]
        done == [Mine(p) EXCEPT !.initialized = TRUE]
    IN /\ pc[p] = "register"
       /\ \/ /\ informers' = registered
             /\ Serves(p, [done EXCEPT !.cache = [stop |-> channel[p], factory |-> f]])
          \/ "discovery" \in BuildFailures /\ UNCHANGED informers /\ Serves(p, done)
          \/ "resource" \in BuildFailures /\ informers' = registered /\ Serves(p, done)
       /\ UNCHANGED <<current, closed>>

\* The goroutine of Start, if there is one, or a builder's calls Run first.  Start's
\* returns when it comes second, and when its channel is closed.
RunInformer(f) ==
    /\ informers[f].registered
    /\ ~informers[f].running
    /\ informers' \in {[informers EXCEPT ![f].running = TRUE, ![f].started = k] :
                          k \in {informers[f].started, Nil} \ closed}
    /\ UNCHANGED <<managers, object, current, closed, stopped, pc, wanted, held, found,
                   channel, cleanerVars>>

------------------------------------------------------------------------------
(* The cleanup                                                             *)

\* The ticker of startCleanup, until Stop.
CleanupStarts ==
    /\ pc[Cleaner] = "idle"
    /\ ~stopped
    /\ pc' = [pc EXCEPT ![Cleaner] = "range"]
    /\ todo' = Clusters
    /\ UNCHANGED <<managers, object, current, informers, closed, stopped, wanted, held,
                   found, channel, toDelete>>

VisitKey(c) ==
    /\ pc[Cleaner] = "range"
    /\ c \in todo
    /\ todo' = todo \ {c}
    /\ \/ managers[c] = Nil /\ UNCHANGED <<pc, wanted, held>>
       \/ /\ managers[c] # Nil
          /\ wanted' = [wanted EXCEPT ![Cleaner] = c]
          /\ held' = [held EXCEPT ![Cleaner] = managers[c]]
          /\ pc' = [pc EXCEPT ![Cleaner] = "mark"]
    /\ UNCHANGED <<managers, object, current, informers, closed, stopped, found, channel, toDelete>>

\* Mutant: the test of the idle time is the wrong way round.
MarksBusy ==
    /\ pc[Cleaner] = "mark"
    /\ Free(held[Cleaner])
    /\ toDelete' = IF Mine(Cleaner).due THEN toDelete ELSE toDelete \cup {wanted[Cleaner]}
    /\ Refer(managers, [held EXCEPT ![Cleaner] = Nil], object)
    /\ wanted' = [wanted EXCEPT ![Cleaner] = Nil]
    /\ pc' = [pc EXCEPT ![Cleaner] = "range"]
    /\ UNCHANGED <<current, informers, closed, stopped, found, channel, todo>>

\* RLock, the idle time and the access count.
MarkManager ==
    /\ pc[Cleaner] = "mark"
    /\ Free(held[Cleaner])
    /\ toDelete' = IF Mine(Cleaner).due THEN toDelete \cup {wanted[Cleaner]} ELSE toDelete
    /\ Refer(managers, [held EXCEPT ![Cleaner] = Nil], object)
    /\ wanted' = [wanted EXCEPT ![Cleaner] = Nil]
    /\ pc' = [pc EXCEPT ![Cleaner] = "range"]
    /\ UNCHANGED <<current, informers, closed, stopped, found, channel, todo>>

RangeEnds ==
    /\ pc[Cleaner] = "range"
    /\ todo = {}
    /\ pc' = [pc EXCEPT ![Cleaner] = "sweep"]
    /\ UNCHANGED <<managers, object, current, informers, closed, stopped, wanted, held,
                   found, channel, cleanerVars>>

\* The name is loaded again: another manager may be there by now.
LoadVictim(c) ==
    /\ pc[Cleaner] = "sweep"
    /\ c \in toDelete
    /\ toDelete' = toDelete \ {c}
    /\ \/ managers[c] = Nil /\ UNCHANGED <<pc, wanted, held>>
       \/ /\ managers[c] # Nil
          /\ wanted' = [wanted EXCEPT ![Cleaner] = c]
          /\ held' = [held EXCEPT ![Cleaner] = managers[c]]
          /\ pc' = [pc EXCEPT ![Cleaner] = "close"]
    /\ UNCHANGED <<managers, object, current, informers, closed, stopped, found, channel, todo>>

\* The informer that runs on the channel ends, whatever its factory.
ShutDown(cache) ==
    [f \in Factories |->
        [informers[f] EXCEPT
            !.started = IF informers[f].running /\ @ = cache.stop THEN Nil ELSE @,
            !.shuttingDown = @ \/ f = cache.factory]]

\* LazyClusterManager.Close takes the lock and closes the channel, which would
\* panic if it were closed already, see ClosesOnce.
Close ==
    /\ pc[Cleaner] = "close"
    /\ Free(held[Cleaner])
    /\ \/ /\ Mine(Cleaner).cache = Nil
          /\ object' = [object EXCEPT ![held[Cleaner]].initialized = FALSE]
          /\ pc' = [pc EXCEPT ![Cleaner] = "delete"]
          /\ UNCHANGED <<informers, closed>>
       \/ /\ Mine(Cleaner).cache # Nil
          /\ object' = [object EXCEPT ![held[Cleaner]].lock = Cleaner]
          /\ closed' = closed \cup {Mine(Cleaner).cache.stop}
          /\ informers' = ShutDown(Mine(Cleaner).cache)
          /\ pc' = [pc EXCEPT ![Cleaner] = "shutdown"]
    /\ UNCHANGED <<managers, current, stopped, wanted, held, found, channel, cleanerVars>>

\* The factory of the cache that Close closes.
Shut == informers[Mine(Cleaner).cache.factory]

\* Mutant: Close forgets to reset the cache.
CloseKeepsCache ==
    /\ pc[Cleaner] = "shutdown"
    /\ Shut.started = Nil
    /\ object' = [object EXCEPT ![held[Cleaner]].initialized = FALSE,
                                ![held[Cleaner]].lock = Nil]
    /\ pc' = [pc EXCEPT ![Cleaner] = "delete"]
    /\ UNCHANGED <<managers, current, informers, closed, stopped, wanted, held, found,
                   channel, cleanerVars>>

\* Mutant: Close forgets to give up the lock.
CloseKeepsLock ==
    /\ pc[Cleaner] = "shutdown"
    /\ Shut.started = Nil
    /\ object' = [object EXCEPT ![held[Cleaner]].initialized = FALSE,
                                ![held[Cleaner]].cache = Nil]
    /\ pc' = [pc EXCEPT ![Cleaner] = "delete"]
    /\ UNCHANGED <<managers, current, informers, closed, stopped, wanted, held, found,
                   channel, cleanerVars>>

\* Shutdown has waited for the informer of the factory, whoever started it; then
\* the fields are reset and the lock is given up.
ShutdownEnds ==
    /\ pc[Cleaner] = "shutdown"
    /\ Shut.started = Nil
    /\ object' = [object EXCEPT ![held[Cleaner]].initialized = FALSE,
                                ![held[Cleaner]].cache = Nil,
                                ![held[Cleaner]].lock = Nil]
    /\ pc' = [pc EXCEPT ![Cleaner] = "delete"]
    /\ UNCHANGED <<managers, current, informers, closed, stopped, wanted, held, found,
                   channel, cleanerVars>>

\* managers.Delete, by name.
DeleteManager ==
    /\ pc[Cleaner] = "delete"
    /\ Refer([managers EXCEPT ![wanted[Cleaner]] = Nil],
             [held EXCEPT ![Cleaner] = Nil], object)
    /\ wanted' = [wanted EXCEPT ![Cleaner] = Nil]
    /\ pc' = [pc EXCEPT ![Cleaner] = "sweep"]
    /\ UNCHANGED <<current, informers, closed, stopped, found, channel, cleanerVars>>

SweepEnds ==
    /\ pc[Cleaner] = "sweep"
    /\ toDelete = {}
    /\ pc' = [pc EXCEPT ![Cleaner] = "idle"]
    /\ UNCHANGED <<managers, object, current, informers, closed, stopped, wanted, held,
                   found, channel, cleanerVars>>

\* Stop: a second one panics in its caller, and changes nothing.
Stop(p) ==
    /\ pc[p] = "idle"
    /\ stopped' = TRUE
    /\ UNCHANGED <<managers, object, current, informers, closed, pc, wanted, held, found, channel,
                   cleanerVars>>

------------------------------------------------------------------------------
CallerStep(p) ==
    \/ QueryCluster(p)
    \/ StoreManager(p)
    \/ GetClient(p)
    \/ LockManager(p)
    \/ BuildClients(p)
    \/ StoreFactory(p)
    \/ StartFactory(p)
    \/ RegisterInformers(p)

CleanerStep ==
    \/ \E c \in Clusters : VisitKey(c) \/ LoadVictim(c)
    \/ MarkManager
    \/ RangeEnds
    \/ Close
    \/ ShutdownEnds
    \/ DeleteManager
    \/ SweepEnds

Next ==
    \/ IdleTimePasses
    \/ \E p \in Callers, c \in Clusters : GetCluster(p, c)
    \/ \E p \in Callers : CallerStep(p) \/ ReturnsManager(p) \/ Stop(p)
    \/ \E f \in Factories : RunInformer(f)
    \/ CleanupStarts
    \/ CleanerStep

Spec == Init /\ [][Next]_vars

\* Goroutines run; a Go RWMutex does not let a waiter starve; the ticker ticks.
Fairness ==
    /\ \A p \in Callers : SF_vars(CallerStep(p))
    /\ \A f \in Factories : WF_vars(RunInformer(f))
    /\ SF_vars(CleanerStep)
    /\ WF_vars(CleanupStarts)

FairSpec == Spec /\ Fairness

------------------------------------------------------------------------------
(* Properties                                                              *)

Caching(m) == m \in LiveManagers /\ object[m].cache # Nil

Closing(m) == pc[Cleaner] = "shutdown" /\ held[Cleaner] = m

\* No stop channel is closed twice, which would panic: a manager that still has
\* a cache has one that is open, until Close closes it, and shares its channel with
\* no other manager (lazy_client.go:230-245).
ClosesOnce ==
    \A m, n \in Managers :
        Caching(m) =>
            /\ object[m].cache.stop \in closed => Closing(m)
            /\ Caching(n) /\ object[n].cache.stop = object[m].cache.stop => n = m

\* A manager lets go of a cache only by closing it: neither two callers that
\* initialize at once nor a cleanup between them overwrite one with its
\* informers running (lazy_client.go:112-125,162-165).
ClosedBeforeReplaced ==
    [][\A m \in Managers :
          Caching(m) /\ m \in LiveManagers' /\ object'[m].cache # object[m].cache =>
              object[m].cache.stop \in closed']_vars

\* Who holds the lock of a manager works on that manager: a caller that initializes
\* it and waits for no lock, or Close, which waits for an informer.  So no chain of
\* locks comes about, and no lock is left behind by one that has gone
\* (lazy_client.go:112-128,229-245).
LocksHaveHolders ==
    \A m \in LiveManagers :
        ~Free(m) => LET p == object[m].lock
                    IN held[p] = m /\ pc[p] \in IF p = Cleaner THEN {"shutdown"} ELSE Building

\* Close, with the lock held, waits for an informer that Start of another manager
\* or of an earlier initialize runs on a channel nobody has closed.
Hung == pc[Cleaner] = "shutdown" /\ Shut.running /\ Shut.started # Nil

\* Every call of a client ends, and every pass of the cleanup, unless Close meets
\* such an informer: nothing else keeps a lock another waits for
\* (lazy_client.go:101-159,229-245,263-293, cache.go:105-113).
EveryCallEnds == \A p \in Procs : pc[p] # "idle" ~> pc[p] = "idle" \/ Hung

\* Unless the manager is stopped or Close hangs, nothing in the map stays idle or
\* worn out for ever (lazy_client.go:263-293).
DueManagersLeave ==
    []~(stopped \/ Hung) =>
        \A c \in Clusters, m \in Managers : []<>~(managers[c] = m /\ object[m].due)

================================================================================
