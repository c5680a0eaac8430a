--------------------------- MODULE LazyClientsProofs ---------------------------
(***************************************************************************)
(* Proofs about LazyClients.  A manager that is being initialized or closed *)
(* is locked by who does it (Locked, LocksHaveHolders), one that is not     *)
(* initialized has no cache (Live), and a new stop channel is one of which  *)
(* nobody has a reference (Unshared).  From there: no stop channel is       *)
(* closed twice, none is forgotten open, every lock is in the hands of who  *)
(* works under it, and a Close that hangs does so for good.                 *)
(***************************************************************************)
EXTENDS LazyClients, TLAPS

Wanting ==
    {"query", "store", "get", "lock", "mark", "close", "shutdown", "delete"} \cup Building

Holding == Wanting \ {"query"}

\* What a goroutine has at hand where it is.
PlacedAt(p) ==
    /\ pc[p] \in Wanting => wanted[p] \in Clusters
    /\ pc[p] \in Holding => held[p] \in Managers
    /\ pc[p] \in {"start", "register"} => found[p] \in Factories
    /\ pc[p] = "register" => channel[p] \in Caches

Placed == \A p \in Procs : PlacedAt(p)

\* Who initializes a manager has locked it, and so has who closes it.
Fits(p, l, o) ==
    /\ l \in Building => o.lock = p /\ ~o.initialized
    /\ l = "shutdown" => o.lock = p /\ o.cache # Nil

Locked == \A p \in Procs : Fits(p, pc[p], object[held[p]])

\* Whatever is referenced is there, and has a cache only if it is initialized.
Live ==
    \A m \in LiveManagers :
        /\ object[m] \in LazyClusterManager
        /\ ~object[m].initialized => object[m].cache = Nil

\* The channel a builder has just made is open, and nobody else's.
Unshared ==
    \A p \in Procs : channel[p] # Nil =>
        /\ channel[p] \notin closed
        /\ \A q \in Procs : channel[q] = channel[p] => q = p
        /\ \A m \in Managers : Caching(m) => object[m].cache.stop # channel[p]

\* Close waits after it has closed the channel.
ClosesFirst ==
    \A m \in Managers : Caching(m) /\ Closing(m) => object[m].cache.stop \in closed

IInv ==
    /\ TypeOK /\ Placed /\ Locked /\ Live /\ LocksHaveHolders
    /\ Unshared /\ ClosesOnce /\ ClosesFirst

------------------------------------------------------------------------------
(* What a step does                                                        *)

\* Where a goroutine works under a lock.
At(p) == IF p = Cleaner THEN {"shutdown"} ELSE Building

\* Nobody else moves.
Moves(p) ==
    \A q \in Procs \ {p} :
        /\ pc'[q] = pc[q] /\ wanted'[q] = wanted[q] /\ held'[q] = held[q]
        /\ found'[q] = found[q] /\ channel'[q] = channel[q]

\* A manager stays as it is but for being due,
Same(m) ==
    /\ m \in LiveManagers
    /\ object'[m] \in LazyClusterManager
    /\ object'[m].cache = object[m].cache
    /\ object'[m].initialized = object[m].initialized
    /\ object'[m].lock = object[m].lock

\* is changed by one who takes, has or releases its lock,
Own(m, p) ==
    /\ m \in LiveManagers
    /\ object[m].lock \in {Nil, p}
    /\ object'[m] \in LazyClusterManager
    /\ object'[m].lock \in {Nil, p}
    /\ ~object'[m].initialized => object'[m].cache = Nil

\* or is new.
New(m) ==
    /\ m \notin LiveManagers
    /\ object'[m] \in LazyClusterManager
    /\ object'[m].cache = Nil
    /\ object'[m].lock = Nil

Touches(p) == Moves(p) /\ \A m \in LiveManagers' : Same(m) \/ Own(m, p) \/ New(m)

\* A manager that lets go of a cache has closed it.
Released ==
    \A m \in Managers :
        Caching(m) /\ m \in LiveManagers' /\ object'[m].cache # object[m].cache =>
            object[m].cache.stop \in closed'

------------------------------------------------------------------------------
LEMMA NilIsNone ==
    /\ Nil \notin Clusters /\ Nil \notin Managers /\ Nil \notin Procs /\ Nil \notin Caches
    /\ Nil \notin Factories /\ Nil \notin LazyClusterManager /\ Nil \notin CacheFactory
BY LazyAssumption

LEMMA CleanerIsProc ==
    Cleaner \in Procs /\ \A p \in Callers : p \in Procs /\ p # Cleaner /\ At(p) = Building
BY LazyAssumption DEF Procs, At

LEMMA Places ==
    /\ {"idle", "query", "store", "get", "lock", "range", "sweep", "mark", "close",
        "shutdown", "delete"} \cup Building \subseteq Locations
    /\ {"idle", "range", "sweep"} \cap Wanting = {}
    /\ "query" \notin Holding /\ "query" \in Wanting /\ Holding \subseteq Wanting
    /\ {"store", "get", "lock", "mark", "close", "shutdown", "delete"} \cup Building
           \subseteq Holding
    /\ {"idle", "query", "store", "get", "lock", "range", "sweep", "mark", "close",
        "shutdown", "delete"} \cap Building = {}
    /\ {"build", "newFactory", "start", "register"} = Building
BY DEF Locations, Building, Wanting, Holding

LEMMA InitInv == Init => IInv
<1> SUFFICES ASSUME Init PROVE IInv
  OBVIOUS
<1>1. TypeOK
  BY DEF Init, TypeOK, Locations, SharedInformerFactory, NewSharedInformerFactory
<1>2. LiveManagers = {}
  BY DEF Init, LiveManagers, Referenced
<1>3. Placed /\ Locked
  BY Places DEF Init, Placed, PlacedAt, Locked, Fits, Holding
<1>4. Unshared
  BY DEF Init, Unshared
<1>5. QED
  BY <1>1, <1>2, <1>3, <1>4 DEF IInv, Live, ClosesOnce, ClosesFirst, Caching, LocksHaveHolders

LEMMA LiveType == ASSUME TypeOK PROVE LiveManagers \subseteq Managers
BY DEF TypeOK, LiveManagers, Referenced

LEMMA HeldLive ==
    ASSUME TypeOK
    PROVE  /\ \A p \in Procs : held[p] \in Managers => held[p] \in LiveManagers
           /\ \A c \in Clusters : managers[c] # Nil => managers[c] \in LiveManagers
BY NilIsNone DEF LiveManagers, Referenced

\* The manager of a goroutine.
LEMMA MineType ==
    ASSUME IInv, NEW p \in Procs, pc[p] \in Holding
    PROVE  held[p] \in Managers /\ held[p] \in LiveManagers /\ wanted[p] \in Clusters
           /\ Mine(p) \in LazyClusterManager /\ object[held[p]] = Mine(p)
<1>1. held[p] \in Managers /\ wanted[p] \in Clusters
  BY DEF IInv, Placed, PlacedAt, Holding
<1>2. QED
  BY <1>1, HeldLive DEF IInv, Live, Mine

\* Who works under no lock has none, and nobody has two.
LEMMA LocksOf ==
    ASSUME IInv, NEW p \in Procs, NEW m \in LiveManagers, object[m].lock = p
    PROVE  held[p] = m /\ pc[p] \in At(p)
<1>1. p # Nil
  BY NilIsNone
<1>2. QED
  BY <1>1 DEF IInv, LocksHaveHolders, Free, At

\* Whoever works under a lock, what others do leaves the manager to it.
LEMMA Effects ==
    ASSUME IInv, TypeOK', NEW p \in Procs, Touches(p), PlacedAt(p)',
           Fits(p, pc'[p], object'[held'[p]]),
           \A m \in LiveManagers' : object'[m].lock = p => held'[p] = m /\ pc'[p] \in At(p)
    PROVE  Placed' /\ Locked' /\ Live' /\ LocksHaveHolders'
<1>1. Placed'
  BY DEF IInv, Placed, PlacedAt, Touches, Moves
<1>2. ASSUME NEW q \in Procs \ {p} PROVE Fits(q, pc'[q], object'[held'[q]])
  <2>1. pc'[q] = pc[q] /\ held'[q] = held[q] /\ Fits(q, pc[q], object[held[q]])
    BY DEF IInv, Locked, Touches, Moves
  <2>2. CASE pc[q] \notin Building \cup {"shutdown"}
    BY <2>1, <2>2 DEF Fits
  <2>3. CASE pc[q] \in Building \cup {"shutdown"}
    <3>1. held[q] \in Managers /\ held[q] \in LiveManagers
      BY <2>3, Places, MineType
    <3>2. held[q] \in LiveManagers'
      BY <2>1, <3>1, NilIsNone DEF LiveManagers, Referenced
    <3>3. object[held[q]].lock = q /\ q # Nil
      BY <2>1, <2>3, NilIsNone DEF Fits
    <3>4. Same(held[q])
      BY <3>1, <3>2, <3>3 DEF Touches, Own, New
    <3>5. QED
      BY <2>1, <3>4 DEF Same, Fits
  <2>4. QED
    BY <2>2, <2>3
<1>3. Locked'
  BY <1>2 DEF Locked
<1>4. Live'
  BY DEF IInv, Live, Touches, Same, Own, New
<1>5. ASSUME NEW m \in LiveManagers', object'[m].lock # Nil
      PROVE  LET q == object'[m].lock IN held'[q] = m /\ pc'[q] \in At(q)
  <2>1. CASE object'[m].lock = p
    BY <2>1
  <2>2. CASE object'[m].lock # p
    <3>1. Same(m)
      BY <1>5, <2>2 DEF Touches, Own, New
    <3>2. object[m].lock \in Procs \ {p} /\ m \in LiveManagers /\ object'[m].lock = object[m].lock
      BY <1>5, <2>2, <3>1 DEF Same, LazyClusterManager
    <3>3. QED
      BY <3>2, LocksOf DEF Touches, Moves
  <2>3. QED
    BY <2>1, <2>2
<1>6. LocksHaveHolders'
  BY <1>5 DEF LocksHaveHolders, Free, At
<1>7. QED
  BY <1>1, <1>3, <1>4, <1>6

\* Where the caches stay, the channels stay.
LEMMA Channels ==
    ASSUME IInv, TypeOK', closed' = closed, \A q \in Procs : channel'[q] \in {channel[q], Nil},
           \A m \in Managers : Caching(m)' =>
               /\ Caching(m)
               /\ object'[m].cache = object[m].cache
               /\ Closing(m)' <=> Closing(m)
    PROVE  Unshared' /\ ClosesOnce' /\ ClosesFirst'
<1>1. Unshared'
  BY DEF IInv, Unshared
<1>2. ClosesOnce'
  BY DEF IInv, ClosesOnce
<1>3. ClosesFirst'
  BY DEF IInv, ClosesFirst
<1>4. QED
  BY <1>1, <1>2, <1>3

LEMMA Closings ==
    ASSUME NEW p \in Procs, Moves(p), p # Cleaner \/ "shutdown" \notin {pc[p], pc'[p]}
    PROVE  \A m \in Managers : Closing(m)' <=> Closing(m)
BY CleanerIsProc DEF Moves, Closing

\* A step of one goroutine without a lock.
LEMMA StaysInv ==
    ASSUME IInv, TypeOK', NEW p \in Procs, Moves(p), PlacedAt(p)',
           UNCHANGED <<closed, channel>>, \A m \in LiveManagers' : Same(m),
           pc[p] \notin At(p), pc'[p] \notin Building \cup {"shutdown"}
    PROVE  IInv' /\ Released /\ Touches(p)
<1>1. Touches(p) /\ Fits(p, pc'[p], object'[held'[p]])
  BY DEF Touches, Fits
<1>2. \A m \in LiveManagers' : object'[m].lock # p
  BY LocksOf DEF Same
<1>3. Placed' /\ Locked' /\ Live' /\ LocksHaveHolders'
  BY <1>1, <1>2, Effects
<1>4. \A m \in Managers : Closing(m)' <=> Closing(m)
  BY Closings DEF At
<1>5. \A m \in Managers : Caching(m)' => Caching(m) /\ object'[m].cache = object[m].cache
  BY DEF Caching, Same
<1>6. Unshared' /\ ClosesOnce' /\ ClosesFirst'
  BY <1>4, <1>5, Channels
<1>7. Released
  BY DEF Released, Same
<1>8. QED
  BY <1>1, <1>3, <1>6, <1>7 DEF IInv

\* No goroutine moves.
LEMMA QuietInv ==
    ASSUME IInv, TypeOK', UNCHANGED <<pc, wanted, held, found, channel, closed>>,
           \A m \in LiveManagers' : Same(m)
    PROVE  IInv' /\ Released
<1>1. Touches(Cleaner) /\ PlacedAt(Cleaner)'
  BY CleanerIsProc DEF Touches, Moves, IInv, Placed, PlacedAt
<1>2. \A m \in LiveManagers' : object'[m].lock = Cleaner =>
          held'[Cleaner] = m /\ pc'[Cleaner] \in At(Cleaner)
  BY LocksOf, CleanerIsProc DEF Same
<1>3. Fits(Cleaner, pc'[Cleaner], object'[held'[Cleaner]])
  <2>1. CASE pc[Cleaner] \notin Holding
    BY <2>1, Places DEF Fits
  <2>2. CASE pc[Cleaner] \in Holding
    <3>1. held[Cleaner] \in LiveManagers'
      BY <2>2, CleanerIsProc, MineType, NilIsNone DEF LiveManagers, Referenced
    <3>2. QED
      BY <3>1, CleanerIsProc DEF Same, Fits, IInv, Locked
  <2>3. QED
    BY <2>1, <2>2
<1>4. Placed' /\ Locked' /\ Live' /\ LocksHaveHolders'
  BY <1>1, <1>2, <1>3, CleanerIsProc, Effects
<1>5. \A m \in Managers : Caching(m)' => Caching(m) /\ object'[m].cache = object[m].cache
  BY DEF Caching, Same
<1>6. Unshared' /\ ClosesOnce' /\ ClosesFirst'
  BY <1>5, Channels DEF Closing
<1>7. Released
  BY DEF Released, Same
<1>8. QED
  BY <1>4, <1>6, <1>7 DEF IInv

LEMMA AccessType ==
    ASSUME NEW o \in LazyClusterManager, NEW r \in AfterAccess(o)
    PROVE  /\ r \in LazyClusterManager /\ r.cache = o.cache /\ r.initialized = o.initialized
           /\ r.lock = o.lock
BY DEF AfterAccess, LazyClusterManager

\* References that are given up, and what is left behind them.
LEMMA Referred ==
    ASSUME IInv, NEW mgrs, NEW h, NEW o, Refer(mgrs, h, o),
           \A c \in Clusters : mgrs[c] \in LiveManagers \cup {Nil},
           \A q \in Procs : h[q] \in LiveManagers \cup {Nil}
    PROVE  /\ LiveManagers' \subseteq LiveManagers
           /\ \A m \in LiveManagers' : object'[m] = o[m]
<1>1. LiveManagers' = Referenced(mgrs, h)
  BY DEF Refer, LiveManagers, Referenced
<1>2. Referenced(mgrs, h) \subseteq LiveManagers
  BY DEF Referenced
<1>3. QED
  BY <1>1, <1>2, LiveType DEF Refer, IInv

LEMMA SameObject ==
    ASSUME IInv, LiveManagers' \subseteq LiveManagers,
           \A m \in LiveManagers' : object'[m] = object[m]
    PROVE  \A m \in LiveManagers' : Same(m)
BY DEF Same, IInv, Live

\* A call ends and leaves its manager as o.
LEMMA ReturnsMoves ==
    ASSUME IInv, NEW p \in Callers, pc[p] \in Holding, NEW o \in LazyClusterManager,
           o.lock = Nil, ~o.initialized => o.cache = Nil,
           Mine(p).lock \in {Nil, p}, Returns(p, o),
           current' \in [Clusters -> Factories \cup {Nil}],
           informers' \in [Factories -> SharedInformerFactory],
           closed' \in SUBSET Caches
    PROVE  /\ TypeOK' /\ Placed' /\ Locked' /\ Live' /\ LocksHaveHolders' /\ Touches(p)
           /\ LiveManagers' \subseteq LiveManagers
           /\ \A m \in LiveManagers' : object'[m] = IF m = held[p] THEN o ELSE object[m]
<1> DEFINE h == [held EXCEPT ![p] = Nil]
           oo == [object EXCEPT ![held[p]] = o]
<1>1. p \in Procs /\ p # Cleaner /\ At(p) = Building
  BY CleanerIsProc
<1>2. held[p] \in Managers /\ held[p] \in LiveManagers /\ object[held[p]] = Mine(p)
  BY <1>1, MineType
<1>3. Refer(managers, h, oo)
  BY DEF Returns
<1>4. /\ \A c \in Clusters : managers[c] \in LiveManagers \cup {Nil}
      /\ \A q \in Procs : h[q] = IF q = p THEN Nil ELSE held[q]
      /\ \A q \in Procs : h[q] \in LiveManagers \cup {Nil}
      /\ \A m \in Managers : oo[m] = IF m = held[p] THEN o ELSE object[m]
  BY <1>2, HeldLive DEF IInv, TypeOK
<1> HIDE DEF h, oo
<1>5. LiveManagers' \subseteq LiveManagers /\ \A m \in LiveManagers' : object'[m] = oo[m]
  BY <1>3, <1>4, Referred
<1>6. \A m \in LiveManagers' : object'[m] = IF m = held[p] THEN o ELSE object[m]
  BY <1>4, <1>5, LiveType DEF IInv
<1>7. TypeOK'
  <2>1. object' \in [Managers -> LazyClusterManager \cup {Nil}]
    BY <1>3, <1>4 DEF Refer, IInv, TypeOK
  <2>2. QED
    BY <1>1, <2>1, Places DEF Returns, Refer, cleanerVars, IInv, TypeOK
<1>8. Moves(p) /\ pc'[p] = "idle"
  BY <1>1 DEF Moves, Returns, Refer, IInv, TypeOK
<1>9. Touches(p)
  BY <1>2, <1>5, <1>6, <1>8 DEF Touches, Same, Own, IInv, Live
<1>10. PlacedAt(p)' /\ Fits(p, pc'[p], object'[held'[p]])
  BY <1>8, Places DEF PlacedAt, Fits
<1>11. \A m \in LiveManagers' : object'[m].lock # p
  <2>1. p # Nil
    BY <1>1, NilIsNone
  <2>2. QED
    BY <1>1, <1>5, <1>6, <2>1, LocksOf
<1>12. Placed' /\ Locked' /\ Live' /\ LocksHaveHolders'
  BY <1>1, <1>7, <1>9, <1>10, <1>11, Effects
<1>13. QED
  BY <1>5, <1>6, <1>7, <1>9, <1>12

\* One that does not build informers.
LEMMA ReturnsInv ==
    ASSUME IInv, NEW p \in Callers, pc[p] \in Holding, NEW o \in LazyClusterManager,
           o.lock = Nil, Mine(p).lock \in {Nil, p}, Returns(p, o),
           UNCHANGED <<current, informers, closed>>,
           o.cache = Mine(p).cache, o.initialized = Mine(p).initialized
    PROVE  IInv' /\ Released /\ Touches(p)
<1>1. p \in Procs /\ p # Cleaner
  BY CleanerIsProc
<1>2. held[p] \in LiveManagers /\ object[held[p]] = Mine(p)
  BY <1>1, MineType
<1>3. ~o.initialized => o.cache = Nil
  BY <1>2 DEF IInv, Live
<1>4. /\ TypeOK' /\ Placed' /\ Locked' /\ Live' /\ LocksHaveHolders' /\ Touches(p)
      /\ LiveManagers' \subseteq LiveManagers
      /\ \A m \in LiveManagers' : object'[m] = IF m = held[p] THEN o ELSE object[m]
  BY <1>3, ReturnsMoves DEF IInv, TypeOK
<1>5. \A m \in LiveManagers' : object'[m].cache = object[m].cache
  BY <1>2, <1>4
<1>6. \A m \in Managers : Closing(m)' <=> Closing(m)
  BY <1>1, <1>4, Closings DEF Touches
<1>7. \A m \in Managers : Caching(m)' => Caching(m) /\ object'[m].cache = object[m].cache
  BY <1>4, <1>5 DEF Caching
<1>8. \A q \in Procs : channel'[q] \in {channel[q], Nil}
  BY DEF Returns, IInv, TypeOK
<1>9. Unshared' /\ ClosesOnce' /\ ClosesFirst'
  BY <1>4, <1>6, <1>7, <1>8, Channels
<1>10. QED
  BY <1>4, <1>5, <1>9 DEF IInv, Released

LEMMA ServesInv ==
    ASSUME IInv, NEW p \in Callers, pc[p] \in Holding, Free(held[p]), Serves(p, Mine(p)),
           UNCHANGED <<current, informers, closed>>
    PROVE  IInv' /\ Released /\ Touches(p)
<1>1. Mine(p) \in LazyClusterManager /\ Mine(p).lock = Nil
  BY MineType, CleanerIsProc DEF Free, Mine
<1> DEFINE o == [Mine(p) EXCEPT !.lock = Nil]
<1>2. o \in LazyClusterManager /\ o.cache = Mine(p).cache /\ o.initialized = Mine(p).initialized
      /\ o.lock = Nil
  BY <1>1 DEF LazyClusterManager
<1>3. PICK r \in AfterAccess(o) : Returns(p, r)
  BY DEF Serves
<1> HIDE DEF o
<1>4. r \in LazyClusterManager /\ r.cache = Mine(p).cache
      /\ r.initialized = Mine(p).initialized /\ r.lock = Nil
  BY <1>2, <1>3, AccessType
<1>5. QED
  BY <1>1, <1>3, <1>4, ReturnsInv

------------------------------------------------------------------------------
(* The steps of a call                                                     *)

LEMMA GetClusterInv ==
    ASSUME IInv, NEW p \in Callers, NEW c \in Clusters, GetCluster(p, c)
    PROVE  IInv' /\ Released /\ Touches(p)
<1>1. p \in Procs /\ p # Cleaner /\ pc[p] = "idle" /\ pc[p] \notin At(p)
  BY CleanerIsProc, Places DEF GetCluster
<1>2. Moves(p) /\ UNCHANGED <<managers, closed, channel>>
  BY <1>1 DEF GetCluster, Moves, IInv, TypeOK
<1>3. CASE managers[c] # Nil
  <2> DEFINE m == managers[c]
  <2>1. m \in LiveManagers /\ m \in Managers /\ object[m] \in LazyClusterManager
    BY <1>3, HeldLive DEF IInv, Live, TypeOK
  <2>2. PICK o \in AfterAccess(object[m]) : object' = [object EXCEPT ![m] = o]
    BY <1>3 DEF GetCluster
  <2>3. /\ pc' = [pc EXCEPT ![p] = "get"] /\ held' = [held EXCEPT ![p] = m]
        /\ wanted' = [wanted EXCEPT ![p] = c]
        /\ UNCHANGED <<managers, current, informers, closed, stopped, found, channel, cleanerVars>>
    BY <1>3 DEF GetCluster
  <2> HIDE DEF m
  <2>4. o \in LazyClusterManager /\ o.cache = object[m].cache
        /\ o.initialized = object[m].initialized /\ o.lock = object[m].lock
    BY <2>1, <2>2, AccessType
  <2>5. TypeOK'
    BY <1>1, <2>1, <2>2, <2>3, <2>4, Places DEF IInv, TypeOK, cleanerVars
  <2>6. LiveManagers' \subseteq LiveManagers
    BY <1>1, <2>1, <2>3 DEF LiveManagers, Referenced, IInv, TypeOK
  <2>7. \A n \in Managers : object'[n] = IF n = m THEN o ELSE object[n]
    BY <2>1, <2>2 DEF IInv, TypeOK
  <2>8. \A n \in LiveManagers' : Same(n)
    BY <2>4, <2>6, <2>7, LiveType DEF Same, IInv, Live
  <2>9. PlacedAt(p)' /\ pc'[p] \notin Building \cup {"shutdown"}
    BY <1>1, <2>1, <2>3, Places DEF PlacedAt, IInv, TypeOK
  <2>10. QED
    BY <1>1, <1>2, <2>5, <2>8, <2>9, StaysInv
<1>4. CASE managers[c] = Nil
  <2>1. /\ pc' = [pc EXCEPT ![p] = "query"] /\ wanted' = [wanted EXCEPT ![p] = c]
        /\ UNCHANGED <<managers, object, current, informers, closed, stopped, held, found,
                       channel, cleanerVars>>
    BY <1>4 DEF GetCluster
  <2>2. TypeOK'
    BY <1>1, <2>1, Places DEF IInv, TypeOK, cleanerVars
  <2>3. \A n \in LiveManagers' : Same(n)
    BY <2>1, SameObject DEF LiveManagers, Referenced
  <2>4. PlacedAt(p)' /\ pc'[p] \notin Building \cup {"shutdown"}
    BY <1>1, <2>1, Places DEF PlacedAt, IInv, TypeOK
  <2>5. QED
    BY <1>1, <1>2, <2>2, <2>3, <2>4, StaysInv
<1>5. QED
  BY <1>3, <1>4

LEMMA QueryClusterInv ==
    ASSUME IInv, NEW p \in Callers, QueryCluster(p)
    PROVE  IInv' /\ Released /\ Touches(p)
<1>1. p \in Procs /\ p # Cleaner /\ pc[p] = "query" /\ pc[p] \notin At(p)
      /\ wanted[p] \in Clusters
  BY CleanerIsProc, Places DEF QueryCluster, IInv, Placed, PlacedAt
<1>2. Moves(p) /\ UNCHANGED <<managers, closed, channel>>
  BY <1>1 DEF QueryCluster, Moves, IInv, TypeOK
<1>3. CASE /\ pc' = [pc EXCEPT ![p] = "idle"] /\ wanted' = [wanted EXCEPT ![p] = Nil]
           /\ UNCHANGED <<object, held>>
  <2>1. UNCHANGED <<managers, current, informers, closed, stopped, found, channel, cleanerVars>>
    BY DEF QueryCluster
  <2>2. TypeOK'
    BY <1>1, <1>3, <2>1, Places DEF IInv, TypeOK, cleanerVars
  <2>3. \A n \in LiveManagers' : Same(n)
    BY <1>3, <2>1, SameObject DEF LiveManagers, Referenced
  <2>4. PlacedAt(p)' /\ pc'[p] \notin Building \cup {"shutdown"}
    BY <1>1, <1>3, Places DEF PlacedAt, IInv, TypeOK
  <2>5. QED
    BY <1>1, <1>2, <2>2, <2>3, <2>4, StaysInv
<1>4. CASE /\ FreshManagers # {}
           /\ LET m == Pick(FreshManagers)
              IN /\ held' = [held EXCEPT ![p] = m]
                 /\ object' \in {[object EXCEPT ![m] = NewManager(p, row)] : row \in Statuses}
           /\ pc' = [pc EXCEPT ![p] = "store"]
           /\ UNCHANGED wanted
  <2> DEFINE m == Pick(FreshManagers)
  <2>1. m \in Managers /\ m \notin LiveManagers
    BY <1>4 DEF Pick, FreshManagers
  <2>2. PICK row \in Statuses : object' = [object EXCEPT ![m] = NewManager(p, row)]
    BY <1>4
  <2> DEFINE o == NewManager(p, row)
  <2>3. o \in LazyClusterManager /\ o.cache = Nil /\ o.lock = Nil
    BY <1>1 DEF LazyClusterManager, NewManager
  <2>4. /\ held' = [held EXCEPT ![p] = m] /\ object' = [object EXCEPT ![m] = o]
        /\ UNCHANGED <<managers, current, informers, closed, stopped, wanted, found, channel,
                       cleanerVars>>
    BY <1>4, <2>2 DEF QueryCluster
  <2> HIDE DEF m, o
  <2>5. \A n \in Managers : object'[n] = IF n = m THEN o ELSE object[n]
    BY <2>1, <2>4 DEF IInv, TypeOK
  <2>6. TypeOK'
    BY <1>1, <1>4, <2>1, <2>3, <2>4, Places DEF IInv, TypeOK, cleanerVars
  <2>7. LiveManagers' \subseteq LiveManagers \cup {m}
    BY <1>1, <2>1, <2>4 DEF LiveManagers, Referenced, IInv, TypeOK
  <2>8. \A n \in LiveManagers' : IF n = m THEN New(n) ELSE Same(n)
    BY <2>1, <2>3, <2>5, <2>7, LiveType DEF New, Same, IInv, Live
  <2>9. Touches(p)
    BY <1>2, <2>8 DEF Touches
  <2>10. PlacedAt(p)' /\ Fits(p, pc'[p], object'[held'[p]])
         /\ pc'[p] \notin Building \cup {"shutdown"}
    BY <1>1, <1>4, <2>1, <2>4, Places DEF PlacedAt, Fits, IInv, TypeOK
  <2>11. \A n \in LiveManagers' : object'[n].lock # p
    BY <1>1, <2>8, NilIsNone, LocksOf DEF New, Same
  <2>12. Placed' /\ Locked' /\ Live' /\ LocksHaveHolders'
    BY <1>1, <2>6, <2>9, <2>10, <2>11, Effects
  <2>13. \A n \in Managers : Closing(n)' <=> Closing(n)
    BY <1>1, <1>2, Closings
  <2>14. \A n \in Managers : Caching(n)' => Caching(n) /\ object'[n].cache = object[n].cache
    BY <2>8 DEF Caching, New, Same
  <2>15. Unshared' /\ ClosesOnce' /\ ClosesFirst'
    BY <1>2, <2>6, <2>13, <2>14, Channels
  <2>16. Released
    BY <2>1, <2>8 DEF Released, Caching, Same
  <2>17. QED
    BY <2>6, <2>9, <2>12, <2>15, <2>16 DEF IInv
<1>5. QED
  BY <1>3, <1>4 DEF QueryCluster

LEMMA StoreManagerInv ==
    ASSUME IInv, NEW p \in Callers, StoreManager(p) \/ ReturnsManager(p)
    PROVE  IInv' /\ Released /\ Touches(p)
<1>1. p \in Procs /\ p # Cleaner /\ pc[p] \in {"store", "get"} /\ pc[p] \in Holding
      /\ pc[p] \notin At(p)
  BY CleanerIsProc, Places DEF StoreManager, ReturnsManager
<1>2. held[p] \in Managers /\ held[p] \in LiveManagers /\ wanted[p] \in Clusters
  BY <1>1, MineType
<1>3. PICK mgrs \in [Clusters -> Managers \cup {Nil}], h \in [Procs -> Managers \cup {Nil}] :
          /\ Refer(mgrs, h, object)
          /\ \A c \in Clusters : mgrs[c] \in LiveManagers \cup {Nil}
          /\ \A q \in Procs : h[q] \in LiveManagers \cup {Nil}
  <2>1. \A q \in Procs : held[q] \in LiveManagers \cup {Nil}
    BY HeldLive DEF IInv, TypeOK
  <2>2. CASE StoreManager(p)
    <3> DEFINE g == [managers EXCEPT ![wanted[p]] = held[p]]
    <3>1. /\ Refer(g, held, object) /\ g \in [Clusters -> Managers \cup {Nil}]
          /\ \A c \in Clusters : g[c] \in LiveManagers \cup {Nil}
          /\ held \in [Procs -> Managers \cup {Nil}]
      BY <1>2, <2>2, HeldLive DEF StoreManager, IInv, TypeOK
    <3> HIDE DEF g
    <3>2. QED
      BY <2>1, <3>1
  <2>3. CASE ReturnsManager(p)
    <3> DEFINE g == [held EXCEPT ![p] = Nil]
    <3>1. /\ Refer(managers, g, object) /\ managers \in [Clusters -> Managers \cup {Nil}]
          /\ \A c \in Clusters : managers[c] \in LiveManagers \cup {Nil}
          /\ g \in [Procs -> Managers \cup {Nil}]
          /\ \A q \in Procs : g[q] \in LiveManagers \cup {Nil}
      BY <2>1, <2>3, HeldLive DEF ReturnsManager, IInv, TypeOK
    <3> HIDE DEF g
    <3>2. QED
      BY <3>1
  <2>4. QED
    BY <2>2, <2>3
<1>4. LiveManagers' \subseteq LiveManagers /\ \A m \in LiveManagers' : object'[m] = object[m]
  BY <1>3, Referred
<1>5. \A m \in LiveManagers' : Same(m)
  BY <1>4, SameObject
<1>6. TypeOK'
  <2>1. /\ managers' \in [Clusters -> Managers \cup {Nil}]
        /\ held' \in [Procs -> Managers \cup {Nil}]
        /\ object' \in [Managers -> LazyClusterManager \cup {Nil}]
    BY <1>3 DEF Refer, IInv, TypeOK
  <2>2. QED
    BY <1>1, <2>1, Places DEF StoreManager, ReturnsManager, cleanerVars, IInv, TypeOK
<1>7. Moves(p)
  BY <1>1 DEF StoreManager, ReturnsManager, Refer, Moves, IInv, TypeOK
<1>8. PlacedAt(p)' /\ pc'[p] \notin Building \cup {"shutdown"}
  BY <1>1, <1>2, Places DEF StoreManager, ReturnsManager, Refer, PlacedAt, IInv, TypeOK
<1>9. UNCHANGED <<closed, channel>>
  BY DEF StoreManager, ReturnsManager
<1>10. QED
  BY <1>1, <1>5, <1>6, <1>7, <1>8, <1>9, StaysInv

LEMMA GetClientInv ==
    ASSUME IInv, NEW p \in Callers, GetClient(p)
    PROVE  IInv' /\ Released /\ Touches(p)
<1>1. p \in Procs /\ p # Cleaner /\ pc[p] = "get" /\ Free(held[p]) /\ pc[p] \in Holding
      /\ pc[p] \notin At(p)
  BY CleanerIsProc, Places DEF GetClient
<1>2. CASE Serves(p, Mine(p)) /\ UNCHANGED <<current, informers, closed>>
  BY <1>1, <1>2, ServesInv
<1>3. CASE pc' = [pc EXCEPT ![p] = "lock"]
           /\ UNCHANGED <<managers, object, current, informers, closed, stopped, wanted, held,
                          found, channel, cleanerVars>>
  <2>1. TypeOK'
    BY <1>1, <1>3, Places DEF IInv, TypeOK, cleanerVars
  <2>2. Moves(p) /\ UNCHANGED <<closed, channel>>
    BY <1>1, <1>3 DEF Moves, IInv, TypeOK
  <2>3. \A n \in LiveManagers' : Same(n)
    BY <1>3, SameObject DEF LiveManagers, Referenced
  <2>4. PlacedAt(p)' /\ pc'[p] \notin Building \cup {"shutdown"}
    BY <1>1, <1>3, Places DEF PlacedAt, IInv, Placed, TypeOK
  <2>5. QED
    BY <1>1, <2>1, <2>2, <2>3, <2>4, StaysInv
<1>4. QED
  BY <1>2, <1>3 DEF GetClient

\* A builder goes on, with the lock.
LEMMA BuildsInv ==
    ASSUME IInv, NEW p \in Callers, TypeOK', Moves(p), PlacedAt(p)',
           UNCHANGED <<managers, held, closed, channel>>, pc'[p] \in Building,
           Mine(p).lock \in {Nil, p}, pc[p] \in Holding,
           NEW o \in LazyClusterManager, o.lock = p, ~o.initialized,
           o.cache = Mine(p).cache, o.initialized = Mine(p).initialized,
           object' = [object EXCEPT ![held[p]] = o]
    PROVE  IInv' /\ Released /\ Touches(p)
<1>1. p \in Procs /\ p # Cleaner /\ At(p) = Building
  BY CleanerIsProc
<1>2. /\ held[p] \in Managers /\ held[p] \in LiveManagers /\ object[held[p]] = Mine(p)
      /\ ~o.initialized => o.cache = Nil
  BY <1>1, MineType DEF IInv, Live
<1>3. LiveManagers' = LiveManagers /\ LiveManagers \subseteq Managers
  BY LiveType DEF LiveManagers, Referenced, IInv
<1>4. \A m \in Managers : object'[m] = IF m = held[p] THEN o ELSE object[m]
  BY <1>2 DEF IInv, TypeOK
<1>5. Touches(p)
  BY <1>2, <1>3, <1>4 DEF Touches, Same, Own, IInv, Live
<1>6. Fits(p, pc'[p], object'[held'[p]])
  BY <1>2, <1>4, Places DEF Fits
<1>7. \A m \in LiveManagers' : object'[m].lock = p => held'[p] = m /\ pc'[p] \in At(p)
  BY <1>1, <1>3, <1>4, LocksOf
<1>8. Placed' /\ Locked' /\ Live' /\ LocksHaveHolders'
  BY <1>1, <1>5, <1>6, <1>7, Effects
<1>9. \A m \in Managers : Closing(m)' <=> Closing(m)
  BY <1>1, Closings
<1>10. \A m \in Managers : Caching(m)' => Caching(m) /\ object'[m].cache = object[m].cache
  BY <1>2, <1>3, <1>4 DEF Caching
<1>11. Unshared' /\ ClosesOnce' /\ ClosesFirst'
  BY <1>9, <1>10, Channels
<1>12. Released
  BY <1>2, <1>3, <1>4 DEF Released
<1>13. QED
  BY <1>5, <1>8, <1>11, <1>12 DEF IInv

LEMMA LockManagerInv ==
    ASSUME IInv, NEW p \in Callers, LockManager(p)
    PROVE  IInv' /\ Released /\ Touches(p)
<1>1. p \in Procs /\ p # Cleaner /\ pc[p] = "lock" /\ Free(held[p]) /\ pc[p] \in Holding
  BY CleanerIsProc, Places DEF LockManager
<1>2. /\ held[p] \in Managers /\ held[p] \in LiveManagers /\ wanted[p] \in Clusters
      /\ Mine(p) \in LazyClusterManager /\ object[held[p]] = Mine(p) /\ Mine(p).lock = Nil
  BY <1>1, MineType DEF Free, Mine
<1>3. UNCHANGED <<current, informers, closed>>
  BY DEF LockManager
<1>4. CASE Serves(p, Mine(p))
  BY <1>1, <1>3, <1>4, ServesInv
<1>5. CASE Returns(p, Mine(p))
  BY <1>1, <1>2, <1>3, <1>5, ReturnsInv
<1>6. CASE /\ ~Mine(p).initialized
           /\ object' = [object EXCEPT ![held[p]].lock = p]
           /\ pc' = [pc EXCEPT ![p] = "build"]
           /\ UNCHANGED <<managers, stopped, wanted, held, found, channel, cleanerVars>>
  <2> DEFINE o == [Mine(p) EXCEPT !.lock = p]
  <2>1. /\ o \in LazyClusterManager /\ o.cache = Mine(p).cache
        /\ o.initialized = Mine(p).initialized /\ o.lock = p /\ ~o.initialized
    BY <1>1, <1>2, <1>6 DEF LazyClusterManager
  <2>2. object' = [object EXCEPT ![held[p]] = o]
    BY <1>2, <1>6
  <2> HIDE DEF o
  <2>3. TypeOK'
    BY <1>1, <1>2, <1>3, <1>6, <2>1, <2>2, Places DEF IInv, TypeOK, cleanerVars
  <2>4. Moves(p) /\ pc'[p] = "build" /\ UNCHANGED <<managers, held, closed, channel>>
    BY <1>1, <1>3, <1>6 DEF Moves, IInv, TypeOK
  <2>5. PlacedAt(p)' /\ pc'[p] \in Building
    BY <1>2, <1>6, <2>4, Places DEF PlacedAt
  <2>6. QED
    BY <1>1, <1>2, <2>1, <2>2, <2>3, <2>4, <2>5, BuildsInv
<1>7. QED
  BY <1>4, <1>5, <1>6 DEF LockManager

\* Who initializes a manager finds it locked by itself, and without a cache.
LEMMA Initializes ==
    ASSUME IInv, NEW p \in Callers, pc[p] \in Building
    PROVE  /\ p \in Procs /\ p # Cleaner /\ pc[p] \in Holding /\ pc[p] \in At(p)
           /\ held[p] \in Managers /\ held[p] \in LiveManagers /\ wanted[p] \in Clusters
           /\ Mine(p) \in LazyClusterManager /\ object[held[p]] = Mine(p)
           /\ Mine(p).lock = p /\ ~Mine(p).initialized /\ Mine(p).cache = Nil
           /\ Mine(p).cluster \in Clusters
           /\ object = [object EXCEPT ![held[p]] = Mine(p)]
<1>1. p \in Procs /\ p # Cleaner /\ pc[p] \in Holding /\ pc[p] \in At(p)
  BY CleanerIsProc, Places
<1>2. /\ held[p] \in Managers /\ held[p] \in LiveManagers /\ wanted[p] \in Clusters
      /\ Mine(p) \in LazyClusterManager /\ object[held[p]] = Mine(p)
  BY <1>1, MineType
<1>3. Mine(p).lock = p /\ ~Mine(p).initialized
  BY <1>1, <1>2 DEF IInv, Locked, Fits
<1>4. Mine(p).cache = Nil /\ Mine(p).cluster \in Clusters
  BY <1>2, <1>3 DEF IInv, Live, LazyClusterManager
<1>5. object = [object EXCEPT ![held[p]] = Mine(p)]
  BY <1>2 DEF IInv, TypeOK
<1>6. QED
  BY <1>1, <1>2, <1>3, <1>4, <1>5

LEMMA BuildClientsInv ==
    ASSUME IInv, NEW p \in Callers, BuildClients(p)
    PROVE  IInv' /\ Released /\ Touches(p)
<1>1. pc[p] = "build" /\ pc[p] \in Building /\ UNCHANGED <<current, informers, closed>>
  BY Places DEF BuildClients
<1>2. CASE Returns(p, [Mine(p) EXCEPT !.lock = Nil])
  <2> DEFINE o == [Mine(p) EXCEPT !.lock = Nil]
  <2>1. o \in LazyClusterManager /\ o.cache = Mine(p).cache /\ o.initialized = Mine(p).initialized
        /\ o.lock = Nil /\ Returns(p, o)
    BY <1>1, <1>2, Initializes DEF LazyClusterManager
  <2> HIDE DEF o
  <2>2. QED
    BY <1>1, <2>1, Initializes, ReturnsInv
<1>3. CASE /\ found' = [found EXCEPT ![p] = current[Mine(p).cluster]]
           /\ pc' = [pc EXCEPT ![p] =
                  IF current[Mine(p).cluster] = Nil THEN "newFactory" ELSE "start"]
           /\ UNCHANGED <<managers, object, stopped, wanted, held, channel, cleanerVars>>
  <2>1. current[Mine(p).cluster] \in Factories \cup {Nil}
    BY <1>1, Initializes DEF IInv, TypeOK
  <2>2. TypeOK'
    BY <1>1, <1>3, <2>1, Initializes, Places DEF IInv, TypeOK, cleanerVars
  <2>3. Moves(p) /\ UNCHANGED <<managers, held, closed, channel>>
    BY <1>1, <1>3, Initializes DEF Moves, IInv, TypeOK
  <2>4. PlacedAt(p)' /\ pc'[p] \in Building
    BY <1>1, <1>3, <2>1, Initializes, Places DEF PlacedAt, IInv, TypeOK
  <2>5. object' = [object EXCEPT ![held[p]] = Mine(p)]
    BY <1>1, <1>3, Initializes
  <2>6. QED
    BY <1>1, <2>2, <2>3, <2>4, <2>5, Initializes, BuildsInv
<1>4. QED
  BY <1>2, <1>3 DEF BuildClients

LEMMA StoreFactoryInv ==
    ASSUME IInv, NEW p \in Callers, StoreFactory(p)
    PROVE  IInv' /\ Released /\ Touches(p)
<1> DEFINE f == Pick(FreshFactories)
<1>1. pc[p] = "newFactory" /\ pc[p] \in Building /\ f \in Factories
  BY Places DEF StoreFactory, Pick, FreshFactories
<1>2. /\ found' = [found EXCEPT ![p] = f] /\ pc' = [pc EXCEPT ![p] = "start"]
      /\ current' = [current EXCEPT ![Mine(p).cluster] = f]
      /\ informers' = [informers EXCEPT ![f] = NewSharedInformerFactory]
      /\ UNCHANGED <<managers, object, closed, stopped, wanted, held, channel, cleanerVars>>
  BY DEF StoreFactory
<1> HIDE DEF f
<1>3. NewSharedInformerFactory \in SharedInformerFactory
  BY DEF SharedInformerFactory, NewSharedInformerFactory
<1>4. TypeOK'
  BY <1>1, <1>2, <1>3, Initializes, Places DEF IInv, TypeOK, cleanerVars
<1>5. Moves(p)
  BY <1>1, <1>2, Initializes DEF Moves, IInv, TypeOK
<1>6. PlacedAt(p)' /\ pc'[p] \in Building
  BY <1>1, <1>2, Initializes, Places DEF PlacedAt, IInv, TypeOK
<1>7. object' = [object EXCEPT ![held[p]] = Mine(p)]
  BY <1>1, <1>2, Initializes
<1>8. QED
  BY <1>1, <1>2, <1>4, <1>5, <1>6, <1>7, Initializes, BuildsInv

\* The new channel is nobody else's.
LEMMA StartFactoryInv ==
    ASSUME IInv, NEW p \in Callers, StartFactory(p)
    PROVE  IInv' /\ Released /\ Touches(p)
<1> DEFINE f == found[p]
           k == Pick(FreshCaches)
<1>1. /\ pc[p] = "start" /\ pc[p] \in Building /\ p \in Procs /\ p # Cleaner
      /\ pc[p] \in At(p) /\ f \in Factories
  BY Places, Initializes DEF StartFactory, IInv, Placed, PlacedAt
<1>2. k \in FreshCaches
  BY DEF StartFactory, Pick
<1>3. /\ k \in Caches /\ \A q \in Procs : channel[q] # k
      /\ \A m \in Managers : Caching(m) => object[m].cache.stop # k
  BY <1>2 DEF FreshCaches, LiveCaches, Caching
<1>4. /\ channel' = [channel EXCEPT ![p] = k] /\ closed' = closed \ {k}
      /\ \/ informers' = informers
         \/ informers' = [informers EXCEPT ![f].started = k]
      /\ pc' = [pc EXCEPT ![p] = "register"]
      /\ UNCHANGED <<managers, object, current, stopped, wanted, held, found, cleanerVars>>
  BY DEF StartFactory
<1> HIDE DEF f, k
<1>5. informers' \in [Factories -> SharedInformerFactory]
  BY <1>1, <1>3, <1>4 DEF IInv, TypeOK, SharedInformerFactory
<1>6. TypeOK'
  BY <1>1, <1>3, <1>4, <1>5, Places DEF IInv, TypeOK, cleanerVars
<1>7. LiveManagers' = LiveManagers /\ \A m \in LiveManagers' : Same(m)
  BY <1>4, SameObject DEF LiveManagers, Referenced
<1>8. Touches(p) /\ Moves(p)
  BY <1>1, <1>4, <1>7 DEF Touches, Moves, IInv, TypeOK
<1>9. pc'[p] = "register" /\ pc'[p] \in At(p)
  BY <1>1, <1>4, Places, CleanerIsProc DEF IInv, TypeOK
<1>10. PlacedAt(p)'
  BY <1>1, <1>3, <1>4, <1>9, Places DEF PlacedAt, IInv, Placed, TypeOK
<1>11. Fits(p, pc'[p], object'[held'[p]])
  BY <1>1, <1>4, <1>9, Initializes DEF Fits
<1>12. \A m \in LiveManagers' : object'[m].lock = p => held'[p] = m /\ pc'[p] \in At(p)
  BY <1>1, <1>4, <1>7, <1>9, LocksOf
<1>13. Placed' /\ Locked' /\ Live' /\ LocksHaveHolders'
  BY <1>1, <1>6, <1>8, <1>10, <1>11, <1>12, Effects
<1>14. \A m \in Managers : Closing(m)' <=> Closing(m)
  BY <1>1, <1>8, Closings
<1>15. \A m \in Managers : (Caching(m)' <=> Caching(m)) /\ object'[m] = object[m]
  BY <1>4, <1>7 DEF Caching
<1>16. \A q \in Procs : channel'[q] = IF q = p THEN k ELSE channel[q]
  BY <1>4 DEF IInv, TypeOK
<1>17. Unshared'
  BY <1>3, <1>4, <1>15, <1>16 DEF IInv, Unshared
<1>18. ClosesOnce' /\ ClosesFirst'
  BY <1>3, <1>4, <1>14, <1>15 DEF IInv, ClosesOnce, ClosesFirst
<1>19. Released
  BY <1>4 DEF Released
<1>20. QED
  BY <1>6, <1>8, <1>13, <1>17, <1>18, <1>19 DEF IInv

\* The channel of the builder becomes that of the manager, which had none.
LEMMA RegisterInformersInv ==
    ASSUME IInv, NEW p \in Callers, RegisterInformers(p)
    PROVE  IInv' /\ Released /\ Touches(p)
<1> DEFINE f == found[p]
           k == channel[p]
           new == [stop |-> k, factory |-> f]
           done == [Mine(p) EXCEPT !.initialized = TRUE]
<1>1. pc[p] = "register" /\ pc[p] \in Building
  BY Places DEF RegisterInformers
<1>2. f \in Factories /\ k \in Caches /\ k # Nil /\ new \in CacheFactory
  BY <1>1, Initializes, NilIsNone DEF IInv, Placed, PlacedAt, CacheFactory
<1>3. PICK r \in LazyClusterManager :
          /\ Returns(p, r) /\ r.initialized /\ r.lock = Nil
          /\ r.cache = Nil \/ r.cache = new
  <2> DEFINE o1 == [[done EXCEPT !.cache = new] EXCEPT !.lock = Nil]
             o2 == [done EXCEPT !.lock = Nil]
  <2>1. /\ o1 \in LazyClusterManager /\ o1.initialized /\ o1.cache = new /\ o1.lock = Nil
        /\ o2 \in LazyClusterManager /\ o2.initialized /\ o2.cache = Nil /\ o2.lock = Nil
    BY <1>1, <1>2, Initializes DEF LazyClusterManager
  <2>2. Serves(p, [done EXCEPT !.cache = new]) \/ Serves(p, done)
    BY DEF RegisterInformers
  <2>3. \E r \in AfterAccess(o1) \cup AfterAccess(o2) : Returns(p, r)
    BY <2>2 DEF Serves
  <2> HIDE DEF o1, o2, new
  <2>4. QED
    BY <2>1, <2>3, AccessType
<1>4. /\ UNCHANGED <<current, closed>>
      /\ informers' = informers \/ informers' = [informers EXCEPT ![f].registered = TRUE]
  BY DEF RegisterInformers
<1>5. new.stop = k /\ new # Nil
  BY <1>2, NilIsNone
<1> HIDE DEF f, k, new, done
<1>6. informers' \in [Factories -> SharedInformerFactory]
  BY <1>2, <1>4 DEF IInv, TypeOK, SharedInformerFactory
<1>7. /\ TypeOK' /\ Placed' /\ Locked' /\ Live' /\ LocksHaveHolders' /\ Touches(p)
      /\ LiveManagers' \subseteq LiveManagers
      /\ \A m \in LiveManagers' : object'[m] = IF m = held[p] THEN r ELSE object[m]
  BY <1>1, <1>3, <1>4, <1>6, Initializes, ReturnsMoves DEF IInv, TypeOK
<1>8. \A m \in Managers : Closing(m)' <=> Closing(m)
  BY <1>1, <1>7, Initializes, Closings DEF Touches
<1>9. /\ k = channel[p] /\ k \notin closed
      /\ \A q \in Procs \ {p} : channel[q] # k
      /\ \A m \in Managers : Caching(m) => object[m].cache.stop # k
  BY <1>1, <1>2, Initializes DEF k, IInv, Unshared
<1>10. ASSUME NEW m \in Managers, Caching(m)'
       PROVE  \/ m = held[p] /\ object'[m].cache.stop = k
              \/ m # held[p] /\ Caching(m) /\ object'[m].cache = object[m].cache
  BY <1>3, <1>5, <1>7, <1>10 DEF Caching
<1>11. \A q \in Procs : channel'[q] = IF q = p THEN Nil ELSE channel[q]
  BY <1>3 DEF Returns, IInv, TypeOK
<1>12. Unshared'
  BY <1>4, <1>9, <1>10, <1>11 DEF IInv, Unshared
<1>13. ClosesOnce'
  <2> SUFFICES ASSUME NEW m \in Managers, NEW n \in Managers, Caching(m)'
               PROVE  /\ object'[m].cache.stop \in closed' => Closing(m)'
                      /\ Caching(n)' /\ object'[n].cache.stop = object'[m].cache.stop => n = m
    BY DEF ClosesOnce
  <2>1. object'[m].cache.stop \in closed' => Closing(m)'
    BY <1>4, <1>8, <1>9, <1>10 DEF IInv, ClosesOnce
  <2>2. ASSUME Caching(n)', object'[n].cache.stop = object'[m].cache.stop
        PROVE  n = m
    BY <1>9, <1>10, <2>2 DEF IInv, ClosesOnce
  <2>3. QED
    BY <2>1, <2>2
<1>14. ~Closing(held[p])
  BY <1>1, Initializes, LocksOf, CleanerIsProc, Places DEF Closing, IInv, Locked, Fits
<1>15. ClosesFirst'
  BY <1>4, <1>8, <1>10, <1>14 DEF IInv, ClosesFirst
<1>16. Released
  BY <1>1, <1>7, Initializes DEF Released, Caching
<1>17. QED
  BY <1>7, <1>12, <1>13, <1>15, <1>16 DEF IInv

------------------------------------------------------------------------------
(* The steps of time, informers and Stop, and of the cleanup                *)

LEMMA OthersInv ==
    ASSUME IInv, IdleTimePasses \/ (\E p \in Callers : Stop(p))
                 \/ (\E f \in Factories : RunInformer(f))
    PROVE  IInv' /\ Released
<1>1. UNCHANGED <<managers, current, closed, pc, wanted, held, found, channel, todo, toDelete>>
  BY DEF IdleTimePasses, Stop, RunInformer, cleanerVars
<1>2. LiveManagers' = LiveManagers /\ LiveManagers \subseteq Managers
  BY <1>1, LiveType DEF LiveManagers, Referenced, IInv
<1>3. \A m \in LiveManagers' : Same(m)
  <2>1. CASE IdleTimePasses
    <3>1. \A m \in LiveManagers : object'[m] = [object[m] EXCEPT !.due = TRUE]
      BY <1>2, <2>1 DEF IdleTimePasses
    <3>2. QED
      BY <1>2, <3>1 DEF Same, IInv, Live, LazyClusterManager
  <2>2. CASE UNCHANGED object
    BY <1>2, <2>2, SameObject
  <2>3. QED
    BY <2>1, <2>2 DEF Stop, RunInformer
<1>4. TypeOK'
  <2>1. object' \in [Managers -> LazyClusterManager \cup {Nil}]
    <3>1. CASE IdleTimePasses
      <4>1. \A m \in Managers : object'[m] \in LazyClusterManager \cup {Nil}
        BY <1>2, <1>3, <3>1 DEF IdleTimePasses, Same, IInv, TypeOK
      <4>2. QED
        BY <3>1, <4>1 DEF IdleTimePasses
    <3>2. QED
      BY <3>1 DEF Stop, RunInformer, IInv, TypeOK
  <2>2. informers' \in [Factories -> SharedInformerFactory] /\ stopped' \in BOOLEAN
    <3>1. ASSUME NEW f \in Factories, RunInformer(f)
          PROVE  informers' \in [Factories -> SharedInformerFactory]
      <4>1. PICK k \in Caches \cup {Nil} :
                informers' = [informers EXCEPT ![f].running = TRUE, ![f].started = k]
        BY <3>1 DEF RunInformer, IInv, TypeOK, SharedInformerFactory
      <4>2. QED
        BY <4>1 DEF IInv, TypeOK, SharedInformerFactory
    <3>2. QED
      BY <3>1 DEF IdleTimePasses, Stop, RunInformer, IInv, TypeOK
  <2>3. QED
    BY <1>1, <2>1, <2>2 DEF IInv, TypeOK
<1>5. QED
  BY <1>1, <1>3, <1>4, QuietInv

\* The Cleaner without a lock.
LEMMA CleanerMoves ==
    ASSUME IInv, CleanupStarts \/ RangeEnds \/ SweepEnds
                 \/ \E c \in Clusters : VisitKey(c) \/ LoadVictim(c)
    PROVE  IInv' /\ Released /\ Touches(Cleaner)
<1>1. Cleaner \in Procs /\ pc[Cleaner] # "shutdown" /\ pc[Cleaner] \notin At(Cleaner)
  BY CleanerIsProc DEF CleanupStarts, RangeEnds, SweepEnds, VisitKey, LoadVictim, At
<1>2. /\ UNCHANGED <<managers, object, current, informers, closed, stopped, found, channel>>
      /\ todo' \in SUBSET Clusters /\ toDelete' \in SUBSET Clusters
  BY DEF CleanupStarts, RangeEnds, SweepEnds, VisitKey, LoadVictim, cleanerVars, IInv, TypeOK
<1>3. PICK l \in Locations, w \in Clusters \cup {Nil}, h \in LiveManagers \cup {Nil} :
          /\ pc' = [pc EXCEPT ![Cleaner] = l]
          /\ wanted' = [wanted EXCEPT ![Cleaner] = w]
          /\ held' = [held EXCEPT ![Cleaner] = h]
          /\ l \notin Building \cup {"shutdown"}
          /\ l \in Wanting => w \in Clusters
          /\ l \in Holding => h \in Managers
  <2> DEFINE ww == wanted[Cleaner]
             hh == held[Cleaner]
  <2>1. /\ UNCHANGED pc => pc' = [pc EXCEPT ![Cleaner] = pc[Cleaner]]
        /\ UNCHANGED wanted => wanted' = [wanted EXCEPT ![Cleaner] = ww]
        /\ UNCHANGED held => held' = [held EXCEPT ![Cleaner] = hh]
        /\ ww \in Clusters \cup {Nil} /\ hh \in LiveManagers \cup {Nil}
    BY <1>1, HeldLive DEF IInv, TypeOK
  <2> HIDE DEF ww, hh
  <2>2. CASE \E c \in Clusters :
                 /\ managers[c] # Nil
                 /\ wanted' = [wanted EXCEPT ![Cleaner] = c]
                 /\ held' = [held EXCEPT ![Cleaner] = managers[c]]
                 /\ \/ pc' = [pc EXCEPT ![Cleaner] = "mark"]
                    \/ pc' = [pc EXCEPT ![Cleaner] = "close"]
    <3>1. \A c \in Clusters : managers[c] # Nil =>
              managers[c] \in LiveManagers /\ managers[c] \in Managers
      BY HeldLive DEF IInv, TypeOK
    <3>2. /\ {"mark", "close"} \subseteq Locations
          /\ "mark" \notin Building \cup {"shutdown"} /\ "close" \notin Building \cup {"shutdown"}
      BY Places
    <3>3. QED
      BY <2>2, <3>1, <3>2
  <2>3. CASE /\ UNCHANGED <<wanted, held>>
             /\ \/ pc' = [pc EXCEPT ![Cleaner] = "idle"]
                \/ pc' = [pc EXCEPT ![Cleaner] = "range"]
                \/ pc' = [pc EXCEPT ![Cleaner] = "sweep"]
    <3>1. \A l \in {"idle", "range", "sweep"} :
              l \in Locations /\ l \notin Building \cup {"shutdown"}
              /\ l \notin Wanting /\ l \notin Holding
      BY Places
    <3>2. QED
      BY <2>1, <2>3, <3>1
  <2>4. CASE UNCHANGED <<pc, wanted, held>> /\ pc[Cleaner] \in {"range", "sweep"}
    BY <2>1, <2>4, Places
  <2>5. QED
    BY <2>2, <2>3, <2>4 DEF CleanupStarts, RangeEnds, SweepEnds, VisitKey, LoadVictim
<1>4. LiveManagers \subseteq Managers
  BY LiveType DEF IInv
<1>5. TypeOK'
  BY <1>1, <1>2, <1>3, <1>4 DEF IInv, TypeOK
<1>6. LiveManagers' \subseteq LiveManagers
  BY <1>1, <1>2, <1>3 DEF LiveManagers, Referenced, IInv, TypeOK
<1>7. \A m \in LiveManagers' : Same(m)
  BY <1>2, <1>6, SameObject
<1>8. Moves(Cleaner)
  BY <1>1, <1>2, <1>3 DEF Moves, IInv, TypeOK
<1>9. PlacedAt(Cleaner)' /\ pc'[Cleaner] \notin Building \cup {"shutdown"}
  <2>1. pc'[Cleaner] = l /\ wanted'[Cleaner] = w /\ held'[Cleaner] = h
    BY <1>1, <1>3 DEF IInv, TypeOK
  <2>2. l \notin {"start", "register"}
    BY <1>3, Places
  <2>3. QED
    BY <1>3, <2>1, <2>2 DEF PlacedAt
<1>10. QED
  BY <1>1, <1>2, <1>5, <1>7, <1>8, <1>9, StaysInv

LEMMA CleanerLetsGo ==
    ASSUME IInv, MarkManager \/ DeleteManager
    PROVE  IInv' /\ Released /\ Touches(Cleaner)
<1>1. /\ Cleaner \in Procs /\ pc[Cleaner] \in {"mark", "delete"} /\ pc[Cleaner] \in Holding
      /\ pc[Cleaner] \notin At(Cleaner)
  BY CleanerIsProc, Places DEF MarkManager, DeleteManager, At
<1>2. wanted[Cleaner] \in Clusters
  BY <1>1, MineType
<1> DEFINE h == [held EXCEPT ![Cleaner] = Nil]
           gone == [managers EXCEPT ![wanted[Cleaner]] = Nil]
<1>3. PICK mgrs \in {managers, gone} : Refer(mgrs, h, object)
  BY DEF MarkManager, DeleteManager
<1>4. /\ \A c \in Clusters : mgrs[c] \in LiveManagers \cup {Nil}
      /\ mgrs \in [Clusters -> Managers \cup {Nil}]
      /\ \A q \in Procs : h[q] = IF q = Cleaner THEN Nil ELSE held[q]
      /\ \A q \in Procs : h[q] \in LiveManagers \cup {Nil}
      /\ h \in [Procs -> Managers \cup {Nil}]
  BY HeldLive DEF IInv, TypeOK
<1>5. held' = h /\ managers' = mgrs
  BY <1>3 DEF Refer
<1> HIDE DEF h, gone
<1>6. LiveManagers' \subseteq LiveManagers /\ \A m \in LiveManagers' : object'[m] = object[m]
  BY <1>3, <1>4, Referred
<1>7. \A m \in LiveManagers' : Same(m)
  BY <1>6, SameObject
<1>8. /\ wanted' = [wanted EXCEPT ![Cleaner] = Nil]
      /\ UNCHANGED <<current, informers, closed, stopped, found, channel>>
      /\ pc' \in {[pc EXCEPT ![Cleaner] = "range"], [pc EXCEPT ![Cleaner] = "sweep"]}
  BY DEF MarkManager, DeleteManager, cleanerVars
<1>9. object' \in [Managers -> LazyClusterManager \cup {Nil}]
  BY <1>3 DEF Refer, IInv, TypeOK
<1>10. todo' \in SUBSET Clusters /\ toDelete' \in SUBSET Clusters
  BY <1>2 DEF MarkManager, DeleteManager, cleanerVars, IInv, TypeOK
<1>11. TypeOK'
  BY <1>1, <1>4, <1>5, <1>8, <1>9, <1>10, Places DEF IInv, TypeOK
<1>12. Moves(Cleaner)
  BY <1>1, <1>4, <1>5, <1>8 DEF Moves, IInv, TypeOK
<1>13. pc'[Cleaner] \in {"range", "sweep"}
  BY <1>1, <1>8 DEF IInv, TypeOK
<1>14. PlacedAt(Cleaner)' /\ pc'[Cleaner] \notin Building \cup {"shutdown"}
  BY <1>13, Places DEF PlacedAt
<1>15. QED
  BY <1>1, <1>7, <1>8, <1>11, <1>12, <1>14, StaysInv

\* Close of a manager without a cache.
LEMMA CloseNothingInv ==
    ASSUME IInv, Close, Mine(Cleaner).cache = Nil
    PROVE  IInv' /\ Released /\ Touches(Cleaner)
<1> DEFINE m == held[Cleaner]
           o == [Mine(Cleaner) EXCEPT !.initialized = FALSE]
<1>1. /\ Cleaner \in Procs /\ pc[Cleaner] = "close" /\ pc[Cleaner] \in Holding
      /\ pc[Cleaner] \notin At(Cleaner)
  BY CleanerIsProc, Places DEF Close, At
<1>2. /\ m \in Managers /\ m \in LiveManagers /\ wanted[Cleaner] \in Clusters
      /\ Mine(Cleaner) \in LazyClusterManager /\ object[m] = Mine(Cleaner)
      /\ Mine(Cleaner).lock = Nil
  BY <1>1, MineType DEF Close, Free, Mine
<1>3. /\ o \in LazyClusterManager /\ o.cache = Nil /\ o.lock = Nil
      /\ object[m].cache = Nil /\ object[m].lock = Nil
  BY <1>2 DEF LazyClusterManager
<1>4. /\ object' = [object EXCEPT ![m] = o]
      /\ pc' = [pc EXCEPT ![Cleaner] = "delete"]
      /\ UNCHANGED <<managers, current, informers, closed, stopped, wanted, held, found,
                     channel, cleanerVars>>
  BY <1>2 DEF Close
<1> HIDE DEF m, o
<1>5. TypeOK'
  BY <1>1, <1>2, <1>3, <1>4, Places DEF IInv, TypeOK, cleanerVars
<1>6. LiveManagers' = LiveManagers
  BY <1>4 DEF LiveManagers, Referenced
<1>7. \A n \in Managers : object'[n] = IF n = m THEN o ELSE object[n]
  BY <1>2, <1>4 DEF IInv, TypeOK
<1>8. Touches(Cleaner) /\ Moves(Cleaner)
  BY <1>1, <1>2, <1>3, <1>4, <1>6, <1>7, LiveType DEF Touches, Moves, Same, Own, IInv, TypeOK, Live
<1>9. /\ PlacedAt(Cleaner)' /\ Fits(Cleaner, pc'[Cleaner], object'[held'[Cleaner]])
      /\ pc'[Cleaner] = "delete"
  BY <1>1, <1>2, <1>4, Places DEF PlacedAt, Fits, IInv, TypeOK, m
<1>10. \A n \in LiveManagers' : object'[n].lock # Cleaner
  BY <1>1, <1>3, <1>6, <1>7, NilIsNone, LocksOf, LiveType DEF IInv
<1>11. Placed' /\ Locked' /\ Live' /\ LocksHaveHolders'
  BY <1>1, <1>5, <1>8, <1>9, <1>10, Effects
<1>12. \A n \in Managers : Closing(n)' <=> Closing(n)
  BY <1>1, <1>8, <1>9, Closings
<1>13. \A n \in Managers : Caching(n)' => Caching(n) /\ object'[n].cache = object[n].cache
  BY <1>3, <1>6, <1>7 DEF Caching
<1>14. Unshared' /\ ClosesOnce' /\ ClosesFirst'
  BY <1>4, <1>5, <1>12, <1>13, Channels
<1>15. Released
  BY <1>3, <1>6, <1>7 DEF Released
<1>16. QED
  BY <1>5, <1>8, <1>11, <1>14, <1>15 DEF IInv

LEMMA ShutDownType ==
    ASSUME TypeOK, NEW cache \in CacheFactory
    PROVE  ShutDown(cache) \in [Factories -> SharedInformerFactory]
BY DEF TypeOK, ShutDown, SharedInformerFactory

\* Close of one with a cache takes the lock, and its channel was nobody else's.
LEMMA CloseCacheInv ==
    ASSUME IInv, Close, Mine(Cleaner).cache # Nil
    PROVE  IInv' /\ Released /\ Touches(Cleaner)
<1> DEFINE m == held[Cleaner]
           k == Mine(Cleaner).cache.stop
           o == [Mine(Cleaner) EXCEPT !.lock = Cleaner]
<1>1. /\ Cleaner \in Procs /\ pc[Cleaner] = "close" /\ pc[Cleaner] \in Holding
      /\ pc[Cleaner] \notin At(Cleaner)
  BY CleanerIsProc, Places DEF Close, At
<1>2. /\ m \in Managers /\ m \in LiveManagers /\ wanted[Cleaner] \in Clusters
      /\ Mine(Cleaner) \in LazyClusterManager /\ object[m] = Mine(Cleaner)
      /\ Mine(Cleaner).lock = Nil /\ Mine(Cleaner).cache \in CacheFactory
  <2>1. /\ m \in Managers /\ m \in LiveManagers /\ wanted[Cleaner] \in Clusters
        /\ Mine(Cleaner) \in LazyClusterManager /\ object[m] = Mine(Cleaner)
        /\ Mine(Cleaner).lock = Nil
    BY <1>1, MineType DEF Close, Free, Mine
  <2>2. QED
    BY <2>1 DEF LazyClusterManager
<1>3. /\ o \in LazyClusterManager /\ o.cache = object[m].cache /\ o.lock = Cleaner
      /\ o.initialized = object[m].initialized /\ object[m].cache # Nil
      /\ object[m].cache.stop = k /\ k \in Caches /\ object[m].lock = Nil
  BY <1>1, <1>2 DEF LazyClusterManager, CacheFactory
<1>4. /\ object' = [object EXCEPT ![m] = o]
      /\ closed' = closed \cup {k}
      /\ informers' = ShutDown(Mine(Cleaner).cache)
      /\ pc' = [pc EXCEPT ![Cleaner] = "shutdown"]
      /\ UNCHANGED <<managers, current, stopped, wanted, held, found, channel, cleanerVars>>
  BY <1>2 DEF Close
<1>5. informers' \in [Factories -> SharedInformerFactory]
  BY <1>2, <1>4, ShutDownType DEF IInv
<1> HIDE DEF m, k, o
<1>6. TypeOK'
  BY <1>1, <1>2, <1>3, <1>4, <1>5, Places DEF IInv, TypeOK, cleanerVars
<1>7. LiveManagers' = LiveManagers
  BY <1>4 DEF LiveManagers, Referenced
<1>8. \A n \in Managers : object'[n] = IF n = m THEN o ELSE object[n]
  BY <1>2, <1>4 DEF IInv, TypeOK
<1>9. Touches(Cleaner) /\ Moves(Cleaner)
  BY <1>1, <1>2, <1>3, <1>4, <1>7, <1>8, LiveType DEF Touches, Moves, Same, Own, IInv, TypeOK, Live
<1>10. /\ PlacedAt(Cleaner)' /\ pc'[Cleaner] = "shutdown" /\ pc'[Cleaner] \in At(Cleaner)
       /\ held'[Cleaner] = m
  BY <1>1, <1>2, <1>4, Places DEF PlacedAt, At, IInv, TypeOK, m
<1>11. Fits(Cleaner, pc'[Cleaner], object'[held'[Cleaner]])
  BY <1>2, <1>3, <1>8, <1>10, Places DEF Fits
<1>12. \A n \in LiveManagers' : object'[n].lock = Cleaner =>
           held'[Cleaner] = n /\ pc'[Cleaner] \in At(Cleaner)
  BY <1>1, <1>7, <1>8, <1>10, LocksOf, LiveType DEF IInv
<1>13. Placed' /\ Locked' /\ Live' /\ LocksHaveHolders'
  BY <1>1, <1>6, <1>9, <1>10, <1>11, <1>12, Effects
<1>14. \A n \in Managers : /\ Caching(n)' <=> Caching(n)
                           /\ object'[n].cache = object[n].cache
                           /\ ~Closing(n)
                           /\ Closing(n)' <=> n = m
  BY <1>1, <1>3, <1>7, <1>8, <1>10 DEF Caching, Closing
<1>15. Caching(m) /\ m \in Managers /\ object[m].cache.stop = k
  BY <1>2, <1>3 DEF Caching
<1>16. Unshared'
  BY <1>4, <1>14, <1>15 DEF IInv, Unshared
<1>17. ClosesOnce'
  <2> SUFFICES ASSUME NEW n \in Managers, NEW q \in Managers, Caching(n)'
               PROVE  /\ object'[n].cache.stop \in closed' => Closing(n)'
                      /\ Caching(q)' /\ object'[q].cache.stop = object'[n].cache.stop => q = n
    BY DEF ClosesOnce
  <2>1. object'[n].cache.stop \in closed' => Closing(n)'
    BY <1>4, <1>14, <1>15 DEF IInv, ClosesOnce
  <2>2. Caching(q)' /\ object'[q].cache.stop = object'[n].cache.stop => q = n
    BY <1>14 DEF IInv, ClosesOnce
  <2>3. QED
    BY <2>1, <2>2
<1>18. ClosesFirst'
  BY <1>4, <1>14, <1>15 DEF ClosesFirst
<1>19. Released
  BY <1>14 DEF Released
<1>20. QED
  BY <1>6, <1>9, <1>13, <1>16, <1>17, <1>18, <1>19 DEF IInv

\* The manager whose channel is closed loses its cache, and its lock.
LEMMA ShutdownEndsInv ==
    ASSUME IInv, ShutdownEnds
    PROVE  IInv' /\ Released /\ Touches(Cleaner)
<1> DEFINE m == held[Cleaner]
           o == [Mine(Cleaner) EXCEPT !.initialized = FALSE, !.cache = Nil, !.lock = Nil]
<1>1. /\ Cleaner \in Procs /\ pc[Cleaner] = "shutdown" /\ pc[Cleaner] \in Holding
  BY CleanerIsProc, Places DEF ShutdownEnds
<1>2. /\ m \in Managers /\ m \in LiveManagers /\ wanted[Cleaner] \in Clusters
      /\ Mine(Cleaner) \in LazyClusterManager /\ object[m] = Mine(Cleaner)
      /\ object[m].lock = Cleaner /\ object[m].cache # Nil
  BY <1>1, MineType DEF IInv, Locked, Fits
<1>3. o \in LazyClusterManager /\ o.cache = Nil /\ o.lock = Nil
  BY <1>2 DEF LazyClusterManager
<1>4. /\ object' = [object EXCEPT ![m] = o]
      /\ pc' = [pc EXCEPT ![Cleaner] = "delete"]
      /\ UNCHANGED <<managers, current, informers, closed, stopped, wanted, held, found,
                     channel, cleanerVars>>
  <2>1. object' = [object EXCEPT ![m].initialized = FALSE, ![m].cache = Nil, ![m].lock = Nil]
    BY DEF ShutdownEnds
  <2>2. object' = [object EXCEPT ![m] = o]
    BY <1>2, <2>1 DEF IInv, TypeOK, LazyClusterManager
  <2>3. QED
    BY <2>2 DEF ShutdownEnds, cleanerVars
<1> HIDE DEF m, o
<1>5. TypeOK'
  BY <1>1, <1>2, <1>3, <1>4, Places DEF IInv, TypeOK, cleanerVars
<1>6. LiveManagers' = LiveManagers
  BY <1>4 DEF LiveManagers, Referenced
<1>7. \A n \in Managers : object'[n] = IF n = m THEN o ELSE object[n]
  BY <1>2, <1>4 DEF IInv, TypeOK
<1>8. Touches(Cleaner) /\ Moves(Cleaner)
  BY <1>1, <1>2, <1>3, <1>4, <1>6, <1>7, LiveType DEF Touches, Moves, Same, Own, IInv, TypeOK, Live
<1>9. /\ PlacedAt(Cleaner)' /\ Fits(Cleaner, pc'[Cleaner], object'[held'[Cleaner]])
      /\ pc'[Cleaner] = "delete"
  BY <1>1, <1>2, <1>4, Places DEF PlacedAt, Fits, IInv, TypeOK, m
<1>10. \A n \in LiveManagers' : object'[n].lock # Cleaner
  BY <1>1, <1>3, <1>6, <1>7, NilIsNone, LocksOf, LiveType DEF IInv, m
<1>11. Placed' /\ Locked' /\ Live' /\ LocksHaveHolders'
  BY <1>1, <1>5, <1>8, <1>9, <1>10, Effects
<1>12. \A n \in Managers : Caching(n)' =>
           /\ Caching(n) /\ object'[n].cache = object[n].cache
           /\ Closing(n)' <=> Closing(n)
  BY <1>1, <1>3, <1>6, <1>7, <1>9 DEF Caching, Closing, m
<1>13. Unshared' /\ ClosesOnce' /\ ClosesFirst'
  BY <1>4, <1>5, <1>12, Channels
<1>14. Released
  <2>1. Closing(m)
    BY <1>1 DEF Closing, m
  <2>2. QED
    BY <1>2, <1>4, <1>6, <1>7, <2>1 DEF Released, ClosesFirst, Caching, IInv
<1>15. QED
  BY <1>5, <1>8, <1>11, <1>13, <1>14 DEF IInv

------------------------------------------------------------------------------
LEMMA CallerInv ==
    ASSUME IInv, NEW p \in Callers,
           CallerStep(p) \/ ReturnsManager(p) \/ \E c \in Clusters : GetCluster(p, c)
    PROVE  IInv' /\ Released /\ Touches(p)
<1>1. CASE ReturnsManager(p) \/ \E c \in Clusters : GetCluster(p, c)
  BY <1>1, StoreManagerInv, GetClusterInv
<1>2. CASE CallerStep(p)
  BY <1>2, QueryClusterInv, StoreManagerInv, GetClientInv, LockManagerInv, BuildClientsInv,
     StoreFactoryInv, StartFactoryInv, RegisterInformersInv DEF CallerStep
<1>3. QED
  BY <1>1, <1>2

LEMMA CleanerInv ==
    ASSUME IInv, CleanupStarts \/ CleanerStep
    PROVE  IInv' /\ Released /\ Touches(Cleaner)
BY CleanerMoves, CleanerLetsGo, CloseNothingInv, CloseCacheInv, ShutdownEndsInv DEF CleanerStep

LEMMA StepInv == IInv /\ [Next]_vars => IInv' /\ Released
<1> SUFFICES ASSUME IInv, [Next]_vars PROVE IInv' /\ Released
  OBVIOUS
<1>1. CASE UNCHANGED vars
  <2>1. TypeOK' /\ LiveManagers' = LiveManagers
    BY <1>1 DEF vars, IInv, TypeOK, LiveManagers, Referenced, cleanerVars
  <2>2. \A m \in LiveManagers' : Same(m)
    BY <1>1, <2>1, SameObject DEF vars
  <2>3. QED
    BY <1>1, <2>1, <2>2, QuietInv DEF vars
<1>2. CASE IdleTimePasses \/ (\E p \in Callers : Stop(p)) \/ (\E f \in Factories : RunInformer(f))
  BY <1>2, OthersInv
<1>3. ASSUME NEW p \in Callers,
             CallerStep(p) \/ ReturnsManager(p) \/ \E c \in Clusters : GetCluster(p, c)
      PROVE  IInv' /\ Released
  BY <1>3, CallerInv
<1>4. CASE CleanupStarts \/ CleanerStep
  BY <1>4, CleanerInv
<1>5. QED
  BY <1>1, <1>2, <1>3, <1>4 DEF Next

------------------------------------------------------------------------------
\* The inductive invariant: who initializes or closes a manager holds its lock, and a
\* manager that is not initialized has no cache (lazy_client.go:101-245).
THEOREM Invariance == Spec => []IInv
<1>1. QED
  BY InitInv, StepInv, PTL DEF Spec

\* Type correctness of the map, the managers, the factories and the goroutines.
THEOREM TypeCorrect == Spec => []TypeOK
<1>1. IInv => TypeOK
  BY DEF IInv
<1>2. QED
  BY <1>1, Invariance, PTL

\* No stop channel is closed twice, for any number of callers and of managers that
\* replace each other under a name (lazy_client.go:230-245).
THEOREM ClosesAtMostOnce == Spec => []ClosesOnce
<1>1. IInv => ClosesOnce
  BY DEF IInv
<1>2. QED
  BY <1>1, Invariance, PTL

\* A manager lets go of a cache only by closing it: who initializes one finds it
\* without a cache, and excludes everybody else (lazy_client.go:112-125,162-165).
THEOREM NoneForgotten == Spec => ClosedBeforeReplaced
<1> DEFINE Lets ==
      \A m \in Managers :
          Caching(m) /\ m \in LiveManagers' /\ object'[m].cache # object[m].cache =>
              object[m].cache.stop \in closed'
<1>1. IInv /\ [Next]_vars => [Lets]_vars
  BY StepInv DEF Released
<1>2. QED
  BY <1>1, Invariance, PTL DEF Spec, ClosedBeforeReplaced

\* Every lock is in the hands of a goroutine that works under it and waits for no
\* other lock, on every path through the errors of initialize and of Close: the callers
\* and the cleanup never wait for each other in a circle, nor for one that has gone.
\* What Close itself may wait for is the informer of Hung (lazy_client.go:101-245).
THEOREM LocksAreHeld == Spec => []LocksHaveHolders
<1>1. IInv => LocksHaveHolders
  BY DEF IInv
<1>2. QED
  BY <1>1, Invariance, PTL

------------------------------------------------------------------------------
(* A Close that hangs                                                      *)

\* The factory whose informer Close waits for.
LEMMA HungFactory ==
    ASSUME IInv, pc[Cleaner] = "shutdown"
    PROVE  /\ held[Cleaner] \in LiveManagers /\ object[held[Cleaner]].lock = Cleaner
           /\ object[held[Cleaner]] = Mine(Cleaner)
           /\ Mine(Cleaner).cache.factory \in Factories \cap LiveFactories
<1>1. /\ held[Cleaner] \in Managers /\ held[Cleaner] \in LiveManagers
      /\ Mine(Cleaner) \in LazyClusterManager /\ object[held[Cleaner]] = Mine(Cleaner)
  BY CleanerIsProc, Places, MineType
<1>2. Mine(Cleaner).lock = Cleaner /\ Mine(Cleaner).cache # Nil
  BY <1>1, CleanerIsProc DEF IInv, Locked, Fits
<1>3. Mine(Cleaner).cache \in CacheFactory
  BY <1>1, <1>2 DEF LazyClusterManager
<1>4. Mine(Cleaner).cache \in LiveCaches
  BY <1>1, <1>2 DEF LiveCaches
<1>5. Mine(Cleaner).cache.factory \in Factories
  BY <1>3 DEF CacheFactory
<1>6. QED
  BY <1>1, <1>2, <1>4, <1>5 DEF LiveFactories

\* It stays as long as nobody but the Cleaner works on its manager and nobody stops
\* the informer.
LEMMA HungStays ==
    ASSUME IInv, Hung, UNCHANGED <<pc[Cleaner], held[Cleaner]>>,
           Mine(Cleaner)'.cache = Mine(Cleaner).cache,
           \A f \in Factories : informers[f].running /\ f \in LiveFactories =>
               /\ informers'[f].running = informers[f].running
               /\ informers'[f].started = informers[f].started
    PROVE  Hung'
<1>1. Mine(Cleaner).cache.factory \in Factories \cap LiveFactories
  BY HungFactory DEF Hung
<1>2. QED
  BY <1>1 DEF Hung, Shut

\* Nobody but the Cleaner closes channels: once Close waits for an informer on one that
\* is open, it waits for ever, with the lock of its manager (lazy_client.go:229-245,
\* cache.go:105-113).
THEOREM HangLasts == Spec => [][Hung => Hung']_vars
<1>1. IInv /\ [Next]_vars => [Hung => Hung']_vars
  <2> SUFFICES ASSUME IInv, Next, Hung PROVE Hung'
    OBVIOUS
  <2>1. /\ pc[Cleaner] = "shutdown" /\ Cleaner \in Procs
        /\ held[Cleaner] \in LiveManagers /\ held[Cleaner] \in Managers
        /\ object[held[Cleaner]].lock = Cleaner /\ object[held[Cleaner]] = Mine(Cleaner)
        /\ informers \in [Factories -> SharedInformerFactory]
    BY HungFactory, CleanerIsProc, LiveType DEF Hung, IInv, TypeOK
  <2>2. ASSUME NEW p \in Callers,
               CallerStep(p) \/ ReturnsManager(p) \/ \E c \in Clusters : GetCluster(p, c)
        PROVE  Hung'
    <3>1. Touches(p) /\ p \in Procs /\ p # Cleaner /\ Cleaner # Nil
      BY <2>1, <2>2, CallerInv, CleanerIsProc, NilIsNone
    <3>2. UNCHANGED <<pc[Cleaner], held[Cleaner]>>
      BY <2>1, <3>1 DEF Touches, Moves
    <3>3. held[Cleaner] \in LiveManagers'
      BY <2>1, <3>2, NilIsNone DEF LiveManagers, Referenced
    <3>4. Same(held[Cleaner])
      BY <2>1, <3>1, <3>3 DEF Touches, Own, New
    <3>5. Mine(Cleaner)'.cache = Mine(Cleaner).cache
      BY <2>1, <3>2, <3>4 DEF Same, Mine
    <3>6. ASSUME NEW f \in Factories, informers[f].running, f \in LiveFactories
          PROVE  /\ informers'[f].running = informers[f].running
                 /\ informers'[f].started = informers[f].started
      <4>1. CASE StoreFactory(p)
        <5>1. Pick(FreshFactories) # f
          BY <3>6, <4>1 DEF StoreFactory, Pick, FreshFactories
        <5>2. QED
          BY <2>1, <4>1, <5>1 DEF StoreFactory
      <4>2. CASE StartFactory(p)
        BY <2>1, <3>6, <4>2 DEF StartFactory, Starts, SharedInformerFactory
      <4>3. CASE RegisterInformers(p)
        <5>1. \/ informers' = informers
              \/ informers' = [informers EXCEPT ![found[p]].registered = TRUE]
          BY <4>3 DEF RegisterInformers
        <5>2. informers[f] \in SharedInformerFactory
          BY <2>1
        <5>3. QED
          BY <2>1, <5>1, <5>2 DEF SharedInformerFactory
      <4>4. CASE UNCHANGED informers
        BY <4>4
      <4>5. QED
        BY <2>2, <4>1, <4>2, <4>3, <4>4
        DEF CallerStep, ReturnsManager, GetCluster, QueryCluster, StoreManager, GetClient,
            LockManager, BuildClients
    <3>7. QED
      BY <3>2, <3>5, <3>6, HungStays
  <2>3. CASE IdleTimePasses
    <3>1. object'[held[Cleaner]] = [object[held[Cleaner]] EXCEPT !.due = TRUE]
      BY <2>1, <2>3 DEF IdleTimePasses
    <3>2. object[held[Cleaner]] \in LazyClusterManager
      BY <2>1 DEF IInv, Live
    <3>3. Mine(Cleaner)'.cache = Mine(Cleaner).cache
      BY <2>1, <2>3, <3>1, <3>2 DEF IdleTimePasses, Mine, LazyClusterManager
    <3>4. QED
      BY <2>3, <3>3, HungStays DEF IdleTimePasses
  <2>4. ASSUME NEW p \in Callers, Stop(p) PROVE Hung'
    BY <2>4, HungStays DEF Stop, Mine
  <2>5. ASSUME NEW f \in Factories, RunInformer(f) PROVE Hung'
    <3>1. \A g \in Factories : informers[g].running => informers'[g] = informers[g]
      BY <2>1, <2>5 DEF RunInformer
    <3>2. QED
      BY <2>5, <3>1, HungStays DEF RunInformer, Mine
  <2>6. CASE CleanupStarts \/ CleanerStep
    BY <2>1, <2>6
    DEF CleanupStarts, CleanerStep, VisitKey, LoadVictim, MarkManager, RangeEnds, Close,
        ShutdownEnds, DeleteManager, SweepEnds, Hung
  <2>7. QED
    BY <2>2, <2>3, <2>4, <2>5, <2>6 DEF Next
<1>2. QED
  BY <1>1, Invariance, PTL DEF Spec

================================================================================
