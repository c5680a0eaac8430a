------------------------ MODULE ClusterRegistryProofs ------------------------
(***************************************************************************)
(* Theorems about ClusterRegistry, for every set of clusters, requests and *)
(* configurations, every environment and every build failure.              *)
(***************************************************************************)
EXTENDS ClusterRegistry, TLAPS

------------------------------------------------------------------------------
(* The inductive invariant                                                 *)

\* Where the local variables of a caller mean something.
LocalsInv ==
    /\ \A p \in Callers :
        /\ pc[p] \in {"reload", "close", "remove"} => victim[p] \in Clusters
        /\ pc[p] \in {"close", "remove"} => loaded[p] \in ClusterManager
        /\ pc[p] = "build" =>
            \A c \in todo[p] : listed[p][c] \in Row /\ builder[p][c] = "idle"
    /\ \A p \in Callers, c \in Clusters :
        /\ builder[p][c] # "idle" => pc[p] = "build" /\ listed[p][c] \in Row
        /\ builder[p][c] = "store" <=> stop[p][c] # Nil
        /\ builder[p][c] \in {"discover", "store"} => factory[c] \in Factory

\* A stop channel has one owner: the entry of one cluster or one builder.
CachesInv ==
    /\ \A c, d \in Clusters :
        registry[c] # Nil /\ registry[d] # Nil /\ registry[c].cache # Nil
            /\ registry[c].cache = registry[d].cache => c = d
    /\ \A p \in Callers, c \in Clusters :
        stop[p][c] # Nil =>
            /\ stop[p][c] \notin closed
            /\ \A d \in Clusters : registry[d] # Nil => registry[d].cache # stop[p][c]
            /\ \A q \in Callers : loaded[q] # Nil => loaded[q].cache # stop[p][c]
            /\ \A q \in Callers, d \in Clusters :
                stop[q][d] = stop[p][c] => q = p /\ d = c

\* A cleanup that still has something to close holds the current manager.
OpenIsCurrent ==
    \A p \in Callers :
        pc[p] = "close" /\ loaded[p].cache \notin closed \cup {Nil} =>
            registry[victim[p]] = loaded[p]

\* Two cleanups never delete the same entry.
OneRemover ==
    \A p, q \in Callers :
        pc[p] = "remove" /\ pc[q] = "remove" /\ victim[p] = victim[q] => p = q

\* Running informers listen to the stop channel of the manager of the cluster.
InformersInv ==
    \A c \in Clusters : Running(c) =>
        /\ registry[c] # Nil
        /\ registry[c].cache # Nil =>
            /\ factory[c].stop = registry[c].cache
            /\ registry[c].cache \notin closed
        /\ \A p \in Callers : Building(p, c) =>
            /\ builder[p][c] = "store"
            /\ factory[c].stop = stop[p][c]

IInv ==
    /\ TypeOK
    /\ LocalsInv
    /\ OneBuilder
    /\ FactoryBuiltOnce
    /\ CachesInv
    /\ OpenIsCurrent
    /\ RemovesWhatItClosed
    /\ OneRemover
    /\ InformersInv

------------------------------------------------------------------------------
(* Updates of functions of two arguments                                   *)

\* One entry of a nested function is replaced, every other one keeps its value.
LEMMA UpdateNested ==
    ASSUME NEW D, NEW E, NEW S, NEW f \in [D -> [E -> S]],
           NEW d \in D, NEW e \in E, NEW v \in S
    PROVE  LET g == [f EXCEPT ![d][e] = v]
           IN /\ g \in [D -> [E -> S]]
              /\ \A x \in D, y \in E :
                     g[x][y] = IF x = d /\ y = e THEN v ELSE f[x][y]
OBVIOUS

\* A builder moves, and no other one does.
LEMMA BuilderMoves ==
    ASSUME TypeOK, NEW p \in Callers, NEW c \in Clusters, NEW s \in Stages, GoTo(p, c, s)
    PROVE  /\ builder' \in [Callers -> [Clusters -> Stages]]
           /\ \A q \in Callers, d \in Clusters :
                  builder'[q][d] = IF q = p /\ d = c THEN s ELSE builder[q][d]
<1>1. builder \in [Callers -> [Clusters -> Stages]]
    BY DEF TypeOK
<1>2. builder' = [builder EXCEPT ![p][c] = s]
    BY DEF GoTo
<1> QED
    BY <1>1, <1>2, UpdateNested

\* A builder takes or gives up its stop channel.
LEMMA StopMoves ==
    ASSUME TypeOK, NEW p \in Callers, NEW c \in Clusters, NEW k \in Caches \cup {Nil},
           stop' = [stop EXCEPT ![p][c] = k]
    PROVE  /\ stop' \in [Callers -> [Clusters -> Caches \cup {Nil}]]
           /\ \A q \in Callers, d \in Clusters :
                  stop'[q][d] = IF q = p /\ d = c THEN k ELSE stop[q][d]
<1>1. stop \in [Callers -> [Clusters -> Caches \cup {Nil}]]
    BY DEF TypeOK
<1> QED
    BY <1>1, UpdateNested

------------------------------------------------------------------------------
\* A process that has just started satisfies the invariant: its memory is empty.
LEMMA InitIInv == Init => IInv
<1> SUFFICES ASSUME Init PROVE IInv
    OBVIOUS
<1> USE DEF Init, ForAll, Everywhere, NothingListed
<1>1. TypeOK
    BY DEF TypeOK, Locations, Answers, Stages
<1>2. LocalsInv /\ OneBuilder /\ FactoryBuiltOnce
    BY DEF LocalsInv, OneBuilder, FactoryBuiltOnce, Building
<1>3. CachesInv /\ OpenIsCurrent /\ RemovesWhatItClosed /\ OneRemover
    BY DEF CachesInv, OpenIsCurrent, RemovesWhatItClosed, OneRemover
<1>4. InformersInv
    BY DEF InformersInv, Running
<1> QED
    BY <1>1, <1>2, <1>3, <1>4 DEF IInv

\* Every step keeps the types: what a caller indexes with is there to be indexed.
LEMMA TypeStep == TypeOK /\ LocalsInv /\ [Next]_vars => TypeOK'
<1> SUFFICES ASSUME TypeOK, LocalsInv, [Next]_vars PROVE TypeOK'
    OBVIOUS
<1> USE DEF callerVars, builderVars
<1>1. ASSUME Restart PROVE TypeOK'
    BY <1>1 DEF TypeOK, Restart, ForAll, Everywhere, NothingListed, Locations, Answers, Stages
<1>2. ASSUME NEW c \in Clusters, Admin(c) PROVE TypeOK'
  <2>1. ASSUME NEW row \in Row \cup {Nil}, WriteRow(c, row) PROVE TypeOK'
    BY <2>1 DEF TypeOK, WriteRow
  <2>2. ASSUME NEW r \in Row PROVE [r EXCEPT !.deleted = TRUE] \in Row
    BY DEF Row
  <2> QED
    BY <1>2, <2>1, <2>2 DEF TypeOK, Admin, Create, Update, Delete, AddCluster, UpdateClusterByName,
                            DeleteClusterByName
<1>3. ASSUME NEW p \in Callers, NEW c \in Clusters, ManagerCalled(p, c) PROVE TypeOK'
    BY <1>3 DEF TypeOK, ManagerCalled, AnswerFor, Answers, Locations
<1>4. ASSUME NEW p \in Callers, ManagerAnswers(p) PROVE TypeOK'
    BY <1>4 DEF TypeOK, ManagerAnswers, AnswerFor, Answers, Locations
<1>5. ASSUME TickerFires PROVE TypeOK'
    BY <1>5 DEF TypeOK, TickerFires, Callers, Locations
<1>6. ASSUME NEW p \in Callers, ListFails(p) PROVE TypeOK'
    BY <1>6 DEF TypeOK, ListFails, AfterBuild, Locations
<1>7. ASSUME NEW p \in Callers, ListClusters(p) PROVE TypeOK'
  <2>1. GetAllNormalClusters \in [Clusters -> Row \cup {Nil}]
    BY DEF TypeOK, GetAllNormalClusters
  <2> QED
    BY <1>7, <2>1 DEF TypeOK, ListClusters, Locations
<1>8. ASSUME NEW p \in Callers, Panic(p) PROVE TypeOK'
  <2>1. CASE Restart
    BY <1>1, <2>1
  <2>2. CASE ~Restart
    <3>1. /\ pc' = [pc EXCEPT ![p] = "idle"]
          /\ answer' = [answer EXCEPT ![p] = "error"]
          /\ listed' = [listed EXCEPT ![p] = NothingListed]
          /\ todo' = [todo EXCEPT ![p] = {}]
          /\ victim' = [victim EXCEPT ![p] = Nil]
          /\ loaded' = [loaded EXCEPT ![p] = Nil]
          /\ UNCHANGED <<db, registry, factory, closed, target, builder, stop>>
      BY <1>8, <2>2 DEF Panic
    <3> QED
      BY <3>1 DEF TypeOK, Everywhere, NothingListed, Locations, Answers
  <2> QED
    BY <2>1, <2>2
<1>9. ASSUME NEW p \in Callers, NEW c \in Clusters, VisitKey(p, c) PROVE TypeOK'
  <2>1. (todo \in [Callers -> SUBSET Clusters])'
    BY <1>9 DEF TypeOK, VisitKey
  <2>2. (pc \in [Callers -> Locations])'
    BY <1>9 DEF TypeOK, VisitKey, Locations
  <2>3. (victim \in [Callers -> Clusters \cup {Nil}])'
    BY <1>9 DEF TypeOK, VisitKey
  <2> QED
    BY <1>9, <2>1, <2>2, <2>3 DEF TypeOK, VisitKey
<1>10. ASSUME NEW p \in Callers, ReloadManager(p) PROVE TypeOK'
  <2>1. CASE Panic(p)
    BY <1>8, <2>1
  <2>2. CASE ~Panic(p)
    <3>1. victim[p] \in Clusters
      BY <1>10 DEF ReloadManager, LocalsInv
    <3>2. /\ loaded' = [loaded EXCEPT ![p] = registry[victim[p]]]
          /\ pc' = [pc EXCEPT ![p] = "close"]
          /\ UNCHANGED <<db, registry, factory, closed, target, listed, todo, victim,
                         answer, builder, stop>>
      BY <1>10, <2>2 DEF ReloadManager
    <3> QED
      BY <3>1, <3>2 DEF TypeOK, Locations
  <2> QED
    BY <2>1, <2>2
<1>11. ASSUME NEW p \in Callers, CloseManager(p) PROVE TypeOK'
  <2>1. CASE Panic(p)
    BY <1>8, <2>1
  <2>2. CASE ~Panic(p)
    <3>1. loaded[p] \in ClusterManager
      BY <1>11 DEF CloseManager, LocalsInv
    <3>2. /\ loaded[p].cache \notin closed \cup {Nil}
          /\ closed' = closed \cup {loaded[p].cache}
          /\ StopInformers(loaded[p].cache)
          /\ pc' = [pc EXCEPT ![p] = "remove"]
          /\ UNCHANGED <<db, registry, target, listed, todo, victim, loaded, answer,
                         builder, stop>>
      BY <1>11, <2>2 DEF CloseManager
    <3>3. closed' \in SUBSET Caches
      BY <3>1, <3>2 DEF TypeOK, ClusterManager
    <3>4. factory' \in [Clusters -> Factory \cup {Nil}]
      <4>1. ASSUME NEW f \in Factory PROVE [f EXCEPT !.informers = "stopped"] \in Factory
        BY DEF Factory
      <4> QED
        BY <3>2, <4>1 DEF TypeOK, StopInformers
    <3>5. pc' \in [Callers -> Locations]
      BY <3>2 DEF TypeOK, Locations
    <3> QED
      BY <3>2, <3>3, <3>4, <3>5 DEF TypeOK
  <2> QED
    BY <2>1, <2>2
<1>12. ASSUME NEW p \in Callers, RemoveManager(p) PROVE TypeOK'
    BY <1>12 DEF TypeOK, RemoveManager, Locations
<1>13. ASSUME NEW p \in Callers, CleanUpEnds(p) PROVE TypeOK'
    BY <1>13 DEF TypeOK, CleanUpEnds, Locations
<1>14. ASSUME NEW p \in Callers, NEW c \in Clusters, SpawnOrSkip(p, c) PROVE TypeOK'
  <2>1. (todo \in [Callers -> SUBSET Clusters])'
    BY <1>14 DEF TypeOK, SpawnOrSkip
  <2>2. GoTo(p, c, "claim") \/ UNCHANGED builder
    BY <1>14 DEF SpawnOrSkip, GoTo
  <2>3. (builder \in [Callers -> [Clusters -> Stages]])'
    <3>1. "claim" \in Stages
      BY DEF Stages
    <3>2. CASE GoTo(p, c, "claim")
      BY <3>1, <3>2, BuilderMoves
    <3>3. CASE UNCHANGED builder
      BY <3>3 DEF TypeOK
    <3> QED
      BY <2>2, <3>2, <3>3
  <2> QED
    BY <1>14, <2>1, <2>3 DEF TypeOK, SpawnOrSkip
<1>15. ASSUME NEW p \in Callers, WaitEnds(p) PROVE TypeOK'
    BY <1>15 DEF TypeOK, WaitEnds, AfterBuild, Locations, NothingListed, Everywhere
<1>16. ASSUME NEW p \in Callers, NEW c \in Clusters, ClaimCluster(p, c) PROVE TypeOK'
  <2>1. PICK s \in Stages : GoTo(p, c, s)
    BY <1>16 DEF ClaimCluster, Stages
  <2>2. builder' \in [Callers -> [Clusters -> Stages]]
    BY <2>1, BuilderMoves
  <2>3. Placeholder(listed[p][c]) \in ClusterManager
    BY <1>16 DEF ClaimCluster, At, LocalsInv, Placeholder, ClusterManager
  <2>4. registry' \in [Clusters -> ClusterManager \cup {Nil}]
    BY <1>16, <2>3 DEF TypeOK, ClaimCluster
  <2> QED
    BY <1>16, <2>2, <2>4 DEF TypeOK, ClaimCluster
<1>17. ASSUME NEW p \in Callers, NEW c \in Clusters,
              BuildClients(p, c) \/ FindFactory(p, c)
       PROVE  TypeOK'
  <2>1. PICK s \in Stages : GoTo(p, c, s)
    BY <1>17 DEF BuildClients, FindFactory, GivesUp, Stages
  <2>2. builder' \in [Callers -> [Clusters -> Stages]]
    BY <2>1, BuilderMoves
  <2>3. UNCHANGED <<db, registry, factory, closed, callerVars, stop>>
    BY <1>17 DEF BuildClients, FindFactory, GivesUp
  <2> QED
    BY <2>2, <2>3 DEF TypeOK
<1>18. ASSUME NEW p \in Callers, NEW c \in Clusters, StoreFactory(p, c) PROVE TypeOK'
  <2>1. "discover" \in Stages
    BY DEF Stages
  <2>2. builder' \in [Callers -> [Clusters -> Stages]]
    BY <1>18, <2>1, BuilderMoves DEF StoreFactory
  <2>3. [config |-> listed[p][c].config, informers |-> "idle", stop |-> Nil] \in Factory
    BY <1>18 DEF StoreFactory, At, LocalsInv, Row, Factory
  <2>4. factory' \in [Clusters -> Factory \cup {Nil}]
    BY <1>18, <2>3 DEF TypeOK, StoreFactory
  <2> QED
    BY <1>18, <2>2, <2>4 DEF TypeOK, StoreFactory
<1>19. ASSUME NEW p \in Callers, NEW c \in Clusters, BuildCacheController(p, c) PROVE TypeOK'
  <2>1. PICK s \in Stages : GoTo(p, c, s)
    BY <1>19 DEF BuildCacheController, StartInformers, GivesUp, Stages
  <2>2. builder' \in [Callers -> [Clusters -> Stages]]
    BY <2>1, BuilderMoves
  <2>3. CASE UNCHANGED <<db, registry, factory, closed, callerVars, stop>>
    BY <2>2, <2>3 DEF TypeOK
  <2>4. CASE ~UNCHANGED <<db, registry, factory, closed, callerVars, stop>>
    <3>1. /\ FreshCaches # {}
          /\ RunInformers(c, NewStop)
          /\ closed' = closed \ {NewStop}
          /\ UNCHANGED stop \/ stop' = [stop EXCEPT ![p][c] = NewStop]
          /\ UNCHANGED <<db, registry, callerVars>>
      BY <1>19, <2>4 DEF BuildCacheController, StartInformers, GivesUp
    <3>2. NewStop \in Caches
      BY <3>1 DEF NewStop, FreshCaches
    <3>3. stop' \in [Callers -> [Clusters -> Caches \cup {Nil}]]
      BY <3>1, <3>2, StopMoves DEF TypeOK
    <3>4. factory[c] \in Factory
      BY <1>19 DEF BuildCacheController, At, LocalsInv
    <3>5. factory' \in [Clusters -> Factory \cup {Nil}]
      BY <3>1, <3>2, <3>4 DEF TypeOK, RunInformers, Factory
    <3> QED
      BY <2>2, <3>1, <3>3, <3>5 DEF TypeOK
  <2> QED
    BY <2>3, <2>4
<1>20. ASSUME NEW p \in Callers, NEW c \in Clusters, StoreManager(p, c) PROVE TypeOK'
  <2>1. "idle" \in Stages
    BY DEF Stages
  <2>2. builder' \in [Callers -> [Clusters -> Stages]]
    BY <1>20, <2>1, BuilderMoves DEF StoreManager
  <2>3. stop' \in [Callers -> [Clusters -> Caches \cup {Nil}]]
    BY <1>20, StopMoves DEF StoreManager
  <2>4. [cluster |-> listed[p][c], cache |-> stop[p][c]] \in ClusterManager
    BY <1>20 DEF TypeOK, StoreManager, At, LocalsInv, ClusterManager
  <2>5. registry' \in [Clusters -> ClusterManager \cup {Nil}]
    BY <1>20, <2>4 DEF TypeOK, StoreManager
  <2> QED
    BY <1>20, <2>2, <2>3, <2>5 DEF TypeOK, StoreManager
<1>21. CASE UNCHANGED vars
    BY <1>21 DEF vars, TypeOK
<1> QED
    BY <1>1, <1>2, <1>3, <1>4, <1>5, <1>6, <1>7, <1>9, <1>10, <1>11, <1>12, <1>13, <1>14,
       <1>15, <1>16, <1>17, <1>18, <1>19, <1>20, <1>21
    DEF Next, CallerStep, BuilderStep, Kill

------------------------------------------------------------------------------
\* The steps that touch neither the table's copies in memory nor a builder, and
\* after which their caller is neither closing nor removing.
Quiet(p) ==
    \/ \E c \in Clusters : ManagerCalled(p, c) \/ VisitKey(p, c)
    \/ ManagerAnswers(p)
    \/ p = Ticker /\ TickerFires
    \/ ListFails(p)
    \/ ListClusters(p)
    \/ CleanUpEnds(p)
    \/ WaitEnds(p)

\* What a quiet step leaves alone.
LEMMA QuietFrame ==
    ASSUME TypeOK, NEW p \in Callers, Quiet(p)
    PROVE  /\ UNCHANGED <<registry, factory, closed, loaded, builder, stop>>
           /\ pc'[p] \notin {"close", "remove"}
           /\ pc[p] \notin {"reload", "close", "remove"}
           /\ \A q \in Callers \ {p} :
                /\ pc'[q] = pc[q] /\ victim'[q] = victim[q]
                /\ todo'[q] = todo[q] /\ listed'[q] = listed[q]
<1> USE DEF TypeOK, builderVars, AfterBuild
<1>1. CASE \E c \in Clusters : ManagerCalled(p, c)
    BY <1>1 DEF ManagerCalled
<1>2. CASE \E c \in Clusters : VisitKey(p, c)
    BY <1>2 DEF VisitKey
<1>3. CASE ManagerAnswers(p)
    BY <1>3 DEF ManagerAnswers
<1>4. CASE p = Ticker /\ TickerFires
    BY <1>4 DEF TickerFires
<1>5. CASE ListFails(p)
    BY <1>5 DEF ListFails
<1>6. CASE ListClusters(p)
    BY <1>6 DEF ListClusters
<1>7. CASE CleanUpEnds(p)
    BY <1>7 DEF CleanUpEnds
<1>8. CASE WaitEnds(p)
    BY <1>8 DEF WaitEnds
<1> QED
    BY <1>1, <1>2, <1>3, <1>4, <1>5, <1>6, <1>7, <1>8 DEF Quiet

\* What a panic of a request leaves behind: its own locals are gone.
LEMMA PanicFrame ==
    ASSUME TypeOK, NEW p \in Callers, Panic(p), ~Restart
    PROVE  /\ UNCHANGED <<db, registry, factory, closed, target, builder, stop>>
           /\ pc' = [pc EXCEPT ![p] = "idle"]
           /\ listed' = [listed EXCEPT ![p] = NothingListed]
           /\ todo' = [todo EXCEPT ![p] = {}]
           /\ victim' = [victim EXCEPT ![p] = Nil]
           /\ loaded' = [loaded EXCEPT ![p] = Nil]
BY DEF Panic, builderVars

\* Every step is one of these.
LEMMA NextCases ==
    ASSUME [Next]_vars
    PROVE  \/ Restart
           \/ \E c \in Clusters : Admin(c)
           \/ \E p \in Callers :
                \/ Quiet(p)
                \/ Panic(p) /\ pc[p] \in {"reload", "close"}
                \/ ReloadManager(p) /\ ~Panic(p)
                \/ CloseManager(p) /\ ~Panic(p)
                \/ RemoveManager(p)
                \/ \E c \in Clusters : SpawnOrSkip(p, c) \/ BuilderStep(p, c)
           \/ UNCHANGED vars
BY DEF Next, CallerStep, Kill, Quiet, Callers, ReloadManager, CloseManager

------------------------------------------------------------------------------
(* What the steps of a builder change                                      *)

\* A builder only acts inside BuildApiserverClient, on the row it was given.
LEMMA BuilderFrame ==
    ASSUME TypeOK, LocalsInv, NEW p \in Callers, NEW c \in Clusters, BuilderStep(p, c)
    PROVE  /\ UNCHANGED <<db, pc, target, listed, todo, victim, loaded, answer>>
           /\ builder[p][c] # "idle"
           /\ pc[p] = "build" /\ listed[p][c] \in Row
           /\ \E s \in Stages : GoTo(p, c, s)
<1>1. builder[p][c] # "idle" /\ UNCHANGED callerVars /\ UNCHANGED db
    BY DEF BuilderStep, At, ClaimCluster, BuildClients, FindFactory, StoreFactory,
           BuildCacheController, StartInformers, StoreManager, GivesUp
<1>2. \E s \in Stages : GoTo(p, c, s)
    BY DEF BuilderStep, ClaimCluster, BuildClients, FindFactory, StoreFactory,
           BuildCacheController, StartInformers, StoreManager, GivesUp, Stages
<1> QED
    BY <1>1, <1>2 DEF callerVars, LocalsInv

\* The four kinds of steps of a builder that matter: it moves on, claims the
\* entry, stores the factory, starts the informers, stores the manager.
MovesOn(p, c) ==
    /\ UNCHANGED <<registry, factory, closed, stop>>
    /\ builder[p][c] \notin {"idle", "store"}
    /\ builder[p][c] = "claim" => builder'[p][c] = "idle"
    /\ builder'[p][c] \in {"idle", "factory", "newFactory", "discover"}
    /\ builder'[p][c] = "newFactory" => factory[c] = Nil
    /\ builder'[p][c] = "discover" => factory[c] # Nil

\* Every step of a builder is one of those kinds.
LEMMA BuilderCases ==
    ASSUME TypeOK, NEW p \in Callers, NEW c \in Clusters, BuilderStep(p, c)
    PROVE  \/ MovesOn(p, c)
           \/ ClaimCluster(p, c) /\ registry[c] = Nil /\ GoTo(p, c, "client")
           \/ StoreFactory(p, c)
           \/ StartInformers(p, c) /\ At(p, c, "discover")
           \/ StoreManager(p, c)
<1>1. CASE ClaimCluster(p, c) /\ registry[c] # Nil
  <2>1. GoTo(p, c, "idle") /\ At(p, c, "claim") /\ UNCHANGED <<registry, factory, closed, stop>>
    BY <1>1 DEF ClaimCluster
  <2>2. builder'[p][c] = "idle"
    BY <2>1, BuilderMoves, "idle" \in Stages DEF Stages
  <2> QED
    BY <2>1, <2>2 DEF MovesOn, At
<1>2. CASE ClaimCluster(p, c) /\ registry[c] = Nil
    BY <1>2 DEF ClaimCluster
<1>3. CASE BuildClients(p, c)
  <2>1. /\ At(p, c, "client") /\ UNCHANGED <<registry, factory, closed, stop>>
        /\ GoTo(p, c, "idle") \/ GoTo(p, c, "factory")
    BY <1>3 DEF BuildClients, GivesUp
  <2>2. builder'[p][c] \in {"idle", "factory"}
    BY <2>1, BuilderMoves, "idle" \in Stages, "factory" \in Stages DEF Stages
  <2> QED
    BY <2>1, <2>2 DEF MovesOn, At
<1>4. CASE FindFactory(p, c)
  <2>1. /\ At(p, c, "factory") /\ UNCHANGED <<registry, factory, closed, stop>>
        /\ factory[c] = Nil => GoTo(p, c, "newFactory")
        /\ factory[c] # Nil => GoTo(p, c, "discover")
    BY <1>4 DEF FindFactory
  <2>2. /\ factory[c] = Nil => builder'[p][c] = "newFactory"
        /\ factory[c] # Nil => builder'[p][c] = "discover"
    BY <2>1, BuilderMoves, "newFactory" \in Stages, "discover" \in Stages DEF Stages
  <2> QED
    BY <2>1, <2>2 DEF MovesOn, At
<1>5. CASE BuildCacheController(p, c)
  <2>1. CASE StartInformers(p, c)
    BY <1>5, <2>1 DEF BuildCacheController
  <2>2. CASE ~StartInformers(p, c)
    <3>1. /\ At(p, c, "discover") /\ UNCHANGED <<registry, factory, closed, stop>>
          /\ GoTo(p, c, "idle")
      BY <1>5, <2>2 DEF BuildCacheController, GivesUp
    <3>2. builder'[p][c] = "idle"
      BY <3>1, BuilderMoves, "idle" \in Stages DEF Stages
    <3> QED
      BY <3>1, <3>2 DEF MovesOn, At
  <2> QED
    BY <2>1, <2>2
<1> QED
    BY <1>1, <1>2, <1>3, <1>4, <1>5 DEF BuilderStep

\* The informers of a cluster start, listening to a channel nobody holds.
LEMMA StartFrame ==
    ASSUME TypeOK, LocalsInv, NEW p \in Callers, NEW c \in Clusters,
           StartInformers(p, c), At(p, c, "discover")
    PROVE  /\ NewStop \in FreshCaches /\ NewStop # Nil
           /\ factory[c] \in Factory /\ factory'[c] \in Factory
           /\ \A d \in Clusters \ {c} : factory'[d] = factory[d]
           /\ factory[c].informers = "idle" =>
                  factory'[c].stop = NewStop /\ factory'[c].informers = "running"
           /\ factory[c].informers # "idle" => factory'[c] = factory[c]
           /\ closed' = closed \ {NewStop} /\ UNCHANGED registry
           /\ \A q \in Callers, d \in Clusters :
                  ~(q = p /\ d = c) => stop'[q][d] = stop[q][d]
           /\ \/ builder'[p][c] = "idle" /\ stop'[p][c] = Nil
              \/ builder'[p][c] = "store" /\ stop'[p][c] = NewStop
<1>1. NewStop \in FreshCaches
    BY DEF StartInformers, NewStop
<1>2. NewStop \in Caches /\ NewStop # Nil
    BY <1>1, ConstantsAssumption DEF FreshCaches
<1>3. factory[c] \in Factory
    BY DEF At, LocalsInv
<1>4. /\ factory'[c] = IF factory[c].informers = "idle"
                       THEN [factory[c] EXCEPT !.informers = "running", !.stop = NewStop]
                       ELSE factory[c]
      /\ \A d \in Clusters \ {c} : factory'[d] = factory[d]
    BY DEF StartInformers, RunInformers, TypeOK
<1>5. /\ factory'[c] \in Factory
      /\ factory[c].informers = "idle" =>
             factory'[c].stop = NewStop /\ factory'[c].informers = "running"
    BY <1>2, <1>3, <1>4 DEF Factory
<1>6. stop[p][c] = Nil
    BY DEF At, LocalsInv, TypeOK
<1>7. CASE GoTo(p, c, "idle") /\ UNCHANGED stop
  <2>1. builder'[p][c] = "idle"
    BY <1>7, BuilderMoves, "idle" \in Stages DEF Stages
  <2> QED
    BY <1>1, <1>2, <1>3, <1>4, <1>5, <1>6, <1>7, <2>1 DEF StartInformers
<1>8. CASE GoTo(p, c, "store") /\ stop' = [stop EXCEPT ![p][c] = NewStop]
  <2>1. builder'[p][c] = "store"
    BY <1>8, BuilderMoves, "store" \in Stages DEF Stages
  <2>2. \A q \in Callers, d \in Clusters :
            stop'[q][d] = IF q = p /\ d = c THEN NewStop ELSE stop[q][d]
    BY <1>2, <1>8, StopMoves
  <2> QED
    BY <1>1, <1>2, <1>3, <1>4, <1>5, <1>8, <2>1, <2>2 DEF StartInformers
<1> QED
    BY <1>7, <1>8 DEF StartInformers

------------------------------------------------------------------------------
(* Each part of the invariant is preserved                                 *)

\* The locals of a caller are set before it reaches the code that reads them.
LEMMA LocalsStep == ASSUME IInv, TypeOK', [Next]_vars PROVE LocalsInv'
<1> USE DEF IInv
<1>1. CASE Restart
    BY <1>1 DEF LocalsInv, Restart, ForAll, Everywhere
<1>2. CASE (\E c \in Clusters : Admin(c)) \/ UNCHANGED vars
  <2>1. UNCHANGED <<pc, victim, loaded, todo, listed, builder, stop, factory>>
    BY <1>2 DEF Admin, Create, Update, Delete, AddCluster, UpdateClusterByName,
                DeleteClusterByName, WriteRow,
                callerVars, builderVars, vars
  <2> QED
    BY <2>1 DEF LocalsInv
<1>3. ASSUME NEW p \in Callers, Quiet(p) PROVE LocalsInv'
  <2> USE <1>3 DEF TypeOK, LocalsInv
  <2>1. CASE \E c \in Clusters : ManagerCalled(p, c)
    BY <2>1 DEF ManagerCalled, builderVars
  <2>2. CASE \E c \in Clusters : VisitKey(p, c)
    BY <2>2 DEF VisitKey, builderVars
  <2>3. CASE ManagerAnswers(p) \/ (p = Ticker /\ TickerFires) \/ ListFails(p)
    BY <2>3 DEF ManagerAnswers, TickerFires, ListFails, AfterBuild, builderVars
  <2>4. CASE ListClusters(p)
    BY <2>4 DEF ListClusters, builderVars
  <2>5. CASE CleanUpEnds(p)
    BY <2>5 DEF CleanUpEnds, builderVars
  <2>6. CASE WaitEnds(p)
    BY <2>6 DEF WaitEnds, AfterBuild, builderVars
  <2> QED
    BY <2>1, <2>2, <2>3, <2>4, <2>5, <2>6 DEF Quiet
<1>4. ASSUME NEW p \in Callers, Panic(p), pc[p] \in {"reload", "close"} PROVE LocalsInv'
  <2>1. CASE ~Restart
    <3>0. /\ UNCHANGED <<factory, builder, stop>>
          /\ pc' = [pc EXCEPT ![p] = "idle"]
          /\ listed' = [listed EXCEPT ![p] = NothingListed]
          /\ todo' = [todo EXCEPT ![p] = {}]
          /\ victim' = [victim EXCEPT ![p] = Nil]
          /\ loaded' = [loaded EXCEPT ![p] = Nil]
      BY <1>4, <2>1, PanicFrame
    <3> USE <1>4, <3>0 DEF TypeOK, LocalsInv
    <3>1. (\A q \in Callers : pc[q] = "build" =>
             \A c \in todo[q] : listed[q][c] \in Row /\ builder[q][c] = "idle")'
      OBVIOUS
    <3>2. (\A q \in Callers :
             /\ pc[q] \in {"reload", "close", "remove"} => victim[q] \in Clusters
             /\ pc[q] \in {"close", "remove"} => loaded[q] \in ClusterManager)'
      OBVIOUS
    <3>3. (\A q \in Callers, c \in Clusters :
             builder[q][c] # "idle" => pc[q] = "build" /\ listed[q][c] \in Row)'
      OBVIOUS
    <3> QED
      BY <3>1, <3>2, <3>3
  <2> QED
    BY <1>1, <2>1
<1>5. ASSUME NEW p \in Callers, ReloadManager(p), ~Panic(p) PROVE LocalsInv'
  <2>1. /\ pc[p] = "reload" /\ victim[p] \in Clusters
        /\ registry[victim[p]] \in ClusterManager
        /\ loaded' = [loaded EXCEPT ![p] = registry[victim[p]]]
        /\ pc' = [pc EXCEPT ![p] = "close"]
        /\ UNCHANGED <<factory, listed, todo, victim, builder, stop>>
    BY <1>5 DEF ReloadManager, TypeOK, LocalsInv, builderVars
  <2> QED
    BY <2>1 DEF TypeOK, LocalsInv
<1>6. ASSUME NEW p \in Callers, CloseManager(p), ~Panic(p) PROVE LocalsInv'
  <2>1. /\ pc[p] = "close"
        /\ StopInformers(loaded[p].cache)
        /\ pc' = [pc EXCEPT ![p] = "remove"]
        /\ UNCHANGED <<loaded, listed, todo, victim, builder, stop>>
    BY <1>6 DEF CloseManager, builderVars
  <2>2. \A c \in Clusters : factory[c] \in Factory => factory'[c] \in Factory
    <3>1. ASSUME NEW f \in Factory PROVE [f EXCEPT !.informers = "stopped"] \in Factory
      BY DEF Factory
    <3> QED
      BY <2>1, <3>1 DEF StopInformers
  <2> QED
    BY <2>1, <2>2 DEF TypeOK, LocalsInv
<1>7. ASSUME NEW p \in Callers, RemoveManager(p) PROVE LocalsInv'
  <2>1. /\ pc[p] = "remove"
        /\ pc' = [pc EXCEPT ![p] = "range"]
        /\ victim' = [victim EXCEPT ![p] = Nil]
        /\ loaded' = [loaded EXCEPT ![p] = Nil]
        /\ UNCHANGED <<factory, listed, todo, builder, stop>>
    BY <1>7 DEF RemoveManager, builderVars
  <2> QED
    BY <2>1 DEF TypeOK, LocalsInv
<1>8. ASSUME NEW p \in Callers, NEW c \in Clusters, SpawnOrSkip(p, c) PROVE LocalsInv'
  <2>1. /\ pc[p] = "build" /\ c \in todo[p]
        /\ listed[p][c] \in Row /\ builder[p][c] = "idle"
        /\ todo' = [todo EXCEPT ![p] = @ \ {c}]
        /\ GoTo(p, c, "claim") \/ UNCHANGED builder
        /\ UNCHANGED <<pc, victim, loaded, listed, factory, stop>>
    BY <1>8 DEF SpawnOrSkip, LocalsInv, GoTo
  <2>2. todo'[p] = todo[p] \ {c} /\ \A q \in Callers \ {p} : todo'[q] = todo[q]
    BY <2>1 DEF TypeOK
  <2>3. \A q \in Callers, d \in Clusters :
            builder'[q][d] = builder[q][d] \/ (q = p /\ d = c /\ builder'[q][d] = "claim")
    BY <2>1, "claim" \in Stages, BuilderMoves DEF Stages
  <2>4. (\A q \in Callers :
           /\ pc[q] \in {"reload", "close", "remove"} => victim[q] \in Clusters
           /\ pc[q] \in {"close", "remove"} => loaded[q] \in ClusterManager)'
    BY <2>1 DEF LocalsInv
  <2>5. (\A q \in Callers : pc[q] = "build" =>
            \A d \in todo[q] : listed[q][d] \in Row /\ builder[q][d] = "idle")'
    BY <2>1, <2>2, <2>3 DEF LocalsInv, TypeOK
  <2>6. (\A q \in Callers, d \in Clusters :
            /\ builder[q][d] # "idle" => pc[q] = "build" /\ listed[q][d] \in Row
            /\ builder[q][d] = "store" <=> stop[q][d] # Nil
            /\ builder[q][d] \in {"discover", "store"} => factory[d] \in Factory)'
    BY <2>1, <2>3 DEF LocalsInv
  <2> QED
    BY <2>4, <2>5, <2>6 DEF LocalsInv
<1>9. ASSUME NEW p \in Callers, NEW c \in Clusters, BuilderStep(p, c) PROVE LocalsInv'
  <2>1. /\ UNCHANGED <<pc, victim, loaded, todo, listed>>
        /\ builder[p][c] # "idle" /\ pc[p] = "build" /\ listed[p][c] \in Row
        /\ \E s \in Stages : GoTo(p, c, s)
    BY <1>9, BuilderFrame
  <2>2. \A q \in Callers, d \in Clusters :
            ~(q = p /\ d = c) => builder'[q][d] = builder[q][d]
    BY <2>1, BuilderMoves
  <2> DEFINE Good ==
        /\ \A d \in Clusters : factory[d] \in Factory => factory'[d] \in Factory
        /\ builder'[p][c] \in {"discover", "store"} => factory'[c] \in Factory
        /\ \A q \in Callers, d \in Clusters :
              ~(q = p /\ d = c) => stop'[q][d] = stop[q][d]
        /\ builder'[p][c] = "store" <=> stop'[p][c] # Nil
  <2>3. ASSUME MovesOn(p, c) PROVE Good
    <3>1. stop[p][c] = Nil
      BY <1>9, <2>3 DEF MovesOn, LocalsInv, TypeOK
    <3>2. factory[c] # Nil => factory[c] \in Factory
      BY DEF TypeOK
    <3> QED
      BY <2>3, <3>1, <3>2 DEF MovesOn
  <2>4. ASSUME GoTo(p, c, "client") /\ ClaimCluster(p, c) PROVE Good
    <3>1. builder'[p][c] = "client"
      BY <2>4, BuilderMoves, "client" \in Stages DEF Stages
    <3>2. builder[p][c] = "claim" /\ UNCHANGED <<factory, stop>>
      BY <2>4 DEF ClaimCluster, At
    <3>3. stop[p][c] = Nil
      BY <3>2 DEF LocalsInv
    <3> QED
      BY <3>1, <3>2, <3>3
  <2>5. ASSUME StoreFactory(p, c) PROVE Good
    <3>1. builder'[p][c] = "discover"
      BY <2>5, BuilderMoves, "discover" \in Stages DEF Stages, StoreFactory
    <3>2. builder[p][c] = "newFactory" /\ UNCHANGED stop
      BY <2>5 DEF StoreFactory, At
    <3>3. factory' = [factory EXCEPT ![c] =
             [config |-> listed[p][c].config, informers |-> "idle", stop |-> Nil]]
      BY <2>5 DEF StoreFactory
    <3>4. [config |-> listed[p][c].config, informers |-> "idle", stop |-> Nil] \in Factory
      BY <2>1 DEF Factory, Row
    <3>5. stop[p][c] = Nil
      BY <3>2 DEF LocalsInv
    <3> QED
      BY <3>1, <3>2, <3>3, <3>4, <3>5 DEF TypeOK
  <2>6. ASSUME StartInformers(p, c) /\ At(p, c, "discover") PROVE Good
    <3>1. /\ factory'[c] \in Factory
          /\ \A d \in Clusters \ {c} : factory'[d] = factory[d]
          /\ \A q \in Callers, d \in Clusters :
                 ~(q = p /\ d = c) => stop'[q][d] = stop[q][d]
          /\ NewStop # Nil
          /\ \/ builder'[p][c] = "idle" /\ stop'[p][c] = Nil
             \/ builder'[p][c] = "store" /\ stop'[p][c] = NewStop
      BY <2>6, StartFrame
    <3> QED
      BY <3>1
  <2>7. ASSUME StoreManager(p, c) PROVE Good
    <3>1. builder'[p][c] = "idle" /\ UNCHANGED factory
      BY <2>7, BuilderMoves, "idle" \in Stages DEF Stages, StoreManager
    <3>2. \A q \in Callers, d \in Clusters :
              stop'[q][d] = IF q = p /\ d = c THEN Nil ELSE stop[q][d]
      BY <2>7, StopMoves DEF StoreManager
    <3> QED
      BY <3>1, <3>2
  <2>8. Good
    BY <1>9, <2>3, <2>4, <2>5, <2>6, <2>7, BuilderCases
  <2> HIDE DEF Good
  <2>9. (\A q \in Callers :
           /\ pc[q] \in {"reload", "close", "remove"} => victim[q] \in Clusters
           /\ pc[q] \in {"close", "remove"} => loaded[q] \in ClusterManager)'
    BY <2>1 DEF LocalsInv
  <2>10. (\A q \in Callers : pc[q] = "build" =>
            \A d \in todo[q] : listed[q][d] \in Row /\ builder[q][d] = "idle")'
    <3> SUFFICES ASSUME NEW q \in Callers, pc[q] = "build", NEW d \in todo[q]
                 PROVE  listed[q][d] \in Row /\ builder'[q][d] = "idle"
      BY <2>1
    <3>1. d \in Clusters /\ listed[q][d] \in Row /\ builder[q][d] = "idle"
      BY DEF TypeOK, LocalsInv
    <3> QED
      BY <2>1, <2>2, <3>1
  <2>11. (\A q \in Callers, d \in Clusters :
            /\ builder[q][d] # "idle" => pc[q] = "build" /\ listed[q][d] \in Row
            /\ builder[q][d] = "store" <=> stop[q][d] # Nil
            /\ builder[q][d] \in {"discover", "store"} => factory[d] \in Factory)'
    <3> SUFFICES ASSUME NEW q \in Callers, NEW d \in Clusters
                 PROVE  (/\ builder[q][d] # "idle" => pc[q] = "build" /\ listed[q][d] \in Row
                         /\ builder[q][d] = "store" <=> stop[q][d] # Nil
                         /\ builder[q][d] \in {"discover", "store"} => factory[d] \in Factory)'
      OBVIOUS
    <3>1. CASE q = p /\ d = c
      BY <2>1, <2>8, <3>1 DEF Good
    <3>2. CASE ~(q = p /\ d = c)
      BY <2>1, <2>2, <2>8, <3>2 DEF Good, LocalsInv
    <3> QED
      BY <3>1, <3>2
  <2> QED
    BY <2>9, <2>10, <2>11 DEF LocalsInv
<1> QED
    BY <1>1, <1>2, <1>3, <1>4, <1>5, <1>6, <1>7, <1>8, <1>9, NextCases

\* Every step but a restart, seen by the builders: each builder that is past
\* its LoadOrStore after the step was so before, on the same row, or has just
\* claimed an entry that was absent; and only a cleanup deletes an entry.
LEMMA OneBuilderStep == ASSUME IInv, TypeOK', LocalsInv', [Next]_vars PROVE OneBuilder'
<1> USE DEF IInv
<1>1. CASE Restart
    BY <1>1 DEF Restart, OneBuilder, Building, ForAll, Everywhere
<1>2. CASE (\E c \in Clusters : Admin(c)) \/ UNCHANGED vars
  <2>1. UNCHANGED <<listed, builder, registry>>
    BY <1>2 DEF Admin, Create, Update, Delete, AddCluster, UpdateClusterByName,
                DeleteClusterByName, WriteRow,
                callerVars, builderVars, vars
  <2> QED
    BY <2>1 DEF OneBuilder, Building
<1>3. ASSUME NEW p \in Callers, Quiet(p) PROVE OneBuilder'
  <2>1. UNCHANGED <<registry, builder>> /\ \A q \in Callers \ {p} : listed'[q] = listed[q]
    BY <1>3, QuietFrame
  <2>2. \A c \in Clusters : Building(p, c) => listed'[p] = listed[p]
    BY <1>3 DEF Quiet, ManagerCalled, VisitKey, ManagerAnswers, TickerFires, ListFails,
                ListClusters, CleanUpEnds, WaitEnds, LocalsInv, Building
  <2> QED
    BY <2>1, <2>2 DEF OneBuilder, Building
<1>4. ASSUME NEW p \in Callers, Panic(p), pc[p] \in {"reload", "close"} PROVE OneBuilder'
  <2>1. CASE ~Restart
    <3>1. /\ UNCHANGED <<registry, builder>>
          /\ \A q \in Callers \ {p} : listed'[q] = listed[q]
      BY <1>4, <2>1, PanicFrame DEF TypeOK
    <3>2. \A c \in Clusters : ~Building(p, c)
      BY <1>4 DEF Building, LocalsInv
    <3> QED
      BY <3>1, <3>2 DEF OneBuilder, Building
  <2> QED
    BY <1>1, <2>1
<1>5. ASSUME NEW p \in Callers, (ReloadManager(p) \/ CloseManager(p)) /\ ~Panic(p)
      PROVE  OneBuilder'
  <2>1. UNCHANGED <<registry, builder, listed>>
    BY <1>5 DEF ReloadManager, CloseManager, builderVars
  <2> QED
    BY <2>1 DEF OneBuilder, Building
<1>6. ASSUME NEW p \in Callers, RemoveManager(p) PROVE OneBuilder'
  <2>1. /\ registry[victim[p]] = loaded[p]
        /\ loaded[p].cache # Nil
        /\ registry' = [registry EXCEPT ![victim[p]] = Nil]
        /\ UNCHANGED <<builder, listed>>
    BY <1>6, ConstantsAssumption DEF RemoveManager, RemovesWhatItClosed, TypeOK, builderVars
  <2>2. \A q \in Callers : ~Building(q, victim[p])
    <3>1. victim[p] \in Clusters
      BY <1>6 DEF RemoveManager, LocalsInv
    <3>2. ASSUME NEW q \in Callers, Building(q, victim[p]) PROVE FALSE
      <4>1. registry[victim[p]] = Placeholder(listed[q][victim[p]])
        BY <3>1, <3>2 DEF OneBuilder
      <4> QED
        BY <2>1, <4>1 DEF Placeholder
    <3> QED
      BY <3>2
  <2> QED
    BY <2>1, <2>2 DEF OneBuilder, Building, TypeOK
<1>7. ASSUME NEW p \in Callers, NEW c \in Clusters, SpawnOrSkip(p, c) PROVE OneBuilder'
  <2>1. GoTo(p, c, "claim") \/ UNCHANGED builder
    BY <1>7 DEF SpawnOrSkip, GoTo
  <2>2. UNCHANGED <<registry, listed>>
    BY <1>7 DEF SpawnOrSkip
  <2>3. \A q \in Callers, d \in Clusters :
            builder'[q][d] = builder[q][d] \/ builder'[q][d] = "claim"
    BY <2>1, "claim" \in Stages, BuilderMoves DEF Stages
  <2> QED
    BY <2>2, <2>3 DEF OneBuilder, Building
<1>8. ASSUME NEW p \in Callers, NEW c \in Clusters, BuilderStep(p, c) PROVE OneBuilder'
  <2>1. /\ UNCHANGED listed /\ listed[p][c] \in Row
        /\ \E s \in Stages : GoTo(p, c, s)
    BY <1>8, BuilderFrame
  <2>2. \A q \in Callers, d \in Clusters :
            ~(q = p /\ d = c) => builder'[q][d] = builder[q][d]
    BY <2>1, BuilderMoves
  <2>3. CASE MovesOn(p, c)
    BY <2>1, <2>2, <2>3 DEF MovesOn, OneBuilder, Building
  <2>4. CASE ClaimCluster(p, c) /\ registry[c] = Nil /\ GoTo(p, c, "client")
    <3>1. registry'[c] = Placeholder(listed[p][c])
          /\ \A d \in Clusters \ {c} : registry'[d] = registry[d]
      BY <2>4 DEF ClaimCluster, TypeOK
    <3>2. \A q \in Callers : Building(q, c) => Placeholder(listed[q][c]) \in ClusterManager
      BY DEF Building, LocalsInv, Placeholder, ClusterManager
    <3>3. \A q \in Callers : ~Building(q, c)
      BY <2>4, <3>2, ConstantsAssumption DEF OneBuilder
    <3>4. \A q \in Callers : Building(q, c)' => q = p
      BY <2>2, <3>3 DEF Building
    <3> QED
      BY <2>1, <2>2, <3>1, <3>4 DEF OneBuilder, Building
  <2>5. CASE StoreFactory(p, c) \/ (StartInformers(p, c) /\ At(p, c, "discover"))
    <3>1. UNCHANGED registry /\ Building(p, c)
      BY <2>5 DEF StoreFactory, StartInformers, At, Building
    <3> QED
      BY <2>1, <2>2, <3>1 DEF OneBuilder, Building
  <2>6. CASE StoreManager(p, c)
    <3>1. builder'[p][c] = "idle"
      BY <2>6, BuilderMoves, "idle" \in Stages DEF Stages, StoreManager
    <3>2. Building(p, c) /\ \A d \in Clusters \ {c} : registry'[d] = registry[d]
      BY <2>6 DEF StoreManager, At, Building, TypeOK
    <3> QED
      BY <2>1, <2>2, <3>1, <3>2 DEF OneBuilder, Building
  <2> QED
    BY <1>8, <2>3, <2>4, <2>5, <2>6, BuilderCases
<1> QED
    BY <1>1, <1>2, <1>3, <1>4, <1>5, <1>6, <1>7, <1>8, NextCases

\* Only the one builder of a cluster stores its factory, so none is replaced.
LEMMA FactoryBuiltOnceStep ==
    ASSUME IInv, TypeOK', LocalsInv', [Next]_vars PROVE FactoryBuiltOnce'
<1> USE DEF IInv
<1>1. CASE Restart
    BY <1>1 DEF Restart, FactoryBuiltOnce, ForAll, Everywhere
<1>2. CASE (\E c \in Clusters : Admin(c)) \/ UNCHANGED vars
  <2>1. UNCHANGED <<builder, factory>>
    BY <1>2 DEF Admin, Create, Update, Delete, AddCluster, UpdateClusterByName,
                DeleteClusterByName, WriteRow,
                builderVars, vars
  <2> QED
    BY <2>1 DEF FactoryBuiltOnce
<1>3. ASSUME NEW p \in Callers, Quiet(p) PROVE FactoryBuiltOnce'
    BY <1>3, QuietFrame DEF FactoryBuiltOnce
<1>4. ASSUME NEW p \in Callers, Panic(p) PROVE FactoryBuiltOnce'
    BY <1>1, <1>4, PanicFrame DEF FactoryBuiltOnce
<1>5. ASSUME NEW p \in Callers, (ReloadManager(p) /\ ~Panic(p)) \/ RemoveManager(p)
      PROVE  FactoryBuiltOnce'
  <2>1. UNCHANGED <<builder, factory>>
    BY <1>5 DEF ReloadManager, RemoveManager, builderVars
  <2> QED
    BY <2>1 DEF FactoryBuiltOnce
<1>6. ASSUME NEW p \in Callers, CloseManager(p), ~Panic(p) PROVE FactoryBuiltOnce'
  <2>1. UNCHANGED builder /\ StopInformers(loaded[p].cache)
    BY <1>6 DEF CloseManager, builderVars
  <2> QED
    BY <2>1 DEF FactoryBuiltOnce, StopInformers
<1>7. ASSUME NEW p \in Callers, NEW c \in Clusters, SpawnOrSkip(p, c) PROVE FactoryBuiltOnce'
  <2>1. GoTo(p, c, "claim") \/ UNCHANGED builder
    BY <1>7 DEF SpawnOrSkip, GoTo
  <2>2. UNCHANGED factory
    BY <1>7 DEF SpawnOrSkip
  <2>3. \A q \in Callers, d \in Clusters :
            builder'[q][d] = builder[q][d] \/ builder'[q][d] = "claim"
    BY <2>1, "claim" \in Stages, BuilderMoves DEF Stages
  <2> QED
    BY <2>2, <2>3 DEF FactoryBuiltOnce
<1>8. ASSUME NEW p \in Callers, NEW c \in Clusters, BuilderStep(p, c) PROVE FactoryBuiltOnce'
  <2>1. \E s \in Stages : GoTo(p, c, s)
    BY <1>8, BuilderFrame
  <2>2. \A q \in Callers, d \in Clusters :
            ~(q = p /\ d = c) => builder'[q][d] = builder[q][d]
    BY <2>1, BuilderMoves
  <2>3. CASE MovesOn(p, c)
    BY <2>2, <2>3 DEF MovesOn, FactoryBuiltOnce
  <2>4. CASE ClaimCluster(p, c) /\ registry[c] = Nil /\ GoTo(p, c, "client")
    <3>1. builder'[p][c] = "client" /\ UNCHANGED factory
      BY <2>4, BuilderMoves, "client" \in Stages DEF Stages, ClaimCluster
    <3> QED
      BY <2>2, <3>1 DEF FactoryBuiltOnce
  <2>5. CASE StoreFactory(p, c) \/ (StartInformers(p, c) /\ At(p, c, "discover"))
    <3>1. /\ builder'[p][c] # "newFactory"
          /\ Building(p, c)
          /\ \A d \in Clusters \ {c} : factory'[d] = factory[d]
      BY <2>5, BuilderMoves, "discover" \in Stages, "idle" \in Stages, "store" \in Stages
      DEF Stages, StoreFactory, StartInformers, RunInformers, At, Building, TypeOK
    <3>2. \A q \in Callers : Building(q, c) => q = p
      BY <3>1 DEF OneBuilder
    <3> QED
      BY <2>2, <3>1, <3>2 DEF FactoryBuiltOnce, Building
  <2>6. CASE StoreManager(p, c)
    <3>1. builder'[p][c] = "idle" /\ UNCHANGED factory
      BY <2>6, BuilderMoves, "idle" \in Stages DEF Stages, StoreManager
    <3> QED
      BY <2>2, <3>1 DEF FactoryBuiltOnce
  <2> QED
    BY <1>8, <2>3, <2>4, <2>5, <2>6, BuilderCases
<1> QED
    BY <1>1, <1>2, <1>3, <1>4, <1>5, <1>6, <1>7, <1>8, NextCases

\* A stop channel is made for one builder, which hands it to one entry.
LEMMA CachesStep ==
    ASSUME IInv, TypeOK', LocalsInv', [Next]_vars PROVE CachesInv'
<1> USE DEF IInv
<1>1. CASE Restart
    BY <1>1 DEF Restart, CachesInv, ForAll, Everywhere
<1>2. CASE (\E c \in Clusters : Admin(c)) \/ UNCHANGED vars
  <2>1. UNCHANGED <<registry, stop, closed, loaded>>
    BY <1>2 DEF Admin, Create, Update, Delete, AddCluster, UpdateClusterByName,
                DeleteClusterByName, WriteRow,
                callerVars, builderVars, vars
  <2> QED
    BY <2>1 DEF CachesInv
<1>3. ASSUME NEW p \in Callers, Quiet(p) PROVE CachesInv'
    BY <1>3, QuietFrame DEF CachesInv
<1>4. ASSUME NEW p \in Callers, Panic(p) PROVE CachesInv'
  <2>1. CASE ~Restart
    <3>1. UNCHANGED <<registry, stop, closed>> /\ loaded' = [loaded EXCEPT ![p] = Nil]
      BY <1>4, <2>1, PanicFrame
    <3> QED
      BY <3>1 DEF CachesInv, TypeOK
  <2> QED
    BY <1>1, <2>1
<1>5. ASSUME NEW p \in Callers, ReloadManager(p), ~Panic(p) PROVE CachesInv'
  <2>1. /\ victim[p] \in Clusters /\ registry[victim[p]] # Nil
        /\ loaded' = [loaded EXCEPT ![p] = registry[victim[p]]]
        /\ UNCHANGED <<registry, stop, closed>>
    BY <1>5 DEF ReloadManager, LocalsInv, builderVars
  <2> QED
    BY <2>1 DEF CachesInv, TypeOK
<1>6. ASSUME NEW p \in Callers, CloseManager(p), ~Panic(p) PROVE CachesInv'
  <2>1. /\ loaded[p] \in ClusterManager
        /\ closed' = closed \cup {loaded[p].cache}
        /\ UNCHANGED <<registry, stop, loaded>>
    BY <1>6 DEF CloseManager, LocalsInv, builderVars
  <2>2. loaded[p] # Nil
    BY <2>1, ConstantsAssumption
  <2> QED
    BY <2>1, <2>2 DEF CachesInv
<1>7. ASSUME NEW p \in Callers, RemoveManager(p) PROVE CachesInv'
  <2>1. /\ registry' = [registry EXCEPT ![victim[p]] = Nil]
        /\ loaded' = [loaded EXCEPT ![p] = Nil]
        /\ UNCHANGED <<stop, closed>>
    BY <1>7 DEF RemoveManager, builderVars
  <2> QED
    BY <2>1 DEF CachesInv, TypeOK
<1>8. ASSUME NEW p \in Callers, NEW c \in Clusters, SpawnOrSkip(p, c) PROVE CachesInv'
  <2>1. UNCHANGED <<registry, stop, closed, loaded>>
    BY <1>8 DEF SpawnOrSkip
  <2> QED
    BY <2>1 DEF CachesInv
<1>9. ASSUME NEW p \in Callers, NEW c \in Clusters, BuilderStep(p, c) PROVE CachesInv'
  <2>1. UNCHANGED loaded /\ listed[p][c] \in Row
    BY <1>9, BuilderFrame
  <2>2. CASE MovesOn(p, c) \/ StoreFactory(p, c)
    <3>1. UNCHANGED <<registry, stop, closed>>
      BY <2>2 DEF MovesOn, StoreFactory
    <3> QED
      BY <2>1, <3>1 DEF CachesInv
  <2>3. CASE ClaimCluster(p, c) /\ registry[c] = Nil
    <3>1. /\ registry' = [registry EXCEPT ![c] = Placeholder(listed[p][c])]
          /\ UNCHANGED <<stop, closed>>
      BY <2>3 DEF ClaimCluster
    <3>2. \A d \in Clusters : registry'[d] = registry[d] \/ registry'[d].cache = Nil
      BY <3>1 DEF TypeOK, Placeholder
    <3>3. \A d \in Clusters : registry[d] = Nil => d = c \/ registry'[d] = Nil
      BY <3>1 DEF TypeOK
    <3> QED
      BY <2>1, <3>1, <3>2, <3>3 DEF CachesInv
  <2>4. CASE StartInformers(p, c) /\ At(p, c, "discover")
    <3>1. /\ UNCHANGED registry /\ NewStop \in FreshCaches
          /\ closed' = closed \ {NewStop}
          /\ \A q \in Callers, d \in Clusters :
                ~(q = p /\ d = c) => stop'[q][d] = stop[q][d]
          /\ stop'[p][c] \in {Nil, NewStop}
      BY <2>4, StartFrame
    <3>2. /\ \A d \in Clusters : registry[d] # Nil => registry[d].cache # NewStop
          /\ \A q \in Callers : loaded[q] # Nil => loaded[q].cache # NewStop
          /\ \A q \in Callers, d \in Clusters : stop[q][d] # NewStop
      BY <3>1 DEF FreshCaches
    <3> QED
      BY <2>1, <3>1, <3>2 DEF CachesInv
  <2>5. CASE StoreManager(p, c)
    <3>1. /\ registry' = [registry EXCEPT ![c] =
                 [cluster |-> listed[p][c], cache |-> stop[p][c]]]
          /\ UNCHANGED closed
          /\ stop[p][c] # Nil
      BY <2>5 DEF StoreManager, At, LocalsInv
    <3>2. \A q \in Callers, d \in Clusters :
              stop'[q][d] = IF q = p /\ d = c THEN Nil ELSE stop[q][d]
      BY <2>5, StopMoves DEF StoreManager
    <3>3. /\ registry'[c].cache = stop[p][c]
          /\ \A d \in Clusters \ {c} : registry'[d] = registry[d]
      BY <3>1 DEF TypeOK
    <3> QED
      BY <2>1, <3>1, <3>2, <3>3 DEF CachesInv
  <2> QED
    BY <1>9, <2>2, <2>3, <2>4, <2>5, BuilderCases
<1> QED
    BY <1>1, <1>2, <1>3, <1>4, <1>5, <1>6, <1>7, <1>8, <1>9, NextCases

\* The cleanups: a caller that closes or removes works on the current entry of
\* its victim, and only one of several can have closed it.
CleanUpInv == OpenIsCurrent /\ RemovesWhatItClosed /\ OneRemover

\* Preserved when the entry, the channels and the locals stay as they were.
LEMMA CleanUpFrame ==
    ASSUME CleanUpInv, UNCHANGED <<registry, closed>>,
           \A p \in Callers : pc'[p] \in {"close", "remove"} =>
               pc'[p] = pc[p] /\ victim'[p] = victim[p] /\ loaded'[p] = loaded[p]
    PROVE  CleanUpInv'
BY DEF CleanUpInv, OpenIsCurrent, RemovesWhatItClosed, OneRemover

\* No step makes a cleanup close or delete what is not its own to remove.
LEMMA CleanUpStep ==
    ASSUME IInv, TypeOK', LocalsInv', [Next]_vars PROVE CleanUpInv'
<1> USE DEF IInv
<1>0. CleanUpInv
    BY DEF CleanUpInv
<1>1. CASE Restart
    BY <1>1 DEF Restart, CleanUpInv, OpenIsCurrent, RemovesWhatItClosed, OneRemover, ForAll
<1>2. CASE (\E c \in Clusters : Admin(c)) \/ UNCHANGED vars
  <2>1. UNCHANGED <<registry, closed, pc, victim, loaded>>
    BY <1>2 DEF Admin, Create, Update, Delete, AddCluster, UpdateClusterByName,
                DeleteClusterByName, WriteRow,
                callerVars, builderVars, vars
  <2> QED
    BY <1>0, <2>1, CleanUpFrame
<1>3. ASSUME NEW p \in Callers, Quiet(p) PROVE CleanUpInv'
  <2>1. /\ UNCHANGED <<registry, closed, loaded>>
        /\ pc'[p] \notin {"close", "remove"}
        /\ \A q \in Callers \ {p} : pc'[q] = pc[q] /\ victim'[q] = victim[q]
    BY <1>3, QuietFrame
  <2> QED
    BY <1>0, <2>1, CleanUpFrame
<1>4. ASSUME NEW p \in Callers, Panic(p) PROVE CleanUpInv'
  <2>1. CASE ~Restart
    <3>1. /\ UNCHANGED <<registry, closed>>
          /\ pc' = [pc EXCEPT ![p] = "idle"]
          /\ victim' = [victim EXCEPT ![p] = Nil]
          /\ loaded' = [loaded EXCEPT ![p] = Nil]
      BY <1>4, <2>1, PanicFrame
    <3>2. \A q \in Callers : pc'[q] \in {"close", "remove"} =>
              pc'[q] = pc[q] /\ victim'[q] = victim[q] /\ loaded'[q] = loaded[q]
      BY <3>1 DEF TypeOK
    <3> QED
      BY <1>0, <3>1, <3>2, CleanUpFrame
  <2> QED
    BY <1>1, <2>1
<1>5. ASSUME NEW p \in Callers, ReloadManager(p), ~Panic(p) PROVE CleanUpInv'
  <2>1. /\ loaded' = [loaded EXCEPT ![p] = registry[victim[p]]]
        /\ pc' = [pc EXCEPT ![p] = "close"]
        /\ UNCHANGED <<registry, closed, victim>>
    BY <1>5 DEF ReloadManager
  <2> QED
    BY <2>1 DEF TypeOK, CleanUpInv, OpenIsCurrent, RemovesWhatItClosed, OneRemover
<1>6. ASSUME NEW p \in Callers, CloseManager(p), ~Panic(p) PROVE CleanUpInv'
  <2>1. /\ pc[p] = "close"
        /\ loaded[p].cache \notin closed \cup {Nil}
        /\ closed' = closed \cup {loaded[p].cache}
        /\ pc' = [pc EXCEPT ![p] = "remove"]
        /\ UNCHANGED <<registry, victim, loaded>>
    BY <1>6 DEF CloseManager
  <2>2. registry[victim[p]] = loaded[p]
    BY <2>1 DEF OpenIsCurrent
  <2>3. \A q \in Callers : pc[q] = "remove" => victim[q] # victim[p]
    BY <2>1, <2>2 DEF RemovesWhatItClosed
  <2>4. OpenIsCurrent'
    BY <2>1 DEF OpenIsCurrent, TypeOK
  <2>5. RemovesWhatItClosed'
    BY <2>1, <2>2 DEF RemovesWhatItClosed, TypeOK
  <2>6. OneRemover'
    BY <2>1, <2>3 DEF OneRemover, TypeOK
  <2> QED
    BY <2>4, <2>5, <2>6 DEF CleanUpInv
<1>7. ASSUME NEW p \in Callers, RemoveManager(p) PROVE CleanUpInv'
  <2>1. /\ pc[p] = "remove"
        /\ registry' = [registry EXCEPT ![victim[p]] = Nil]
        /\ pc' = [pc EXCEPT ![p] = "range"]
        /\ victim' = [victim EXCEPT ![p] = Nil]
        /\ loaded' = [loaded EXCEPT ![p] = Nil]
        /\ UNCHANGED closed
    BY <1>7 DEF RemoveManager
  <2>2. registry[victim[p]] = loaded[p] /\ loaded[p].cache \in closed
    BY <2>1 DEF RemovesWhatItClosed
  <2>3. \A d \in Clusters : d # victim[p] => registry'[d] = registry[d]
    BY <2>1 DEF TypeOK
  <2>4. ASSUME NEW q \in Callers, pc'[q] \in {"close", "remove"}
        PROVE  /\ pc'[q] = pc[q] /\ victim'[q] = victim[q] /\ loaded'[q] = loaded[q]
               /\ q # p /\ victim[q] \in Clusters
    BY <2>1, <2>4 DEF TypeOK, LocalsInv
  <2>5. OpenIsCurrent'
    <3> SUFFICES ASSUME NEW q \in Callers, pc'[q] = "close",
                        loaded'[q].cache \notin closed' \cup {Nil}
                 PROVE  registry'[victim'[q]] = loaded'[q]
      BY DEF OpenIsCurrent
    <3>1. registry[victim[q]] = loaded[q] /\ loaded[q].cache \notin closed
      BY <2>1, <2>4 DEF OpenIsCurrent
    <3> QED
      BY <2>2, <2>3, <2>4, <3>1
  <2>6. RemovesWhatItClosed'
    <3> SUFFICES ASSUME NEW q \in Callers, pc'[q] = "remove"
                 PROVE  registry'[victim'[q]] = loaded'[q] /\ loaded'[q].cache \in closed'
      BY DEF RemovesWhatItClosed
    <3>1. victim[q] # victim[p]
      BY <2>1, <2>4 DEF OneRemover
    <3> QED
      BY <2>1, <2>3, <2>4, <3>1 DEF RemovesWhatItClosed
  <2>7. OneRemover'
    BY <2>4 DEF OneRemover
  <2> QED
    BY <2>5, <2>6, <2>7 DEF CleanUpInv
<1>8. ASSUME NEW p \in Callers, NEW c \in Clusters, SpawnOrSkip(p, c) PROVE CleanUpInv'
  <2>1. UNCHANGED <<registry, closed, pc, victim, loaded>>
    BY <1>8 DEF SpawnOrSkip
  <2> QED
    BY <1>0, <2>1, CleanUpFrame
<1>9. ASSUME NEW p \in Callers, NEW c \in Clusters, BuilderStep(p, c) PROVE CleanUpInv'
  <2>1. UNCHANGED <<pc, victim, loaded>>
    BY <1>9, BuilderFrame
  <2>2. CASE MovesOn(p, c) \/ StoreFactory(p, c)
    <3>1. UNCHANGED <<registry, closed>>
      BY <2>2 DEF MovesOn, StoreFactory
    <3> QED
      BY <1>0, <2>1, <3>1, CleanUpFrame
  <2>3. CASE StartInformers(p, c) /\ At(p, c, "discover")
    <3>1. UNCHANGED registry /\ NewStop \in FreshCaches /\ closed' = closed \ {NewStop}
      BY <2>3, StartFrame
    <3>2. \A q \in Callers : pc[q] \in {"close", "remove"} => loaded[q].cache # NewStop
      BY <3>1, ConstantsAssumption DEF FreshCaches, LocalsInv
    <3> QED
      BY <2>1, <3>1, <3>2 DEF CleanUpInv, OpenIsCurrent, RemovesWhatItClosed, OneRemover
  <2>4. CASE (ClaimCluster(p, c) /\ registry[c] = Nil) \/ StoreManager(p, c)
    <3>1. UNCHANGED closed /\ \A d \in Clusters \ {c} : registry'[d] = registry[d]
      BY <2>4 DEF ClaimCluster, StoreManager, TypeOK
    <3>2. registry[c] = Nil \/ registry[c].cache = Nil
      <4>1. CASE StoreManager(p, c)
        <5>1. Building(p, c)
          BY <4>1 DEF StoreManager, At, Building
        <5>2. registry[c] = Placeholder(listed[p][c])
          BY <5>1 DEF OneBuilder
        <5> QED
          BY <5>2 DEF Placeholder
      <4> QED
        BY <2>4, <4>1
    <3>3. ASSUME NEW q \in Callers,
                 \/ pc[q] = "remove"
                 \/ pc[q] = "close" /\ loaded[q].cache \notin closed \cup {Nil}
          PROVE  victim[q] \in Clusters \ {c}
      <4>1. victim[q] \in Clusters /\ loaded[q] # Nil
        BY <3>3, ConstantsAssumption DEF LocalsInv
      <4>2. registry[victim[q]] = loaded[q] /\ loaded[q].cache # Nil
        BY <3>3, ConstantsAssumption DEF OpenIsCurrent, RemovesWhatItClosed, TypeOK
      <4> QED
        BY <3>2, <4>1, <4>2
    <3>4. OpenIsCurrent'
      BY <2>1, <3>1, <3>3 DEF OpenIsCurrent
    <3>5. RemovesWhatItClosed'
      BY <2>1, <3>1, <3>3 DEF RemovesWhatItClosed
    <3>6. OneRemover'
      BY <2>1 DEF OneRemover
    <3> QED
      BY <3>4, <3>5, <3>6 DEF CleanUpInv
  <2> QED
    BY <1>9, <2>2, <2>3, <2>4, BuilderCases
<1> QED
    BY <1>1, <1>2, <1>3, <1>4, <1>5, <1>6, <1>7, <1>8, <1>9, NextCases

\* Informers only start for a builder that will store their channel or leave
\* its placeholder, and stop before the entry that holds their channel goes.
LEMMA InformersStep ==
    ASSUME IInv, TypeOK', LocalsInv', OneBuilder', [Next]_vars PROVE InformersInv'
<1> USE DEF IInv
<1>1. CASE Restart
    BY <1>1 DEF Restart, InformersInv, Running, Everywhere
<1>2. CASE (\E c \in Clusters : Admin(c)) \/ UNCHANGED vars
  <2>1. UNCHANGED <<registry, factory, closed, builder, stop>>
    BY <1>2 DEF Admin, Create, Update, Delete, AddCluster, UpdateClusterByName,
                DeleteClusterByName, WriteRow,
                callerVars, builderVars, vars
  <2> QED
    BY <2>1 DEF InformersInv, Running, Building
<1>3. ASSUME NEW p \in Callers, Quiet(p) PROVE InformersInv'
  <2>1. UNCHANGED <<registry, factory, closed, builder, stop>>
    BY <1>3, QuietFrame
  <2> QED
    BY <2>1 DEF InformersInv, Running, Building
<1>4. ASSUME NEW p \in Callers, Panic(p) PROVE InformersInv'
  <2>1. CASE ~Restart
    <3>1. UNCHANGED <<registry, factory, closed, builder, stop>>
      BY <1>4, <2>1, PanicFrame
    <3> QED
      BY <3>1 DEF InformersInv, Running, Building
  <2> QED
    BY <1>1, <2>1
<1>5. ASSUME NEW p \in Callers, ReloadManager(p), ~Panic(p) PROVE InformersInv'
  <2>1. UNCHANGED <<registry, factory, closed, builder, stop>>
    BY <1>5 DEF ReloadManager, builderVars
  <2> QED
    BY <2>1 DEF InformersInv, Running, Building
<1>6. ASSUME NEW p \in Callers, CloseManager(p), ~Panic(p) PROVE InformersInv'
  <2> DEFINE k == loaded[p].cache
  <2>1. /\ closed' = closed \cup {k}
        /\ StopInformers(k)
        /\ UNCHANGED <<registry, builder, stop>>
    BY <1>6 DEF CloseManager, builderVars
  <2>2. ASSUME NEW c \in Clusters, Running(c)'
        PROVE  Running(c) /\ factory'[c] = factory[c] /\ factory[c].stop # k
    <3>1. factory'[c] = IF factory[c] # Nil /\ factory[c].stop = k
                           /\ factory[c].informers = "running"
                        THEN [factory[c] EXCEPT !.informers = "stopped"]
                        ELSE factory[c]
      BY <2>1 DEF StopInformers
    <3>2. ASSUME NEW f \in Factory PROVE [f EXCEPT !.informers = "stopped"].informers = "stopped"
      BY DEF Factory
    <3>3. factory[c] \in Factory \cup {Nil}
      BY DEF TypeOK
    <3> QED
      BY <2>2, <3>1, <3>2, <3>3 DEF Running
  <2> QED
    BY <2>1, <2>2 DEF InformersInv, Building
<1>7. ASSUME NEW p \in Callers, RemoveManager(p) PROVE InformersInv'
  <2>1. /\ registry[victim[p]] = loaded[p]
        /\ loaded[p].cache \in closed
        /\ victim[p] \in Clusters
        /\ loaded[p] \in ClusterManager
        /\ registry' = [registry EXCEPT ![victim[p]] = Nil]
        /\ UNCHANGED <<factory, closed, builder, stop>>
    BY <1>7 DEF RemoveManager, RemovesWhatItClosed, LocalsInv, builderVars
  <2>2. loaded[p].cache # Nil /\ loaded[p] # Nil
    BY <2>1, ConstantsAssumption DEF TypeOK
  <2>3. ~Running(victim[p])
    BY <2>1, <2>2 DEF InformersInv
  <2>4. \A d \in Clusters : d # victim[p] => registry'[d] = registry[d]
    BY <2>1 DEF TypeOK
  <2> QED
    BY <2>1, <2>3, <2>4 DEF InformersInv, Running, Building
<1>8. ASSUME NEW p \in Callers, NEW c \in Clusters, SpawnOrSkip(p, c) PROVE InformersInv'
  <2>1. GoTo(p, c, "claim") \/ UNCHANGED builder
    BY <1>8 DEF SpawnOrSkip, GoTo
  <2>2. UNCHANGED <<registry, factory, closed, stop>>
    BY <1>8 DEF SpawnOrSkip
  <2>3. \A q \in Callers, d \in Clusters :
            builder'[q][d] = builder[q][d] \/ builder'[q][d] = "claim"
    BY <2>1, "claim" \in Stages, BuilderMoves DEF Stages
  <2> QED
    BY <2>2, <2>3 DEF InformersInv, Running, Building
<1>9. ASSUME NEW p \in Callers, NEW c \in Clusters, BuilderStep(p, c) PROVE InformersInv'
  <2> DEFINE Listening(d) ==
        Running(d) =>
            /\ registry[d] # Nil
            /\ registry[d].cache # Nil =>
                /\ factory[d].stop = registry[d].cache
                /\ registry[d].cache \notin closed
            /\ \A q \in Callers : Building(q, d) =>
                /\ builder[q][d] = "store"
                /\ factory[d].stop = stop[q][d]
  <2>1. /\ \E s \in Stages : GoTo(p, c, s)
        /\ \A q \in Callers, d \in Clusters :
            ~(q = p /\ d = c) => builder'[q][d] = builder[q][d]
    BY <1>9, BuilderFrame, BuilderMoves
  <2>2. \A d \in Clusters : Listening(d)
    BY DEF InformersInv
  <2>3. ASSUME NEW d \in Clusters \ {c},
               registry'[d] = registry[d], factory'[d] = factory[d],
               closed' \subseteq closed,
               \A q \in Callers : stop'[q][d] = stop[q][d]
        PROVE  Listening(d)'
    BY <2>1, <2>2, <2>3 DEF Running, Building
  <2>4. CASE MovesOn(p, c)
    <3>1. Listening(c)'
      BY <2>1, <2>2, <2>4 DEF MovesOn, Running, Building
    <3>2. \A d \in Clusters \ {c} : Listening(d)'
      BY <2>3, <2>4 DEF MovesOn
    <3> QED
      BY <3>1, <3>2 DEF InformersInv
  <2>5. CASE ClaimCluster(p, c) /\ registry[c] = Nil
    <3>1. /\ \A d \in Clusters \ {c} : registry'[d] = registry[d]
          /\ UNCHANGED <<factory, closed, stop>>
      BY <2>5 DEF ClaimCluster, TypeOK
    <3>2. Listening(c)'
      BY <2>2, <2>5, <3>1 DEF Running
    <3>3. \A d \in Clusters \ {c} : Listening(d)'
      BY <2>3, <3>1
    <3> QED
      BY <3>2, <3>3 DEF InformersInv
  <2>6. CASE StoreFactory(p, c)
    <3>1. /\ factory'[c].informers = "idle"
          /\ \A d \in Clusters \ {c} : factory'[d] = factory[d]
          /\ UNCHANGED <<registry, closed, stop>>
      BY <2>6 DEF StoreFactory, TypeOK
    <3>2. Listening(c)'
      BY <3>1 DEF Running
    <3>3. \A d \in Clusters \ {c} : Listening(d)'
      BY <2>3, <3>1
    <3> QED
      BY <3>2, <3>3 DEF InformersInv
  <2>7. CASE StartInformers(p, c) /\ At(p, c, "discover")
    <3>1. /\ factory[c] \in Factory
          /\ \A d \in Clusters \ {c} : factory'[d] = factory[d]
          /\ factory[c].informers = "idle" => factory'[c].stop = NewStop
          /\ factory[c].informers # "idle" => factory'[c] = factory[c]
          /\ closed' = closed \ {NewStop} /\ UNCHANGED registry
          /\ \A q \in Callers, d \in Clusters :
                 ~(q = p /\ d = c) => stop'[q][d] = stop[q][d]
          /\ \/ builder'[p][c] = "idle" /\ stop'[p][c] = Nil
             \/ builder'[p][c] = "store" /\ stop'[p][c] = NewStop
      BY <2>7, StartFrame
    <3>2. Building(p, c) /\ builder[p][c] # "store"
      BY <2>7 DEF At, Building
    <3>3. /\ registry[c] = Placeholder(listed[p][c])
          /\ \A q \in Callers : Building(q, c) => q = p
      BY <3>2 DEF OneBuilder
    <3>4. registry[c] # Nil /\ registry[c].cache = Nil
      <4>1. Placeholder(listed[p][c]) \in ClusterManager
        BY <3>2 DEF Building, LocalsInv, Placeholder, ClusterManager
      <4> QED
        BY <3>3, <4>1, ConstantsAssumption DEF Placeholder
    <3>5. \A q \in Callers : Building(q, c)' => q = p
      BY <2>1, <3>3 DEF Building
    <3>6. Running(c)' => factory'[c].stop = NewStop
      BY <2>2, <3>1, <3>2 DEF Running
    <3>7. Listening(c)'
      BY <3>1, <3>4, <3>5, <3>6 DEF Building
    <3>8. \A d \in Clusters \ {c} : Listening(d)'
      BY <2>3, <3>1
    <3> QED
      BY <3>7, <3>8 DEF InformersInv
  <2>8. CASE StoreManager(p, c)
    <3>1. /\ registry' = [registry EXCEPT ![c] =
                 [cluster |-> listed[p][c], cache |-> stop[p][c]]]
          /\ UNCHANGED <<factory, closed>>
          /\ builder[p][c] = "store"
      BY <2>8 DEF StoreManager, At
    <3>2. /\ registry'[c] = [cluster |-> listed[p][c], cache |-> stop[p][c]]
          /\ \A d \in Clusters \ {c} : registry'[d] = registry[d]
      BY <3>1 DEF TypeOK
    <3>3. \A q \in Callers, d \in Clusters :
              stop'[q][d] = IF q = p /\ d = c THEN Nil ELSE stop[q][d]
      BY <2>8, StopMoves DEF StoreManager
    <3>4. Building(p, c) /\ builder'[p][c] = "idle"
      BY <2>8, <3>1, BuilderMoves, "idle" \in Stages DEF Stages, StoreManager, Building
    <3>5. \A q \in Callers : ~Building(q, c)'
      BY <2>1, <3>4 DEF OneBuilder, Building
    <3>6. registry'[c] # Nil /\ registry'[c].cache = stop[p][c]
      <4>1. listed[p][c] \in Row /\ stop[p][c] \in Caches \cup {Nil}
        BY <3>1 DEF LocalsInv, TypeOK
      <4>2. registry'[c] \in ClusterManager
        BY <3>2, <4>1 DEF ClusterManager
      <4> QED
        BY <3>2, <4>2, ConstantsAssumption
    <3>7. stop[p][c] \notin closed
      BY <3>1 DEF LocalsInv, CachesInv
    <3>8. Listening(c)'
      <4>1. Running(c)' => factory[c].stop = stop[p][c]
        BY <2>2, <3>1, <3>4 DEF Running
      <4> QED
        BY <3>1, <3>5, <3>6, <3>7, <4>1
    <3>9. \A d \in Clusters \ {c} : Listening(d)'
      BY <2>3, <3>1, <3>2, <3>3
    <3> QED
      BY <3>8, <3>9 DEF InformersInv
  <2> QED
    BY <1>9, <2>4, <2>5, <2>6, <2>7, <2>8, BuilderCases
<1> QED
    BY <1>1, <1>2, <1>3, <1>4, <1>5, <1>6, <1>7, <1>8, <1>9, NextCases

------------------------------------------------------------------------------
(* The theorems                                                            *)

\* The invariant is inductive.
LEMMA IInvStep == IInv /\ [Next]_vars => IInv'
<1> SUFFICES ASSUME IInv, [Next]_vars PROVE IInv'
    OBVIOUS
<1>1. TypeOK'
    BY TypeStep DEF IInv
<1>2. LocalsInv'
    BY <1>1, LocalsStep
<1>3. OneBuilder'
    BY <1>1, <1>2, OneBuilderStep
<1>4. FactoryBuiltOnce'
    BY <1>1, <1>2, FactoryBuiltOnceStep
<1>5. CachesInv'
    BY <1>1, <1>2, CachesStep
<1>6. OpenIsCurrent' /\ RemovesWhatItClosed' /\ OneRemover'
    BY <1>1, <1>2, CleanUpStep DEF CleanUpInv
<1>7. InformersInv'
    BY <1>1, <1>2, <1>3, InformersStep
<1> QED
    BY <1>1, <1>2, <1>3, <1>4, <1>5, <1>6, <1>7 DEF IInv

\* The invariant holds in every reachable state.
THEOREM Invariant == Spec => []IInv
<1>1. Init => IInv
    BY InitIInv
<1>2. IInv /\ [Next]_vars => IInv'
    BY IInvStep
<1> QED
    BY <1>1, <1>2, PTL DEF Spec

\* Every variable keeps its type, whatever fails and whoever runs.
THEOREM TypeCorrect == Spec => []TypeOK
<1>1. IInv => TypeOK
    BY DEF IInv
<1> QED
    BY <1>1, Invariant, PTL

\* One builder per cluster is past its LoadOrStore, and its placeholder stays
\* until it stores the manager (client.go:70-79,107).
THEOREM OneBuilderAlways == Spec => []OneBuilder
<1>1. IInv => OneBuilder
    BY DEF IInv
<1> QED
    BY <1>1, Invariant, PTL

\* No cleanup deletes by key an entry other than the one it has just closed
\* (client.go:186-189).
THEOREM RemovesWhatItClosedAlways == Spec => []RemovesWhatItClosed
<1>1. IInv => RemovesWhatItClosed
    BY DEF IInv
<1> QED
    BY <1>1, Invariant, PTL

\* The Load and the Store of getSharedInformerFactory never lose a factory
\* (cache.go:63-69).
THEOREM FactoryBuiltOnceAlways == Spec => []FactoryBuiltOnce
<1>1. IInv => FactoryBuiltOnce
    BY DEF IInv
<1> QED
    BY <1>1, Invariant, PTL

\* A cluster without an entry has no running informers (cache.go:22-26,52).
THEOREM NoOrphanInformersAlways == Spec => []NoOrphanInformers
<1>1. IInv => NoOrphanInformers
    BY DEF IInv, InformersInv, NoOrphanInformers
<1> QED
    BY <1>1, Invariant, PTL

------------------------------------------------------------------------------
(* Why a manager leaves                                                    *)

\* What a cleanup visits and removes was not among the rows that it was given.
Unlisted ==
    \A p \in Callers : pc[p] \in {"range", "reload", "close", "remove"} =>
        /\ \A c \in todo[p] : listed[p][c] = Nil
        /\ pc[p] # "range" => listed[p][victim[p]] = Nil

\* A query and a visited key establish it, and nothing else writes these locals.
LEMMA UnlistedStep == ASSUME IInv, Unlisted, [Next]_vars PROVE Unlisted'
<1> USE DEF IInv
<1> DEFINE Cleaning == {"range", "reload", "close", "remove"}
           Good(p) == pc[p] \in Cleaning =>
               /\ \A c \in todo[p] : listed[p][c] = Nil
               /\ pc[p] # "range" => listed[p][victim[p]] = Nil
<1>0. \A p \in Callers : Good(p)
    BY DEF Unlisted
<1>1. SUFFICES \A p \in Callers : Good(p)'
    BY DEF Unlisted
<1>2. CASE Restart
    BY <1>2 DEF Restart, ForAll
<1>3. CASE (\E c \in Clusters : Admin(c)) \/ UNCHANGED vars
  <2>1. UNCHANGED <<pc, todo, listed, victim>>
    BY <1>3 DEF Admin, Create, Update, Delete, AddCluster, UpdateClusterByName,
                DeleteClusterByName, WriteRow, callerVars, vars
  <2> QED
    BY <1>0, <2>1
<1>4. ASSUME NEW p \in Callers, NEW c \in Clusters, VisitKey(p, c)
      PROVE  \A q \in Callers : Good(q)'
  <2>1. /\ pc[p] = "range" /\ c \in todo[p] /\ UNCHANGED listed
        /\ todo' = [todo EXCEPT ![p] = @ \ {c}]
        /\ \/ UNCHANGED <<pc, victim>>
           \/ pc' = [pc EXCEPT ![p] = "reload"] /\ victim' = [victim EXCEPT ![p] = c]
    BY <1>4 DEF VisitKey
  <2> QED
    BY <1>0, <2>1 DEF TypeOK
<1>5. ASSUME NEW p \in Callers, ListClusters(p) PROVE \A q \in Callers : Good(q)'
  <2>1. /\ pc[p] = "list" /\ pc' = [pc EXCEPT ![p] = "range"] /\ UNCHANGED victim
        /\ listed' = [listed EXCEPT ![p] = GetAllNormalClusters]
        /\ todo' = [todo EXCEPT ![p] = {c \in Clusters : GetAllNormalClusters[c] = Nil}]
    BY <1>5 DEF ListClusters
  <2> HIDE DEF Cleaning
  <2>2. \A q \in Callers \ {p} : Good(q)'
    BY <1>0, <2>1 DEF TypeOK
  <2>3. Good(p)'
    BY <2>1 DEF TypeOK
  <2> QED
    BY <2>2, <2>3
<1>6. ASSUME NEW p \in Callers, Quiet(p), ~ListClusters(p),
             ~(\E c \in Clusters : VisitKey(p, c))
      PROVE  \A q \in Callers : Good(q)'
  <2>1. /\ pc'[p] \notin Cleaning
        /\ \A q \in Callers \ {p} :
             /\ pc'[q] = pc[q] /\ victim'[q] = victim[q]
             /\ todo'[q] = todo[q] /\ listed'[q] = listed[q]
    <3>1. \/ UNCHANGED pc /\ pc[p] = "idle"
          \/ \E l \in {"list", "idle", "load", "build"} : pc' = [pc EXCEPT ![p] = l]
      BY <1>6 DEF Quiet, ManagerCalled, ManagerAnswers, TickerFires, ListFails, CleanUpEnds,
                  WaitEnds, AfterBuild
    <3>2. pc'[p] \notin Cleaning
      BY <3>1 DEF TypeOK
    <3> QED
      BY <1>6, <3>2, QuietFrame
  <2> QED
    BY <1>0, <2>1
<1>7. ASSUME NEW p \in Callers, Panic(p), ~Restart PROVE \A q \in Callers : Good(q)'
  <2>1. /\ pc' = [pc EXCEPT ![p] = "idle"]
        /\ listed' = [listed EXCEPT ![p] = NothingListed]
        /\ todo' = [todo EXCEPT ![p] = {}]
        /\ victim' = [victim EXCEPT ![p] = Nil]
    BY <1>7, PanicFrame
  <2>2. \A q \in Callers \ {p} :
            /\ pc'[q] = pc[q] /\ victim'[q] = victim[q]
            /\ todo'[q] = todo[q] /\ listed'[q] = listed[q]
    BY <2>1 DEF TypeOK
  <2>3. pc'[p] = "idle"
    BY <2>1 DEF TypeOK
  <2> QED
    BY <1>0, <2>2, <2>3
<1>8. ASSUME NEW p \in Callers,
             ((ReloadManager(p) \/ CloseManager(p)) /\ ~Panic(p)) \/ RemoveManager(p)
      PROVE  \A q \in Callers : Good(q)'
  <2>1. /\ UNCHANGED <<todo, listed>> /\ pc[p] \in Cleaning
        /\ \/ \E l \in {"close", "remove"} :
                  pc[p] # "range" /\ pc' = [pc EXCEPT ![p] = l] /\ UNCHANGED victim
           \/ pc' = [pc EXCEPT ![p] = "range"] /\ victim' = [victim EXCEPT ![p] = Nil]
    BY <1>8 DEF ReloadManager, CloseManager, RemoveManager
  <2> QED
    BY <1>0, <2>1 DEF TypeOK
<1>9. ASSUME NEW p \in Callers, NEW c \in Clusters, SpawnOrSkip(p, c)
      PROVE  \A q \in Callers : Good(q)'
  <2>1. /\ pc[p] = "build" /\ UNCHANGED <<pc, listed, victim>>
        /\ todo' = [todo EXCEPT ![p] = @ \ {c}]
    BY <1>9 DEF SpawnOrSkip
  <2> QED
    BY <1>0, <2>1 DEF TypeOK
<1>10. ASSUME NEW p \in Callers, NEW c \in Clusters, BuilderStep(p, c)
       PROVE  \A q \in Callers : Good(q)'
    BY <1>0, <1>10, BuilderFrame
<1> QED
    BY <1>2, <1>3, <1>4, <1>5, <1>6, <1>7, <1>8, <1>9, <1>10, NextCases

\* A cleanup closes the manager of c, which its query has not returned.
ClosesUnlisted(c) ==
    \E p \in Callers : CloseManager(p) /\ victim[p] = c /\ listed[p][c] = Nil

\* A manager that serves requests goes on doing so until the process ends or a cleanup
\* closes it to whose query its cluster was not a normal one (client.go:51,179-195).
THEOREM ServedUntilUnlisted ==
    Spec => [][\A c \in Clusters : Phase(c) = "ready" /\ Phase(c)' # "ready" =>
                   Restart \/ ClosesUnlisted(c)]_vars
<1> DEFINE Leaves(c) == Phase(c) = "ready" /\ Phase(c)' # "ready"
           Kept == \A c \in Clusters : Leaves(c) => Restart \/ ClosesUnlisted(c)
<1>1. Init => Unlisted
    BY DEF Init, Unlisted, ForAll
<1>2. IInv /\ Unlisted /\ [Next]_vars => Unlisted'
    BY UnlistedStep
<1>3. IInv /\ Unlisted /\ [Next]_vars => [Kept]_vars
  <2> SUFFICES ASSUME IInv, Unlisted, [Next]_vars, NEW c \in Clusters, Leaves(c), ~Restart
               PROVE  ClosesUnlisted(c)
      OBVIOUS
  <2> USE DEF IInv
  <2>1. registry[c] # Nil /\ registry[c].cache # Nil /\ registry[c].cache \notin closed
      BY DEF Phase
  <2>2. ~(registry'[c] = registry[c] /\ registry[c].cache \notin closed')
      BY <2>1 DEF Phase
  <2>3. CASE (\E d \in Clusters : Admin(d)) \/ UNCHANGED vars
      BY <2>1, <2>2, <2>3 DEF Admin, Create, Update, Delete, AddCluster, UpdateClusterByName,
                         DeleteClusterByName, WriteRow, vars
  <2>4. ASSUME NEW p \in Callers, Quiet(p) PROVE FALSE
      BY <2>1, <2>2, <2>4, QuietFrame
  <2>5. ASSUME NEW p \in Callers, Panic(p) PROVE FALSE
      BY <2>1, <2>2, <2>5, PanicFrame
  <2>6. ASSUME NEW p \in Callers, ReloadManager(p), ~Panic(p) PROVE FALSE
      BY <2>1, <2>2, <2>6 DEF ReloadManager
  <2>7. ASSUME NEW p \in Callers, CloseManager(p), ~Panic(p) PROVE ClosesUnlisted(c)
    <3>1. /\ pc[p] = "close" /\ UNCHANGED registry
          /\ loaded[p].cache \notin closed \cup {Nil}
          /\ closed' = closed \cup {loaded[p].cache}
      BY <2>7 DEF CloseManager
    <3>2. registry[c].cache = loaded[p].cache
      BY <2>1, <2>2, <3>1
    <3>3. /\ registry[victim[p]] = loaded[p] /\ victim[p] \in Clusters
          /\ loaded[p] # Nil
      BY <3>1, ConstantsAssumption DEF OpenIsCurrent, LocalsInv
    <3>4. victim[p] = c
      BY <2>1, <3>2, <3>3 DEF CachesInv
    <3>5. listed[p][c] = Nil
      BY <3>1, <3>4 DEF Unlisted
    <3> QED
      BY <2>7, <3>4, <3>5 DEF ClosesUnlisted
  <2>8. ASSUME NEW p \in Callers, RemoveManager(p) PROVE FALSE
    <3>1. /\ pc[p] = "remove" /\ UNCHANGED closed
          /\ registry' = [registry EXCEPT ![victim[p]] = Nil]
      BY <2>8 DEF RemoveManager
    <3>2. registry[victim[p]].cache \in closed /\ victim[p] \in Clusters
      BY <3>1 DEF RemovesWhatItClosed, LocalsInv
    <3>3. registry'[c] = registry[c]
      BY <2>1, <3>1, <3>2 DEF TypeOK
    <3> QED
      BY <2>1, <2>2, <3>1, <3>3
  <2>9. ASSUME NEW p \in Callers, NEW d \in Clusters, SpawnOrSkip(p, d) PROVE FALSE
      BY <2>1, <2>2, <2>9 DEF SpawnOrSkip
  <2>10. ASSUME NEW p \in Callers, NEW d \in Clusters, BuilderStep(p, d) PROVE FALSE
    <3>1. CASE MovesOn(p, d) \/ StoreFactory(p, d)
      BY <2>1, <2>2, <3>1 DEF MovesOn, StoreFactory
    <3>2. CASE StartInformers(p, d) /\ At(p, d, "discover")
      <4>1. closed' \subseteq closed /\ UNCHANGED registry
        BY <2>10, <3>2, StartFrame
      <4> QED
        BY <2>1, <2>2, <4>1
    <3>3. CASE (ClaimCluster(p, d) /\ registry[d] = Nil) \/ StoreManager(p, d)
      <4>1. UNCHANGED closed /\ \A e \in Clusters \ {d} : registry'[e] = registry[e]
        BY <3>3 DEF ClaimCluster, StoreManager, TypeOK
      <4>2. registry[d] = Nil \/ registry[d].cache = Nil
        <5>1. CASE StoreManager(p, d)
          <6>1. Building(p, d)
            BY <5>1 DEF StoreManager, At, Building
          <6>2. registry[d] = Placeholder(listed[p][d])
            BY <6>1 DEF OneBuilder
          <6> QED
            BY <6>2 DEF Placeholder
        <5> QED
          BY <3>3, <5>1
      <4> QED
        BY <2>1, <2>2, <4>1, <4>2
    <3> QED
      BY <2>10, <3>1, <3>2, <3>3, BuilderCases
  <2> QED
      BY <2>3, <2>4, <2>5, <2>6, <2>7, <2>8, <2>9, <2>10, NextCases
<1> QED
    BY <1>1, <1>2, <1>3, Invariant, PTL DEF Spec

------------------------------------------------------------------------------
(* Where panics come from                                                  *)

\* The resync by itself, when no build fails: an incomplete manager is being built,
\* and one that is closed is about to be deleted.
Orderly ==
    /\ \A c \in Clusters : registry[c] # Nil =>
        /\ registry[c].cache = Nil => Building(Ticker, c)
        /\ registry[c].cache \in closed => pc[Ticker] = "remove" /\ victim[Ticker] = c
    /\ pc[Ticker] = "reload" => registry[victim[Ticker]] # Nil
    /\ pc[Ticker] = "close" => registry[victim[Ticker]] = loaded[Ticker]

\* What it finds, it can close.
LEMMA OrderlyCleanups ==
    ASSUME Requests = {}, IInv, Orderly
    PROVE  CleanupsDoNotPanic
<1> USE DEF IInv
<1>1. Callers = {Ticker}
    BY DEF Callers
<1>2. ASSUME pc[Ticker] = "close" PROVE loaded[Ticker].cache \notin closed \cup {Nil}
  <2>1. /\ victim[Ticker] \in Clusters /\ registry[victim[Ticker]] = loaded[Ticker]
        /\ loaded[Ticker] # Nil
    BY <1>1, <1>2, ConstantsAssumption DEF LocalsInv, Orderly
  <2>2. \A c \in Clusters : ~Building(Ticker, c)
    BY <1>1, <1>2 DEF LocalsInv, Building
  <2> QED
    BY <1>2, <2>1, <2>2 DEF Orderly
<1> QED
    BY <1>1, <1>2 DEF CleanupsDoNotPanic, Orderly

\* So it stays, as nobody else touches the entries while the resync cleans up.
LEMMA OrderlyStep ==
    ASSUME Requests = {}, BuildFailures = {}, IInv, IInv', Orderly, [Next]_vars
    PROVE  Orderly'
<1> USE DEF IInv
<1>0. Callers = {Ticker}
    BY DEF Callers
<1>a. CleanupsDoNotPanic
    BY OrderlyCleanups
<1>1. CASE Restart
    BY <1>1 DEF Restart, Orderly, Everywhere, ForAll, Callers
<1>2. CASE (\E c \in Clusters : Admin(c)) \/ UNCHANGED vars
  <2>1. UNCHANGED <<registry, closed, pc, victim, loaded, builder>>
    BY <1>2 DEF Admin, Create, Update, Delete, AddCluster, UpdateClusterByName,
                DeleteClusterByName, WriteRow, callerVars, builderVars, vars
  <2> QED
    BY <2>1 DEF Orderly, Building
<1>3. ASSUME Quiet(Ticker) PROVE Orderly'
  <2>1. /\ UNCHANGED <<registry, closed, loaded, builder>>
        /\ pc'[Ticker] \notin {"close", "remove"}
        /\ pc[Ticker] \notin {"reload", "close", "remove"}
    BY <1>0, <1>3, QuietFrame
  <2>2. ASSUME pc'[Ticker] = "reload" PROVE registry[victim'[Ticker]] # Nil
    <3>1. \E l \in Locations \ {"reload"} : UNCHANGED pc \/ pc' = [pc EXCEPT ![Ticker] = l]
          \/ \E c \in Clusters : VisitKey(Ticker, c)
      BY <1>3 DEF Quiet, ManagerCalled, ManagerAnswers, TickerFires, ListFails, ListClusters,
                  CleanUpEnds, WaitEnds, AfterBuild, Locations
    <3>2. PICK c \in Clusters : VisitKey(Ticker, c)
      BY <1>0, <2>1, <2>2, <3>1 DEF TypeOK
    <3>3. registry[c] # Nil /\ victim' = [victim EXCEPT ![Ticker] = c]
      BY <2>1, <2>2, <3>2 DEF VisitKey
    <3> QED
      BY <1>0, <3>3 DEF TypeOK
  <2> QED
    BY <2>1, <2>2 DEF Orderly, Building
<1>4. ASSUME Panic(Ticker), pc[Ticker] \in {"reload", "close"} PROVE Orderly'
  <2>1. Restart
    BY <1>4 DEF Panic
  <2> QED
    BY <1>1, <2>1
<1>5. ASSUME ReloadManager(Ticker), ~Panic(Ticker) PROVE Orderly'
  <2>1. /\ pc[Ticker] = "reload"
        /\ loaded' = [loaded EXCEPT ![Ticker] = registry[victim[Ticker]]]
        /\ pc' = [pc EXCEPT ![Ticker] = "close"]
        /\ UNCHANGED <<registry, closed, victim, builder>>
    BY <1>5 DEF ReloadManager, builderVars
  <2>2. pc'[Ticker] = "close" /\ loaded'[Ticker] = registry[victim[Ticker]]
    BY <1>0, <2>1 DEF TypeOK
  <2> QED
    BY <2>1, <2>2 DEF Orderly, Building
<1>6. ASSUME CloseManager(Ticker), ~Panic(Ticker) PROVE Orderly'
  <2>1. /\ pc[Ticker] = "close"
        /\ closed' = closed \cup {loaded[Ticker].cache}
        /\ pc' = [pc EXCEPT ![Ticker] = "remove"]
        /\ UNCHANGED <<registry, victim, loaded, builder>>
    BY <1>6 DEF CloseManager, builderVars
  <2>2. pc'[Ticker] = "remove" /\ victim[Ticker] \in Clusters
    BY <1>0, <2>1 DEF TypeOK, LocalsInv
  <2>3. /\ registry[victim[Ticker]] = loaded[Ticker] /\ loaded[Ticker] # Nil
        /\ loaded[Ticker].cache # Nil
    BY <1>0, <1>a, <2>1, ConstantsAssumption DEF LocalsInv, Orderly, CleanupsDoNotPanic
  <2>4. ASSUME NEW c \in Clusters, registry[c] # Nil, registry[c].cache \in closed'
        PROVE  victim[Ticker] = c
    <3>1. registry[c].cache \notin closed
      BY <2>1, <2>4 DEF Orderly
    <3>2. registry[c].cache = loaded[Ticker].cache
      BY <2>1, <2>4, <3>1
    <3> QED
      BY <2>2, <2>3, <2>4, <3>2 DEF CachesInv
  <2> QED
    BY <2>1, <2>2, <2>4 DEF Orderly, Building
<1>7. ASSUME RemoveManager(Ticker) PROVE Orderly'
  <2>1. /\ pc[Ticker] = "remove"
        /\ registry' = [registry EXCEPT ![victim[Ticker]] = Nil]
        /\ pc' = [pc EXCEPT ![Ticker] = "range"]
        /\ UNCHANGED <<closed, builder>>
    BY <1>7 DEF RemoveManager, builderVars
  <2>2. pc'[Ticker] = "range"
    BY <1>0, <2>1 DEF TypeOK
  <2>3. \A c \in Clusters : registry'[c] # Nil => registry'[c] = registry[c] /\ c # victim[Ticker]
    BY <2>1 DEF TypeOK
  <2> QED
    BY <2>1, <2>2, <2>3 DEF Orderly, Building
<1>8. ASSUME NEW c \in Clusters, SpawnOrSkip(Ticker, c) PROVE Orderly'
  <2>1. /\ pc[Ticker] = "build" /\ c \in todo[Ticker]
        /\ UNCHANGED <<registry, closed, pc, victim, loaded>>
        /\ GoTo(Ticker, c, "claim") \/ UNCHANGED builder
    BY <1>8 DEF SpawnOrSkip, GoTo
  <2>2. builder[Ticker][c] = "idle"
    BY <1>0, <2>1 DEF LocalsInv
  <2>3. ASSUME NEW d \in Clusters, Building(Ticker, d) PROVE Building(Ticker, d)'
    <3>1. d # c
      BY <2>2, <2>3 DEF Building
    <3>2. "claim" \in Stages
      BY DEF Stages
    <3>3. builder'[Ticker][d] = builder[Ticker][d]
      BY <1>0, <2>1, <3>1, <3>2, BuilderMoves
    <3> QED
      BY <2>3, <3>3 DEF Building
  <2> QED
    BY <2>1, <2>3 DEF Orderly
<1>9. ASSUME NEW c \in Clusters, BuilderStep(Ticker, c) PROVE Orderly'
  <2>1. /\ UNCHANGED <<pc, victim, loaded>> /\ builder[Ticker][c] # "idle"
        /\ pc[Ticker] = "build" /\ listed[Ticker][c] \in Row
        /\ \E s \in Stages : GoTo(Ticker, c, s)
    BY <1>0, <1>9, BuilderFrame
  <2>2. \A d \in Clusters \ {c} : builder'[Ticker][d] = builder[Ticker][d]
    BY <1>0, <2>1, BuilderMoves
  <2>3. SUFFICES ASSUME NEW d \in Clusters, registry'[d] # Nil
                 PROVE  /\ registry'[d].cache = Nil => Building(Ticker, d)'
                        /\ registry'[d].cache \notin closed'
    BY <2>1 DEF Orderly
  <2>4. /\ registry[d] # Nil => registry[d].cache \notin closed
        /\ registry[d] # Nil /\ registry[d].cache = Nil => Building(Ticker, d)
    BY <2>1 DEF Orderly
  <2>5. CASE ClaimCluster(Ticker, c) /\ registry[c] = Nil
    <3>1. /\ registry' = [registry EXCEPT ![c] = Placeholder(listed[Ticker][c])]
          /\ GoTo(Ticker, c, "client") /\ UNCHANGED closed /\ "client" \in Stages
      BY <2>5 DEF ClaimCluster, Stages
    <3>2. builder'[Ticker][c] = "client"
      BY <1>0, <3>1, BuilderMoves
    <3>3. CASE d = c
      <4>1. registry'[d].cache = Nil /\ Nil \notin Caches
        BY <3>1, <3>3, ConstantsAssumption DEF TypeOK, Placeholder
      <4> QED
        BY <3>1, <3>2, <3>3, <4>1 DEF TypeOK, Building
    <3>4. CASE d # c
      BY <2>2, <2>3, <2>4, <3>1, <3>4 DEF TypeOK, Building
    <3> QED
      BY <3>3, <3>4
  <2>6. CASE ClaimCluster(Ticker, c) /\ registry[c] # Nil
    <3>1. UNCHANGED <<registry, closed>> /\ builder[Ticker][c] = "claim"
      BY <2>6 DEF ClaimCluster, At
    <3>2. ~Building(Ticker, c)
      BY <3>1 DEF Building
    <3> QED
      BY <2>2, <2>3, <2>4, <3>1, <3>2 DEF Building
  <2>7. CASE BuildClients(Ticker, c) \/ FindFactory(Ticker, c) \/ StoreFactory(Ticker, c)
    <3>1. UNCHANGED <<registry, closed>>
          /\ \E s \in {"factory", "newFactory", "discover"} : GoTo(Ticker, c, s)
      BY <2>7 DEF BuildClients, FindFactory, StoreFactory
    <3>2. builder'[Ticker][c] \in {"factory", "newFactory", "discover"}
      BY <1>0, <3>1, BuilderMoves DEF Stages
    <3> QED
      BY <2>2, <2>3, <2>4, <3>1, <3>2 DEF Building
  <2>8. CASE BuildCacheController(Ticker, c)
    <3>1. StartInformers(Ticker, c) /\ At(Ticker, c, "discover") /\ GoTo(Ticker, c, "store")
      BY <2>8 DEF BuildCacheController, StartInformers
    <3>2. UNCHANGED registry /\ closed' \subseteq closed
      BY <3>1 DEF StartInformers
    <3>3. builder'[Ticker][c] = "store"
      BY <1>0, <3>1, BuilderMoves DEF Stages
    <3> QED
      BY <2>2, <2>3, <2>4, <3>2, <3>3 DEF Building
  <2>9. CASE StoreManager(Ticker, c)
    <3>1. /\ registry' = [registry EXCEPT ![c] =
                 [cluster |-> listed[Ticker][c], cache |-> stop[Ticker][c]]]
          /\ builder[Ticker][c] = "store" /\ UNCHANGED closed
      BY <2>9 DEF StoreManager, At
    <3>2. stop[Ticker][c] # Nil /\ stop[Ticker][c] \notin closed
      BY <1>0, <3>1 DEF LocalsInv, CachesInv
    <3>3. CASE d = c
      BY <3>1, <3>2, <3>3 DEF TypeOK
    <3>4. CASE d # c
      BY <2>2, <2>3, <2>4, <3>1, <3>4 DEF TypeOK, Building
    <3> QED
      BY <3>3, <3>4
  <2> QED
    BY <1>9, <2>5, <2>6, <2>7, <2>8, <2>9 DEF BuilderStep
<1> QED
    BY <1>0, <1>1, <1>2, <1>3, <1>4, <1>5, <1>6, <1>7, <1>8, <1>9, NextCases

\* The panics of finding_panic take a request or a build that fails: a resync that is
\* alone, with clusters that all answer, never meets an absent, an incomplete or a closed
\* manager, whatever is written to the table, whatever queries fail and whenever the
\* process ends (client.go:30,51,186).
THEOREM ResyncAloneNeverPanics ==
    ASSUME Requests = {}, BuildFailures = {}
    PROVE  Spec => []CleanupsDoNotPanic
<1>1. Init => Orderly
    BY DEF Init, Orderly, Everywhere, ForAll, Callers
<1>2. IInv /\ IInv' /\ Orderly /\ [Next]_vars => Orderly'
    BY OrderlyStep
<1>3. IInv /\ Orderly => CleanupsDoNotPanic
    BY OrderlyCleanups
<1> QED
    BY <1>1, <1>2, <1>3, Invariant, PTL DEF Spec

------------------------------------------------------------------------------
(* The registry implements the life cycle                                  *)

\* What the life cycle sees of one cluster only depends on its entry and on
\* whether its channel is closed.
LEMMA SameEntry ==
    ASSUME NEW c \in Clusters, registry'[c] = registry[c],
           registry[c] # Nil /\ registry[c].cache # Nil =>
               (registry[c].cache \in closed' <=> registry[c].cache \in closed)
    PROVE  Phase(c)' = Phase(c) /\ RegisteredRow(c)' = RegisteredRow(c)
BY DEF Phase, RegisteredRow

\* A step that leaves the entries and their channels alone is a stutter.
LEMMA Stutters ==
    ASSUME \A c \in Clusters :
               Phase(c)' = Phase(c) /\ RegisteredRow(c)' = RegisteredRow(c)
    PROVE  UNCHANGED Lifecycle!vars
BY DEF Lifecycle!vars

\* A step that changes one entry is the step of the life cycle between its
\* phases.
LEMMA EntryMoves ==
    ASSUME NEW c \in Clusters,
           \A d \in Clusters \ {c} :
               Phase(d)' = Phase(d) /\ RegisteredRow(d)' = RegisteredRow(d),
           \/ /\ Phase(c) = "absent" /\ Phase(c)' = "building"
              /\ RegisteredRow(c)' \in Row
           \/ /\ Phase(c) = "building" /\ Phase(c)' = "ready"
              /\ RegisteredRow(c)' = RegisteredRow(c)
           \/ /\ Phase(c) = "ready" /\ Phase(c)' = "closing"
              /\ RegisteredRow(c)' = RegisteredRow(c)
           \/ /\ Phase(c) = "closing" /\ Phase(c)' = "absent"
              /\ RegisteredRow(c)' = Nil
    PROVE  Lifecycle!Next
<1> DEFINE ph == [d \in Clusters |-> Phase(d)]
           rw == [d \in Clusters |-> RegisteredRow(d)]
<1>1. ph' = [ph EXCEPT ![c] = Phase(c)'] /\ rw' = [rw EXCEPT ![c] = RegisteredRow(c)']
    OBVIOUS
<1>2. ph[c] = Phase(c) /\ rw[c] = RegisteredRow(c)
    OBVIOUS
<1>3. RegisteredRow(c)' = RegisteredRow(c) => rw' = rw
    BY <1>1, <1>2
<1> HIDE DEF ph, rw
<1>4. \/ \E r \in Row : Lifecycle!Claim(c, r)
      \/ Lifecycle!Complete(c)
      \/ Lifecycle!Close(c)
      \/ Lifecycle!Forget(c)
    BY <1>1, <1>2, <1>3
    DEF Lifecycle!Claim, Lifecycle!Complete, Lifecycle!Close, Lifecycle!Forget, ph, rw
<1> QED
    BY <1>4 DEF Lifecycle!Next

\* Every step of the registry is a step of the life cycle, or leaves it alone.
LEMMA LifecycleStep == IInv /\ IInv' /\ [Next]_vars => [Lifecycle!Next]_(Lifecycle!vars)
<1> SUFFICES ASSUME IInv, IInv', [Next]_vars
             PROVE  Lifecycle!Next \/ UNCHANGED Lifecycle!vars
    OBVIOUS
<1> DEFINE Good == Lifecycle!Next \/ UNCHANGED Lifecycle!vars
           Same(c) == Phase(c)' = Phase(c) /\ RegisteredRow(c)' = RegisteredRow(c)
<1> USE DEF IInv
<1>1. ASSUME Restart PROVE Good
  <2>1. \A c \in Clusters : Phase(c)' = "absent" /\ RegisteredRow(c)' = Nil
    BY <1>1 DEF Restart, Everywhere, Phase, RegisteredRow
  <2>2. Lifecycle!Restart
    BY <2>1 DEF Lifecycle!Restart, Lifecycle!Init
  <2> QED
    BY <2>2 DEF Lifecycle!Next
<1>2. ASSUME UNCHANGED <<registry, closed>> PROVE Good
    BY <1>2, SameEntry, Stutters
<1>3. CASE (\E c \in Clusters : Admin(c)) \/ UNCHANGED vars
  <2>1. UNCHANGED <<registry, closed>>
    BY <1>3 DEF Admin, Create, Update, Delete, AddCluster, UpdateClusterByName,
                DeleteClusterByName, WriteRow, vars
  <2> QED
    BY <1>2, <2>1
<1>4. ASSUME NEW p \in Callers, Quiet(p) PROVE Good
    BY <1>2, <1>4, QuietFrame
<1>5. ASSUME NEW p \in Callers, Panic(p) PROVE Good
    BY <1>1, <1>2, <1>5, PanicFrame
<1>6. ASSUME NEW p \in Callers, ReloadManager(p), ~Panic(p) PROVE Good
    BY <1>2, <1>6 DEF ReloadManager
<1>7. ASSUME NEW p \in Callers, CloseManager(p), ~Panic(p) PROVE Good
  <2> DEFINE k == loaded[p].cache
  <2>0. PICK v \in Clusters : v = victim[p]
    BY <1>7 DEF CloseManager, LocalsInv
  <2>1. /\ pc[p] = "close"
        /\ k \notin closed \cup {Nil}
        /\ closed' = closed \cup {k}
        /\ UNCHANGED registry
    BY <1>7 DEF CloseManager
  <2>2. registry[v] = loaded[p] /\ registry[v] # Nil
    BY <2>0, <2>1, ConstantsAssumption DEF LocalsInv, OpenIsCurrent
  <2>3. \A d \in Clusters \ {v} : registry[d] # Nil => registry[d].cache # k
    BY <2>1, <2>2 DEF CachesInv
  <2>4. \A d \in Clusters \ {v} : Same(d)
    BY <2>1, <2>3, SameEntry
  <2>5. Phase(v) = "ready" /\ Phase(v)' = "closing" /\ RegisteredRow(v)' = RegisteredRow(v)
    BY <2>1, <2>2 DEF Phase, RegisteredRow
  <2> QED
    BY <2>2, <2>4, <2>5, EntryMoves
<1>8. ASSUME NEW p \in Callers, RemoveManager(p) PROVE Good
  <2>0. PICK v \in Clusters : v = victim[p]
    BY <1>8 DEF RemoveManager, LocalsInv
  <2>1. /\ loaded[p] \in ClusterManager
        /\ registry[v] = loaded[p] /\ loaded[p].cache \in closed
        /\ registry' = [registry EXCEPT ![v] = Nil]
        /\ UNCHANGED closed
    BY <1>8, <2>0 DEF RemoveManager, LocalsInv, RemovesWhatItClosed
  <2>2. loaded[p] # Nil /\ loaded[p].cache # Nil
    BY <2>1, ConstantsAssumption DEF TypeOK
  <2>3. registry'[v] = Nil /\ \A d \in Clusters \ {v} : registry'[d] = registry[d]
    BY <2>1 DEF TypeOK
  <2>4. \A d \in Clusters \ {v} : Same(d)
    BY <2>1, <2>3, SameEntry
  <2>5. Phase(v) = "closing" /\ Phase(v)' = "absent" /\ RegisteredRow(v)' = Nil
    BY <2>1, <2>2, <2>3 DEF Phase, RegisteredRow
  <2> QED
    BY <2>1, <2>4, <2>5, EntryMoves
<1>9. ASSUME NEW p \in Callers, NEW c \in Clusters, SpawnOrSkip(p, c) PROVE Good
    BY <1>2, <1>9 DEF SpawnOrSkip
<1>10. ASSUME NEW p \in Callers, NEW c \in Clusters, BuilderStep(p, c) PROVE Good
  <2>1. listed[p][c] \in Row /\ UNCHANGED listed
    BY <1>10, BuilderFrame
  <2>2. CASE MovesOn(p, c) \/ StoreFactory(p, c)
    BY <1>2, <2>2 DEF MovesOn, StoreFactory
  <2>3. CASE ClaimCluster(p, c) /\ registry[c] = Nil
    <3>1. /\ registry' = [registry EXCEPT ![c] = Placeholder(listed[p][c])]
          /\ UNCHANGED closed
      BY <2>3 DEF ClaimCluster
    <3>2. /\ registry'[c] = Placeholder(listed[p][c])
          /\ \A d \in Clusters \ {c} : registry'[d] = registry[d]
      BY <3>1 DEF TypeOK
    <3>3. Placeholder(listed[p][c]) # Nil
      BY <2>1, ConstantsAssumption DEF Placeholder, ClusterManager
    <3>4. \A d \in Clusters \ {c} : Same(d)
      BY <3>1, <3>2, SameEntry
    <3>5. Phase(c) = "absent" /\ Phase(c)' = "building" /\ RegisteredRow(c)' \in Row
      BY <2>1, <2>3, <3>2, <3>3 DEF Phase, RegisteredRow, Placeholder
    <3> QED
      BY <3>4, <3>5, EntryMoves
  <2>4. CASE StartInformers(p, c) /\ At(p, c, "discover")
    <3>1. UNCHANGED registry /\ NewStop \in FreshCaches /\ closed' = closed \ {NewStop}
      BY <2>4, StartFrame
    <3>2. \A d \in Clusters : registry[d] # Nil => registry[d].cache # NewStop
      BY <3>1 DEF FreshCaches
    <3> QED
      BY <3>1, <3>2, SameEntry, Stutters
  <2>5. CASE StoreManager(p, c)
    <3>1. /\ registry' = [registry EXCEPT ![c] =
                 [cluster |-> listed[p][c], cache |-> stop[p][c]]]
          /\ UNCHANGED closed
          /\ builder[p][c] = "store"
      BY <2>5 DEF StoreManager, At
    <3>2. /\ registry'[c] = [cluster |-> listed[p][c], cache |-> stop[p][c]]
          /\ \A d \in Clusters \ {c} : registry'[d] = registry[d]
      BY <3>1 DEF TypeOK
    <3>3. stop[p][c] \in Caches /\ stop[p][c] # Nil /\ stop[p][c] \notin closed
      BY <3>1 DEF LocalsInv, CachesInv, TypeOK
    <3>4. registry[c] = Placeholder(listed[p][c])
      <4>1. Building(p, c)
        BY <3>1 DEF Building
      <4> QED
        BY <4>1 DEF OneBuilder
    <3>5. registry[c] # Nil /\ registry'[c] # Nil
      BY <2>1, <3>2, <3>3, <3>4, ConstantsAssumption DEF Placeholder, ClusterManager
    <3>6. \A d \in Clusters \ {c} : Same(d)
      BY <3>1, <3>2, SameEntry
    <3>7. Phase(c) = "building" /\ Phase(c)' = "ready" /\ RegisteredRow(c)' = RegisteredRow(c)
      BY <3>1, <3>2, <3>3, <3>4, <3>5 DEF Phase, RegisteredRow, Placeholder
    <3> QED
      BY <3>6, <3>7, EntryMoves
  <2> QED
    BY <1>10, <2>2, <2>3, <2>4, <2>5, BuilderCases
<1> QED
    BY <1>1, <1>3, <1>4, <1>5, <1>6, <1>7, <1>8, <1>9, <1>10, NextCases

\* The goroutines, the placeholders and the shared factories implement the life
\* cycle: no entry is ever replaced in place, forgotten before it is closed, or
\* closed twice.
THEOREM Implements == Spec => FollowsLifecycle
<1>1. Init => Lifecycle!Init
    BY DEF Init, Everywhere, Lifecycle!Init, Phase, RegisteredRow
<1>2. IInv /\ IInv' /\ [Next]_vars => [Lifecycle!Next]_(Lifecycle!vars)
    BY LifecycleStep
<1> QED
    BY <1>1, <1>2, Invariant, PTL DEF Spec, FollowsLifecycle, Lifecycle!Spec

==============================================================================
