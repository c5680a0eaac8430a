--------------------------- MODULE ResourceRequests ---------------------------
(***************************************************************************)
(* The handlers that read and change one object of a cluster:              *)
(*   controllers/kubernetes/proxy               objects of any kind,        *)
(*   controllers/kubernetes/{crd,persistentvolume,namespace},               *)
(*   pkg/kubernetes/client/handler.go           the generic operations and  *)
(*                                the cache of the kinds the cluster serves. *)
(*                                                                         *)
(* A handler is the sequence of the calls it makes; each of them may fail,   *)
(* and the last one answers the request.  The API server is external.  One   *)
(* object is modelled; the namespaces and the names of objects are left out. *)
(***************************************************************************)
EXTENDS Integers, Sequences

CONSTANTS
    Handlers,    \* goroutines serving an HTTP request
    Values,      \* what clients write in an object
    Lists,       \* what discovery finds: a sequence of [group, version, names]
    Predefined,  \* names of the resources whose kind is cached
    Kind,        \* the resource of the object
    MaxRevision, \* bound: writes to the object
    Nil

ASSUME ResourceAssumption ==
    /\ Kind \in Predefined
    /\ MaxRevision \in Nat

Contents == [value : Values, restarted : BOOLEAN]

ASSUME ContentsAssumption ==
    /\ Nil \notin Contents \cup Nat
    /\ Nil \notin Handlers

------------------------------------------------------------------------------
(* The calls of each operation of handler.go                               *)

GetResource == <<"check", "lock", "discover", "lookup">>

HandlerGet    == GetResource \o <<"read">>
HandlerList   == GetResource \o <<"read">>
HandlerCreate == GetResource \o <<"create">>
HandlerUpdate == GetResource \o <<"get", "update">>
HandlerDelete == GetResource \o <<"delete">>

\* Every handler looks first for the client of its cluster.
WithClient == <<"client">>

(* proxy.go, restart.go *)
GetNames         == WithClient \o HandlerList
Get              == WithClient \o HandlerGet
List             == WithClient \o HandlerList
Create           == WithClient \o HandlerCreate
Put              == WithClient \o HandlerUpdate
Delete           == WithClient \o HandlerDelete
NamespacesList   == WithClient \o HandlerList
NamespacesGet    == WithClient \o HandlerGet
NamespacesCreate == WithClient \o HandlerCreate
NamespacesPut    == WithClient \o HandlerUpdate
NamespacesDelete == WithClient \o HandlerDelete
RestartWorkload  == WithClient \o <<"read", "patch">>

(* crd.go: the definitions of custom resources *)
GetCRDPage == <<"read">>
CrdList   == WithClient \o GetCRDPage
CrdGet    == WithClient \o <<"read">>
CrdCreate == WithClient \o <<"create">>
CrdUpdate == WithClient \o <<"update">>
CrdDelete == WithClient \o <<"delete">>

(* custom-crd.go: custom resources, whose version is that of the request or is
   looked up in their definition *)
GetBestCRDVersionByGroupKind == <<"read">>
GetCustomCRDPage             == <<"read", "read">>
GetCustomCRDInstanceByName   == <<"read">>
CreateCustomCRDInstance      == <<"create">>
CreateCustomCRDInstanceClusterScoped == <<"create">>
UpdateCustomCRD              == <<"update">>
DeleteCustomCRD              == <<"delete">>

CRDList   == WithClient \o GetCustomCRDPage
CRDGet    == WithClient \o GetBestCRDVersionByGroupKind \o GetCustomCRDInstanceByName
CRDCreate == WithClient \o GetBestCRDVersionByGroupKind \o CreateCustomCRDInstanceClusterScoped
CRDCreateWithNamespace == WithClient \o GetBestCRDVersionByGroupKind \o CreateCustomCRDInstance
CRDUpdate == WithClient \o GetBestCRDVersionByGroupKind \o UpdateCustomCRD
CRDDelete == WithClient \o GetBestCRDVersionByGroupKind \o DeleteCustomCRD

(* persistentvolume/pv.go *)
ListPersistentVolume == WithClient \o <<"read">>
PvGet                == WithClient \o <<"read">>
PvCreate             == WithClient \o <<"create">>
PvUpdate             == WithClient \o <<"update">>
PvDelete             == WithClient \o <<"delete">>

(* namespace.go: a namespace that exists already is no error *)
CreateNotExitNamespace == <<"probe", "create">>
NamespaceCreate        == WithClient \o CreateNotExitNamespace

Reading == {GetNames, Get, List, NamespacesList, NamespacesGet, CrdList, CrdGet,
            CRDList, CRDGet, ListPersistentVolume, PvGet}
Creating == {Create, NamespacesCreate, CrdCreate, CRDCreate, CRDCreateWithNamespace,
             PvCreate, NamespaceCreate}
Updating == {Put, NamespacesPut, CrdUpdate, CRDUpdate, PvUpdate}
Deleting == {Delete, NamespacesDelete, CrdDelete, CRDDelete, PvDelete}

Requests ==
         [calls : Reading \cup Deleting \cup {RestartWorkload}, body : {Nil}]
    \cup [calls : Creating \cup Updating, body : Contents]

ASSUME RequestAssumption == Nil \notin Requests

------------------------------------------------------------------------------
VARIABLES
    object,    \* the object in the API server, Nil when there is none
    revision,  \* resourceVersion of the last write to it
    cacheInitialized,
    resourceCache,  \* the list that serves each kind
    writer,    \* the goroutine that holds cacheLock for writing, or Nil
    at,        \* the call each handler is at, 0 for none
    request,   \* what it was asked to do
    answer,    \* how its last request ended, "asked" until then
    sent,      \* the resourceVersion it will send, Nil for none
    fresh      \* the handlers that read the object as it still is

cache == <<cacheInitialized, resourceCache, writer>>
handlerVars == <<at, request, answer, sent>>
vars == <<object, revision, cache, handlerVars, fresh>>

Revisions == 0..MaxRevision

Last(calls) == calls[Len(calls)]

At(p) == IF at[p] = 0 THEN "none" ELSE request[p].calls[at[p]]

\* The groups of Kubernetes itself, and those for which there is a client.
isKubernetesNativeGroup(group) ==
    group \in {"", "apps", "batch", "extensions", "policy", "autoscaling",
               "networking.k8s.io", "rbac.authorization.k8s.io", "storage.k8s.io"}

getClientByGroupVersion(list) ==
    /\ list.group \in {"", "apps", "batch", "extensions", "autoscaling",
                       "networking.k8s.io", "rbac.authorization.k8s.io", "storage.k8s.io"}
    /\ list.group = "networking.k8s.io" => list.version \in {"v1", "v1beta1"}

\* A kind that several of the lists found serve is that of the last of them.
Serving(name, found) ==
    {i \in found : isKubernetesNativeGroup(Lists[i].group) /\ name \in Lists[i].names}

GetResourceMap(found) ==
    [name \in {n \in Predefined : Serving(n, found) # {}} |->
        Lists[CHOOSE i \in Serving(name, found) : \A j \in Serving(name, found) : j <= i]]

ResourceMaps == {GetResourceMap(found) : found \in SUBSET DOMAIN Lists}

TypeOK ==
    /\ object \in Contents \cup {Nil}
    /\ revision \in Revisions
    /\ cacheInitialized \in BOOLEAN
    /\ resourceCache \in ResourceMaps
    /\ writer \in Handlers \cup {Nil}
    /\ request \in [Handlers -> Requests \cup {Nil}]
    /\ answer \in [Handlers -> {"idle", "asked", "ok", "failed"}]
    /\ at \in [Handlers -> Nat]
    /\ \A p \in Handlers :
          IF request[p] = Nil
          THEN at[p] = 0 /\ answer[p] # "asked"
          ELSE at[p] \in 1..Len(request[p].calls) /\ answer[p] = "asked"
    /\ sent \in [Handlers -> Revisions \cup {Nil}]
    /\ fresh \subseteq Handlers

Init ==
    /\ object \in Contents \cup {Nil}
    /\ revision = 0
    /\ cacheInitialized = FALSE
    /\ resourceCache = GetResourceMap({})
    /\ writer = Nil
    /\ at = [p \in Handlers |-> 0]
    /\ request = [p \in Handlers |-> Nil]
    /\ answer = [p \in Handlers |-> "idle"]
    /\ sent = [p \in Handlers |-> Nil]
    /\ fresh = {}

------------------------------------------------------------------------------
\* Mutant: the request is still there when it has been answered.
Remembers(p, a) ==
    /\ at' = [at EXCEPT ![p] = 0]
    /\ answer' = [answer EXCEPT ![p] = a]
    /\ sent' = [sent EXCEPT ![p] = Nil]
    /\ UNCHANGED request

Answers(p, a) ==
    /\ at' = [at EXCEPT ![p] = 0]
    /\ request' = [request EXCEPT ![p] = Nil]
    /\ answer' = [answer EXCEPT ![p] = a]
    /\ sent' = [sent EXCEPT ![p] = Nil]

Ends(p, a) ==
    /\ Answers(p, a)
    /\ fresh' = fresh \ {p}

\* To the next call, or to the one after.
GoesOn(p, calls) ==
    /\ at' = [at EXCEPT ![p] = @ + calls]
    /\ UNCHANGED <<request, answer, sent, fresh>>

\* The API server stores an object; one that is as before keeps its revision, and
\* those who read it still know it.
Stores(n, readers) ==
    /\ n # object => revision < MaxRevision
    /\ object' = n
    /\ revision' = IF n = object THEN revision ELSE revision + 1
    /\ fresh' = IF n = object THEN readers ELSE {}

\* The body of an update has the resourceVersion that its client read now, or none;
\* that in the body of a generic update is of no use to it.
Ask(p, r) ==
    /\ request[p] = Nil
    /\ request' = [request EXCEPT ![p] = r]
    /\ at' = [at EXCEPT ![p] = 1]
    /\ answer' = [answer EXCEPT ![p] = "asked"]
    /\ \/ UNCHANGED <<sent, fresh>>
       \/ /\ r.calls \in Updating \ {Put, NamespacesPut}
          /\ object # Nil
          /\ sent' = [sent EXCEPT ![p] = revision]
          /\ fresh' = fresh \cup {p}
    /\ UNCHANGED <<object, revision, cache>>

\* No client for the cluster, a body that cannot be parsed, no such object, no
\* answer: an error.  The generic reads are of the informers' copy of the object.
Consult(p) ==
    /\ At(p) \in {"client", "read"}
    /\ \/ Ends(p, "failed")
       \/ at[p] < Len(request[p].calls) /\ GoesOn(p, 1)
       \/ at[p] = Len(request[p].calls) /\ Ends(p, "ok")
    /\ UNCHANGED <<object, revision, cache>>

(* getResource *)

\* The read lock is given back at once, with the kind or without.
CheckCache(p) ==
    /\ At(p) = "check"
    /\ writer = Nil
    /\ \/ ~cacheInitialized /\ GoesOn(p, 1)
       \/ cacheInitialized /\ Kind \in DOMAIN resourceCache /\ GoesOn(p, 4)
       \/ cacheInitialized /\ Kind \notin DOMAIN resourceCache /\ Ends(p, "failed")
    /\ UNCHANGED <<object, revision, cache>>

LockCache(p) ==
    /\ At(p) = "lock"
    /\ writer = Nil
    /\ writer' = p
    /\ GoesOn(p, 1)
    /\ UNCHANGED <<object, revision, cacheInitialized, resourceCache>>

\* Mutant: the map is not checked again under the write lock.
DiscoversAgain(p) ==
    /\ At(p) = "discover"
    /\ \/ /\ Ends(p, "failed")
          /\ UNCHANGED <<cacheInitialized, resourceCache>>
       \/ /\ resourceCache' \in ResourceMaps
          /\ cacheInitialized' = TRUE
          /\ GoesOn(p, 1)
    /\ writer' = Nil
    /\ UNCHANGED <<object, revision>>

\* Mutant: a discovery that fails is tried again.
TriesAgain(p) ==
    /\ At(p) = "discover"
    /\ \/ /\ cacheInitialized
          /\ GoesOn(p, 1)
          /\ UNCHANGED <<cacheInitialized, resourceCache>>
       \/ /\ ~cacheInitialized
          /\ GoesOn(p, -1)
          /\ UNCHANGED <<cacheInitialized, resourceCache>>
       \/ /\ ~cacheInitialized
          /\ resourceCache' \in ResourceMaps
          /\ cacheInitialized' = TRUE
          /\ GoesOn(p, 1)
    /\ writer' = Nil
    /\ UNCHANGED <<object, revision>>

\* Groups whose discovery fails are left out of the map, which is kept all the same.
Discover(p) ==
    /\ At(p) = "discover"
    /\ \/ /\ cacheInitialized
          /\ GoesOn(p, 1)
          /\ UNCHANGED <<cacheInitialized, resourceCache>>
       \/ /\ ~cacheInitialized
          /\ Ends(p, "failed")
          /\ UNCHANGED <<cacheInitialized, resourceCache>>
       \/ /\ ~cacheInitialized
          /\ resourceCache' \in ResourceMaps
          /\ cacheInitialized' = TRUE
          /\ GoesOn(p, 1)
    /\ writer' = Nil
    /\ UNCHANGED <<object, revision>>

LookUp(p) ==
    /\ At(p) = "lookup"
    /\ writer = Nil
    /\ \/ Kind \in DOMAIN resourceCache /\ GoesOn(p, 1)
       \/ Kind \notin DOMAIN resourceCache /\ Ends(p, "failed")
    /\ UNCHANGED <<object, revision, cache>>

------------------------------------------------------------------------------
(* Calls to the API server                                                 *)

Fails(p) ==
    /\ Ends(p, "failed")
    /\ UNCHANGED <<object, revision>>

\* The answer to a write may be lost.
Applies(p, n) ==
    /\ \E a \in {"ok", "failed"} : Answers(p, a)
    /\ Stores(n, fresh \ {p})

\* Generic creations and deletions need a client for the group of the kind.
HasClient(p) ==
    request[p].calls[2] = "check" => getClientByGroupVersion(resourceCache[Kind])

\* Mutant: the object is sent without the resourceVersion that was read.
ForgetsRevision(p) ==
    /\ At(p) = "get"
    /\ \/ /\ object # Nil
          /\ at' = [at EXCEPT ![p] = @ + 1]
          /\ fresh' = fresh \cup {p}
          /\ UNCHANGED <<request, answer, sent>>
       \/ Ends(p, "failed")
    /\ UNCHANGED <<object, revision, cache>>

GetCurrent(p) ==
    /\ At(p) = "get"
    /\ \/ /\ object # Nil
          /\ sent' = [sent EXCEPT ![p] = revision]
          /\ at' = [at EXCEPT ![p] = @ + 1]
          /\ fresh' = fresh \cup {p}
          /\ UNCHANGED <<request, answer>>
       \/ Ends(p, "failed")
    /\ UNCHANGED <<object, revision, cache>>

\* An update is refused if its resourceVersion is not that of the object; kinds
\* that require one refuse it without.
UpdateObject(p) ==
    /\ At(p) = "update"
    /\ \/ Fails(p)
       \/ /\ object # Nil
          /\ sent[p] \in {revision, Nil}
          /\ Applies(p, request[p].body)
    /\ UNCHANGED cache

\* The patch is the annotation alone, whatever the object has become.
PatchObject(p) ==
    /\ At(p) = "patch"
    /\ \/ Fails(p)
       \/ object # Nil /\ Applies(p, [object EXCEPT !.restarted = TRUE])
    /\ UNCHANGED cache

\* Mutant: an object that is there already is no error.
CreatesAnyway(p) ==
    /\ At(p) = "create"
    /\ Applies(p, IF object = Nil THEN request[p].body ELSE object)
    /\ UNCHANGED cache

CreateObject(p) ==
    /\ At(p) = "create"
    /\ \/ Fails(p)
       \/ object = Nil /\ HasClient(p) /\ Applies(p, request[p].body)
    /\ UNCHANGED cache

\* An object with finalizers stays until others have removed them.
DeleteObject(p) ==
    /\ At(p) = "delete"
    /\ \/ Fails(p)
       \/ object # Nil /\ HasClient(p) /\ \E n \in {Nil, object} : Applies(p, n)
    /\ UNCHANGED cache

Probe(p) ==
    /\ At(p) = "probe"
    /\ \/ Ends(p, "failed")
       \/ object # Nil /\ Ends(p, "ok")
       \/ object = Nil /\ GoesOn(p, 1)
    /\ UNCHANGED <<object, revision, cache>>

WriteOutside ==
    /\ \E n \in Contents \cup {Nil} : n # object /\ Stores(n, {})
    /\ UNCHANGED <<cache, handlerVars>>

------------------------------------------------------------------------------
Locking(p) == CheckCache(p) \/ LockCache(p) \/ LookUp(p)

HandlerStep(p) ==
    \/ Consult(p)
    \/ Locking(p)
    \/ Discover(p)
    \/ GetCurrent(p)
    \/ UpdateObject(p)
    \/ PatchObject(p)
    \/ CreateObject(p)
    \/ DeleteObject(p)
    \/ Probe(p)

Next ==
    \/ \E p \in Handlers : HandlerStep(p) \/ \E r \in Requests : Ask(p, r)
    \/ WriteOutside

Spec == Init /\ [][Next]_vars

\* Goroutines run, calls end, and a sync.RWMutex starves nobody.
FairSpec == Spec /\ \A p \in Handlers : WF_vars(HandlerStep(p)) /\ SF_vars(Locking(p))

------------------------------------------------------------------------------
(* Properties                                                              *)

\* What a request makes of the object, had it the object for itself.
Results(r, n) ==
    {m \in Contents \cup {Nil} :
        \/ r.calls \in Reading /\ m = n
        \/ r.calls \in Creating /\ n = Nil /\ m = r.body
        \/ r.calls = NamespaceCreate /\ n # Nil /\ m = n
        \/ n # Nil /\
           \/ r.calls \in Updating /\ m = r.body
           \/ r.calls \in Deleting /\ m \in {Nil, n}
           \/ r.calls = RestartWorkload /\ m = [n EXCEPT !.restarted = TRUE]}

Atomic == INSTANCE AtomicObject WITH asked <- request, phase <- answer

\* Every request takes effect at once, at most once, on the object as it then is,
\* and is answered "ok" only if it did: a restart changes the annotation and
\* nothing else that was written since the workload was read (restart.go:60-119),
\* a namespace is created by one of two requests (namespace.go:11-22).
ObjectContract == Atomic!Contract

\* A generic update never overwrites a change made since it read the object
\* (handler.go:169-175); another one with a resourceVersion, a change made since its
\* client read it (resources/crd/custom-crd.go:145-170).
OverwritesWhatItRead ==
    [][\A p \in Handlers :
           /\ At(p) = "update" /\ at'[p] = 0
           /\ object' # object
           /\ request[p].calls \in {Put, NamespacesPut} \/ sent[p] # Nil
           => p \in fresh]_vars

\* Handlers that wait for the same first discovery share its result: the map of
\* kinds is built once, and no later discovery replaces it while others read it
\* (handler.go:274-305).
KindsStable == [][cacheInitialized => UNCHANGED <<cacheInitialized, resourceCache>>]_vars

\* Every request is answered, however discoveries fail and whoever waits for the
\* lock of the cache (handler.go:286).
RequestsEnd == \A p \in Handlers : at[p] # 0 ~> at[p] = 0

===============================================================================
