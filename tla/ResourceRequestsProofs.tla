------------------------ MODULE ResourceRequestsProofs ------------------------
(***************************************************************************)
(* Proofs about ResourceRequests.  They rest on the order of the calls of    *)
(* each handler (Well): which call may be the last, which are followed by    *)
(* others.  A handler with the revision of the object has read the object    *)
(* as it still is, because every write makes a new revision (Current).  The   *)
(* lock of the cache is held by the handler that discovers (Locked).         *)
(***************************************************************************)
EXTENDS ResourceRequests, TLAPS

\* The calls that are followed by another.
Before == {"client", "lock", "discover", "lookup", "get", "probe"}

\* The four calls that look for a kind follow each other; a call that writes is the
\* last.
Well(calls) ==
    /\ Len(calls) \in Nat \ {0} /\ Len(calls) <= 7
    /\ \A i \in 1..Len(calls) :
          /\ calls[i] = "check" => i = 2
          /\ calls[i] = "lock" <=> calls[2] = "check" /\ i = 3
          /\ calls[i] = "discover" <=> calls[2] = "check" /\ i = 4
          /\ calls[i] = "lookup" <=> calls[2] = "check" /\ i = 5
          /\ calls[i] \in Before => i < Len(calls)
          /\ calls[i] = "check" => i + 4 <= Len(calls)
          /\ i = Len(calls) /\ calls[i] = "read" => calls \in Reading
          /\ calls[i] = "create" => i = Len(calls) /\ calls \in Creating
          /\ calls[i] = "probe" => calls = NamespaceCreate
          /\ calls[i] = "update" => i = Len(calls) /\ calls \in Updating
          /\ calls[i] = "delete" => i = Len(calls) /\ calls \in Deleting
          /\ calls[i] = "patch" => i = Len(calls) /\ calls = RestartWorkload

AllCalls == Reading \cup Creating \cup Updating \cup Deleting \cup {RestartWorkload}

USE DEF WithClient, GetResource

LEMMA ReadingWell == \A calls \in Reading : Well(calls)
<1>1. Well(GetNames) /\ Well(List) /\ Well(NamespacesList)
  BY DEF Well, Before, Reading, GetNames, List, NamespacesList, HandlerList
<1>2. Well(Get) /\ Well(NamespacesGet)
  BY DEF Well, Before, Reading, Get, NamespacesGet, HandlerGet
<1>3. Well(CrdList) /\ Well(CrdGet)
  BY DEF Well, Before, Reading, CrdList, CrdGet, GetCRDPage
<1>4. Well(CRDList) /\ Well(CRDGet)
  BY DEF Well, Before, Reading, CRDList, CRDGet, GetCustomCRDPage,
         GetBestCRDVersionByGroupKind, GetCustomCRDInstanceByName
<1>5. Well(ListPersistentVolume) /\ Well(PvGet)
  BY DEF Well, Before, Reading, ListPersistentVolume, PvGet
<1>6. QED
  BY <1>1, <1>2, <1>3, <1>4, <1>5 DEF Reading

LEMMA CreatingWell == \A calls \in Creating : Well(calls)
<1>1. Well(Create) /\ Well(NamespacesCreate)
  BY DEF Well, Before, Creating, Create, NamespacesCreate, HandlerCreate
<1>2. Well(CrdCreate) /\ Well(PvCreate)
  BY DEF Well, Before, Creating, CrdCreate, PvCreate
<1>3. Well(CRDCreate) /\ Well(CRDCreateWithNamespace)
  BY DEF Well, Before, Creating, CRDCreate, CRDCreateWithNamespace,
         GetBestCRDVersionByGroupKind, CreateCustomCRDInstance,
         CreateCustomCRDInstanceClusterScoped
<1>4. Well(NamespaceCreate)
  BY DEF Well, Before, Creating, NamespaceCreate, CreateNotExitNamespace
<1>5. QED
  BY <1>1, <1>2, <1>3, <1>4 DEF Creating

LEMMA UpdatingWell == \A calls \in Updating : Well(calls)
<1>1. Well(Put) /\ Well(NamespacesPut)
  BY DEF Well, Before, Updating, Put, NamespacesPut, HandlerUpdate
<1>2. Well(CrdUpdate) /\ Well(PvUpdate)
  BY DEF Well, Before, Updating, CrdUpdate, PvUpdate
<1>3. Well(CRDUpdate)
  BY DEF Well, Before, Updating, CRDUpdate, GetBestCRDVersionByGroupKind, UpdateCustomCRD
<1>4. QED
  BY <1>1, <1>2, <1>3 DEF Updating

LEMMA DeletingWell == \A calls \in Deleting : Well(calls)
<1>1. Well(Delete) /\ Well(NamespacesDelete)
  BY DEF Well, Before, Deleting, Delete, NamespacesDelete, HandlerDelete
<1>2. Well(CrdDelete) /\ Well(PvDelete)
  BY DEF Well, Before, Deleting, CrdDelete, PvDelete
<1>3. Well(CRDDelete)
  BY DEF Well, Before, Deleting, CRDDelete, GetBestCRDVersionByGroupKind, DeleteCustomCRD
<1>4. QED
  BY <1>1, <1>2, <1>3 DEF Deleting

LEMMA RestartWell == Well(RestartWorkload)
BY DEF Well, Before, RestartWorkload

LEMMA AllWell == \A calls \in AllCalls : Well(calls)
BY ReadingWell, CreatingWell, UpdatingWell, DeletingWell, RestartWell DEF AllCalls

\* A generic update reads the object, and then writes it.
LEMMA GenericUpdates ==
    \A calls \in {Put, NamespacesPut} :
        /\ Len(calls) = 7
        /\ \A i \in 1..7 :
              /\ calls[i] = "get" <=> i = 6
              /\ calls[i] = "update" <=> i = 7
              /\ calls[i] = "check" <=> i = 2
BY DEF Put, NamespacesPut, HandlerUpdate

------------------------------------------------------------------------------
\* A handler that knows the revision of the object read it as it still is.
Current ==
    \A p \in Handlers :
        sent[p] # Nil =>
            /\ sent[p] <= revision
            /\ sent[p] = revision => p \in fresh

\* A generic update has read the object before it writes.
Got ==
    \A p \in Handlers :
        request[p] # Nil /\ request[p].calls \in {Put, NamespacesPut} /\ at[p] = 7
            => sent[p] # Nil

IInv == TypeOK /\ Current /\ Got

LEMMA RequestType ==
    ASSUME NEW r \in Requests
    PROVE  r.calls \in AllCalls /\ r.body \in Contents \cup {Nil} /\ r # Nil
BY RequestAssumption DEF Requests, AllCalls

LEMMA RevisionType == Nil \notin Revisions /\ Revisions \subseteq Nat /\ Nil \notin Contents
BY ContentsAssumption, ResourceAssumption DEF Revisions

\* What the location of a handler says of its request.
LEMMA Busy ==
    ASSUME TypeOK, NEW p \in Handlers, At(p) # "none"
    PROVE  /\ request[p] \in Requests /\ request[p] # Nil
           /\ Well(request[p].calls)
           /\ at[p] \in 1..Len(request[p].calls)
           /\ at[p] \in Nat \ {0}
           /\ At(p) = request[p].calls[at[p]]
           /\ answer[p] = "asked"
<1>1. at[p] # 0 /\ At(p) = request[p].calls[at[p]] /\ at[p] \in Nat
  BY DEF At, TypeOK
<1>2. request[p] # Nil /\ request[p] \in Requests
  BY <1>1 DEF TypeOK
<1>3. QED
  BY <1>1, <1>2, RequestType, AllWell DEF TypeOK

LEMMA InitInv == Init => IInv
<1>1. GetResourceMap({}) \in ResourceMaps
  BY DEF ResourceMaps
<1>2. 0 \in Revisions
  BY ResourceAssumption DEF Revisions
<1>3. Init => Current /\ Got
  BY DEF Init, Current, Got
<1>4. Init => TypeOK
  <2> SUFFICES ASSUME Init PROVE TypeOK
    OBVIOUS
  <2>1. \A p \in Handlers : request[p] = Nil /\ at[p] = 0 /\ answer[p] # "asked"
    BY DEF Init
  <2>2. /\ at \in [Handlers -> Nat] /\ request \in [Handlers -> Requests \cup {Nil}]
        /\ answer \in [Handlers -> {"idle", "asked", "ok", "failed"}]
        /\ sent \in [Handlers -> Revisions \cup {Nil}]
    BY DEF Init
  <2>3. resourceCache \in ResourceMaps /\ revision \in Revisions
    BY <1>1, <1>2 DEF Init
  <2>4. QED
    BY <2>1, <2>2, <2>3 DEF Init, TypeOK
<1>5. QED
  BY <1>3, <1>4 DEF IInv

\* Who writes the object, if anybody, makes a new revision of it.
Renewed(p) ==
    /\ object' \in Contents \cup {Nil}
    /\ revision' \in Revisions
    /\ \/ UNCHANGED <<object, revision>> /\ fresh \ {p} \subseteq fresh'
       \/ revision' = revision + 1 /\ fresh' = {}
    /\ fresh' \subseteq Handlers

CacheType ==
    /\ cacheInitialized' \in BOOLEAN
    /\ resourceCache' \in ResourceMaps
    /\ writer' \in Handlers \cup {Nil}

\* A step of one handler.
LEMMA HandlerInv ==
    ASSUME IInv, NEW p \in Handlers, Renewed(p), CacheType,
           NEW i \in Nat, NEW r \in Requests \cup {Nil},
           NEW a \in {"idle", "asked", "ok", "failed"}, NEW s \in Revisions \cup {Nil},
           at' = [at EXCEPT ![p] = i],
           request' = [request EXCEPT ![p] = r],
           answer' = [answer EXCEPT ![p] = a],
           sent' = [sent EXCEPT ![p] = s],
           r = Nil => i = 0 /\ a # "asked",
           r # Nil => i \in 1..Len(r.calls) /\ a = "asked",
           s # Nil => s <= revision' /\ (s = revision' => p \in fresh'),
           r # Nil /\ r.calls \in {Put, NamespacesPut} /\ i = 7 => s # Nil
    PROVE  IInv'
<1> USE DEF IInv
<1>1. \A q \in Handlers :
          /\ at'[q] = IF q = p THEN i ELSE at[q]
          /\ request'[q] = IF q = p THEN r ELSE request[q]
          /\ answer'[q] = IF q = p THEN a ELSE answer[q]
          /\ sent'[q] = IF q = p THEN s ELSE sent[q]
  BY DEF TypeOK
<1>2. TypeOK'
  <2>1. /\ at' \in [Handlers -> Nat] /\ request' \in [Handlers -> Requests \cup {Nil}]
        /\ answer' \in [Handlers -> {"idle", "asked", "ok", "failed"}]
        /\ sent' \in [Handlers -> Revisions \cup {Nil}]
    BY DEF TypeOK
  <2>2. \A q \in Handlers :
            IF request'[q] = Nil
            THEN at'[q] = 0 /\ answer'[q] # "asked"
            ELSE at'[q] \in 1..Len(request'[q].calls) /\ answer'[q] = "asked"
    BY <1>1 DEF TypeOK
  <2>3. QED
    BY <2>1, <2>2 DEF TypeOK, Renewed, CacheType
<1>3. Current'
  <2> SUFFICES ASSUME NEW q \in Handlers, sent'[q] # Nil
               PROVE  sent'[q] <= revision' /\ (sent'[q] = revision' => q \in fresh')
    BY DEF Current
  <2>1. CASE q = p
    BY <1>1, <2>1
  <2>2. CASE q # p
    <3>1. sent'[q] = sent[q] /\ sent[q] <= revision /\ (sent[q] = revision => q \in fresh)
      BY <1>1, <2>2 DEF Current
    <3>2. sent[q] \in Nat /\ revision \in Nat
      BY <3>1, RevisionType DEF TypeOK
    <3>3. QED
      BY <2>2, <3>1, <3>2 DEF Renewed
  <2>3. QED
    BY <2>1, <2>2
<1>4. Got'
  BY <1>1 DEF Got
<1>5. QED
  BY <1>2, <1>3, <1>4

LEMMA EndsInv ==
    ASSUME IInv, NEW p \in Handlers, NEW a \in {"ok", "failed"}, Answers(p, a),
           Renewed(p), CacheType
    PROVE  IInv'
BY HandlerInv, RevisionType DEF Answers

LEMMA GoesOnInv ==
    ASSUME IInv, NEW p \in Handlers, NEW n \in Nat, GoesOn(p, n), At(p) # "none",
           UNCHANGED <<object, revision>>, CacheType,
           at[p] + n <= Len(request[p].calls),
           request[p].calls \in {Put, NamespacesPut} => at[p] + n # 7
    PROVE  IInv'
<1>1. /\ at[p] + n \in Nat /\ at[p] + n \in 1..Len(request[p].calls)
      /\ request[p] \in Requests /\ request[p] # Nil /\ answer[p] = "asked"
  BY Busy DEF IInv, Well
<1>2. sent[p] \in Revisions \cup {Nil} /\ fresh' = fresh /\ Renewed(p)
  BY DEF IInv, TypeOK, GoesOn, Renewed
<1>3. sent[p] # Nil => sent[p] <= revision' /\ (sent[p] = revision' => p \in fresh')
  BY <1>2 DEF IInv, Current
<1>4. /\ at' = [at EXCEPT ![p] = at[p] + n]
      /\ request' = [request EXCEPT ![p] = request[p]]
      /\ answer' = [answer EXCEPT ![p] = answer[p]]
      /\ sent' = [sent EXCEPT ![p] = sent[p]]
  BY DEF GoesOn, IInv, TypeOK
<1> DEFINE i == at[p] + n
<1> HIDE DEF i
<1>5. i \in Nat /\ at' = [at EXCEPT ![p] = i] /\ i \in 1..Len(request[p].calls)
      /\ (request[p].calls \in {Put, NamespacesPut} => i # 7)
  BY <1>1, <1>4 DEF i
<1>6. QED
  BY <1>1, <1>2, <1>3, <1>4, <1>5, HandlerInv

\* A step that writes nothing and leaves the cache alone.
LEMMA Quiet ==
    ASSUME IInv, NEW p \in Handlers, UNCHANGED <<object, revision>>,
           fresh' \in {fresh, fresh \ {p}, fresh \cup {p}}
    PROVE  Renewed(p)
BY DEF IInv, TypeOK, Renewed

LEMMA SameCache == ASSUME IInv, UNCHANGED cache PROVE CacheType
BY DEF IInv, TypeOK, cache, CacheType

LEMMA AskInv == ASSUME IInv, NEW p \in Handlers, NEW r \in Requests, Ask(p, r) PROVE IInv'
<1>1. UNCHANGED <<object, revision>> /\ UNCHANGED cache
  BY DEF Ask
<1>2. r.calls \in AllCalls /\ r # Nil /\ Well(r.calls)
  BY RequestType, AllWell
<1>3. 1 \in 1..Len(r.calls)
  <2>1. Len(r.calls) \in Nat \ {0}
    BY <1>2 DEF Well
  <2>2. QED
    BY <2>1
<1>4. revision \in Revisions /\ revision \in Nat /\ sent[p] \in Revisions \cup {Nil}
  BY RevisionType DEF IInv, TypeOK
<1>5. PICK s \in Revisions \cup {Nil} :
          /\ sent' = [sent EXCEPT ![p] = s]
          /\ \/ s = sent[p] /\ fresh' = fresh
             \/ s = revision /\ fresh' = fresh \cup {p}
  <2>1. CASE UNCHANGED <<sent, fresh>>
    <3>1. sent' = [sent EXCEPT ![p] = sent[p]]
      BY <2>1 DEF IInv, TypeOK
    <3>2. QED
      BY <1>4, <2>1, <3>1
  <2>2. CASE sent' = [sent EXCEPT ![p] = revision] /\ fresh' = fresh \cup {p}
    BY <1>4, <2>2
  <2>3. QED
    BY <2>1, <2>2 DEF Ask
<1>6. s # Nil => s <= revision' /\ (s = revision' => p \in fresh')
  BY <1>1, <1>4, <1>5 DEF IInv, Current
<1>7. Renewed(p) /\ CacheType
  BY <1>1, <1>5, Quiet, SameCache
<1>8. /\ request' = [request EXCEPT ![p] = r]
      /\ at' = [at EXCEPT ![p] = 1]
      /\ answer' = [answer EXCEPT ![p] = "asked"]
  BY DEF Ask
<1> DEFINE i == 1
<1>9. i \in Nat /\ i # 7 /\ i \in 1..Len(r.calls) /\ at' = [at EXCEPT ![p] = i]
  BY <1>3, <1>8
<1> HIDE DEF i
<1>10. QED
  BY <1>2, <1>5, <1>6, <1>7, <1>8, <1>9, HandlerInv

\* No call but the reading of the object leads a generic update to its write.
LEMMA NotToUpdate ==
    ASSUME TypeOK, NEW p \in Handlers, At(p) # "none",
           request[p].calls \in {Put, NamespacesPut}
    PROVE  /\ At(p) # "get" => at[p] + 1 # 7
           /\ At(p) = "check" => at[p] + 4 # 7
BY Busy, GenericUpdates

LEMMA FailsInv ==
    ASSUME IInv, NEW p \in Handlers, NEW a \in {"ok", "failed"}, Ends(p, a),
           UNCHANGED <<object, revision>>, CacheType
    PROVE  IInv'
BY EndsInv, Quiet DEF Ends

LEMMA NextInv ==
    ASSUME IInv, NEW p \in Handlers, GoesOn(p, 1), At(p) \notin {"none", "get"},
           UNCHANGED <<object, revision>>, CacheType, at[p] + 1 <= Len(request[p].calls)
    PROVE  IInv'
BY GoesOnInv, NotToUpdate DEF IInv

\* Most calls are followed by another.
LEMMA Follows ==
    ASSUME TypeOK, NEW p \in Handlers, At(p) \in Before \cup {"check"}
    PROVE  /\ at[p] + 1 <= Len(request[p].calls)
           /\ At(p) = "check" => at[p] + 4 <= Len(request[p].calls)
<1>1. At(p) # "none"
  BY DEF Before
<1>2. QED
  BY <1>1, Busy DEF Well

LEMMA ConsultInv == ASSUME IInv, NEW p \in Handlers, Consult(p) PROVE IInv'
<1>1. At(p) \notin {"none", "get"} /\ CacheType /\ UNCHANGED <<object, revision>>
  BY SameCache DEF Consult
<1>2. at[p] < Len(request[p].calls) => at[p] + 1 <= Len(request[p].calls)
  BY <1>1, Busy DEF IInv, Well
<1>3. QED
  BY <1>1, <1>2, FailsInv, NextInv DEF Consult

LEMMA LockingInv == ASSUME IInv, NEW p \in Handlers, Locking(p) PROVE IInv'
<1>1. /\ At(p) \in {"check", "lock", "lookup"}
      /\ UNCHANGED <<object, revision, cacheInitialized, resourceCache>>
      /\ writer' \in {writer, p}
  BY DEF Locking, CheckCache, LockCache, LookUp, cache
<1>2. CacheType /\ At(p) \notin {"none", "get"} /\ At(p) \in Before \cup {"check"}
  BY <1>1 DEF IInv, TypeOK, CacheType, Before
<1>3. CASE Ends(p, "failed")
  BY <1>1, <1>2, <1>3, FailsInv
<1>4. CASE GoesOn(p, 1)
  BY <1>1, <1>2, <1>4, NextInv, Follows DEF IInv
<1>5. CASE At(p) = "check" /\ GoesOn(p, 4)
  BY <1>1, <1>2, <1>5, GoesOnInv, Follows, NotToUpdate DEF IInv
<1>6. QED
  BY <1>3, <1>4, <1>5 DEF Locking, CheckCache, LockCache, LookUp

LEMMA DiscoverInv == ASSUME IInv, NEW p \in Handlers, Discover(p) PROVE IInv'
<1>1. /\ At(p) = "discover" /\ UNCHANGED <<object, revision>>
      /\ At(p) \in Before /\ At(p) \notin {"none", "get"}
  BY DEF Discover, Before
<1>2. CacheType
  BY DEF Discover, IInv, TypeOK, CacheType
<1>3. Ends(p, "failed") \/ GoesOn(p, 1)
  BY DEF Discover
<1>4. QED
  BY <1>1, <1>2, <1>3, FailsInv, NextInv, Follows DEF IInv

LEMMA GetCurrentInv == ASSUME IInv, NEW p \in Handlers, GetCurrent(p) PROVE IInv'
<1>1. At(p) = "get" /\ UNCHANGED <<object, revision>> /\ UNCHANGED cache
  BY DEF GetCurrent
<1>2. CASE Ends(p, "failed")
  BY <1>1, <1>2, FailsInv, SameCache
<1>3. CASE ~ Ends(p, "failed")
  <2>1. /\ sent' = [sent EXCEPT ![p] = revision]
        /\ at' = [at EXCEPT ![p] = at[p] + 1]
        /\ fresh' = fresh \cup {p}
        /\ request' = [request EXCEPT ![p] = request[p]]
        /\ answer' = [answer EXCEPT ![p] = answer[p]]
    BY <1>3 DEF GetCurrent, IInv, TypeOK
  <2>2. /\ request[p] \in Requests /\ request[p] # Nil /\ answer[p] = "asked"
        /\ at[p] + 1 \in Nat /\ at[p] + 1 \in 1..Len(request[p].calls)
    <3>1. At(p) # "none" /\ At(p) \in Before
      BY <1>1 DEF Before
    <3>2. QED
      BY <3>1, Busy, Follows DEF IInv, Well
  <2>3. revision \in Revisions /\ revision \in Nat /\ revision' = revision /\ revision # Nil
    BY <1>1, RevisionType DEF IInv, TypeOK
  <2>4. Renewed(p) /\ CacheType
    BY <1>1, <2>1, Quiet, SameCache
  <2> DEFINE i == at[p] + 1
  <2>5. i \in Nat /\ i \in 1..Len(request[p].calls) /\ at' = [at EXCEPT ![p] = i]
    BY <2>1, <2>2
  <2> HIDE DEF i
  <2>6. p \in fresh' /\ revision <= revision'
    BY <2>1, <2>3
  <2>7. QED
    BY <2>1, <2>2, <2>3, <2>4, <2>5, <2>6, HandlerInv
<1>4. QED
  BY <1>2, <1>3

LEMMA StoresType ==
    ASSUME IInv, NEW n \in Contents \cup {Nil}, NEW readers \in SUBSET Handlers,
           Stores(n, readers)
    PROVE  object' = n /\ object' \in Contents \cup {Nil} /\ revision' \in Revisions
           /\ fresh' \in SUBSET Handlers
<1>1. revision \in 0..MaxRevision /\ MaxRevision \in Nat
  BY ResourceAssumption DEF IInv, TypeOK, Revisions
<1>2. QED
  BY <1>1 DEF Stores, Revisions

LEMMA AppliesInv ==
    ASSUME IInv, NEW p \in Handlers, NEW n \in Contents \cup {Nil}, Applies(p, n),
           UNCHANGED cache
    PROVE  IInv'
<1>1. fresh \ {p} \in SUBSET Handlers /\ Stores(n, fresh \ {p})
  BY DEF IInv, TypeOK, Applies
<1>2. Renewed(p)
  BY <1>1, StoresType DEF Stores, Renewed
<1>3. QED
  BY <1>2, SameCache, EndsInv DEF Applies

\* The calls to the API server write what their request says, or nothing.
LEMMA Writing ==
    ASSUME IInv, NEW p \in Handlers,
           UpdateObject(p) \/ PatchObject(p) \/ CreateObject(p) \/ DeleteObject(p)
    PROVE  /\ At(p) \in {"update", "patch", "create", "delete"}
           /\ UNCHANGED cache
           /\ \/ Fails(p)
              \/ \E n \in Results(request[p], object) : Applies(p, n)
<1>1. At(p) \in {"update", "patch", "create", "delete"} /\ UNCHANGED cache
  BY DEF UpdateObject, PatchObject, CreateObject, DeleteObject
<1>2. /\ request[p].body \in Contents \cup {Nil} /\ Well(request[p].calls)
      /\ at[p] \in 1..Len(request[p].calls) /\ At(p) = request[p].calls[at[p]]
      /\ object \in Contents \cup {Nil}
  BY <1>1, Busy, RequestType DEF IInv, TypeOK
<1>3. CASE UpdateObject(p) /\ ~ Fails(p)
  <2>1. request[p].calls \in Updating /\ object # Nil /\ Applies(p, request[p].body)
    BY <1>2, <1>3 DEF UpdateObject, Well
  <2>2. request[p].body \in Results(request[p], object)
    BY <1>2, <2>1 DEF Results
  <2>3. QED
    BY <1>1, <2>1, <2>2
<1>4. CASE PatchObject(p) /\ ~ Fails(p)
  <2>1. /\ request[p].calls = RestartWorkload /\ object # Nil
        /\ Applies(p, [object EXCEPT !.restarted = TRUE])
    BY <1>2, <1>4 DEF PatchObject, Well
  <2>2. [object EXCEPT !.restarted = TRUE] \in Contents
    BY <1>2, <2>1 DEF Contents
  <2>3. [object EXCEPT !.restarted = TRUE] \in Results(request[p], object)
    BY <2>1, <2>2 DEF Results
  <2>4. QED
    BY <1>1, <2>1, <2>3
<1>5. CASE CreateObject(p) /\ ~ Fails(p)
  <2>1. request[p].calls \in Creating /\ object = Nil /\ Applies(p, request[p].body)
    BY <1>2, <1>5 DEF CreateObject, Well
  <2>2. request[p].body \in Results(request[p], object)
    BY <1>2, <2>1 DEF Results
  <2>3. QED
    BY <1>1, <2>1, <2>2
<1>6. CASE DeleteObject(p) /\ ~ Fails(p)
  <2>1. /\ request[p].calls \in Deleting /\ object # Nil
        /\ \E n \in {Nil, object} : Applies(p, n)
    BY <1>2, <1>6 DEF DeleteObject, Well
  <2>2. {Nil, object} \subseteq Results(request[p], object)
    BY <1>2, <2>1 DEF Results
  <2>3. QED
    BY <1>1, <2>1, <2>2
<1>7. QED
  BY <1>1, <1>3, <1>4, <1>5, <1>6

LEMMA WritingInv ==
    ASSUME IInv, NEW p \in Handlers,
           UpdateObject(p) \/ PatchObject(p) \/ CreateObject(p) \/ DeleteObject(p)
    PROVE  IInv'
<1>1. UNCHANGED cache
  BY Writing
<1>2. CASE Fails(p)
  BY <1>1, <1>2, SameCache, FailsInv DEF Fails
<1>3. CASE \E n \in Results(request[p], object) : Applies(p, n)
  BY <1>1, <1>3, AppliesInv DEF Results
<1>4. QED
  BY <1>2, <1>3, Writing

LEMMA ProbeInv == ASSUME IInv, NEW p \in Handlers, Probe(p) PROVE IInv'
<1>1. At(p) = "probe" /\ UNCHANGED <<object, revision>> /\ CacheType
  BY SameCache DEF Probe
<1>2. At(p) \in Before /\ At(p) \notin {"none", "get"}
  BY <1>1 DEF Before
<1>3. QED
  BY <1>1, <1>2, FailsInv, NextInv, Follows DEF Probe, IInv

LEMMA HandlerStepInv == ASSUME IInv, NEW p \in Handlers, HandlerStep(p) PROVE IInv'
BY ConsultInv, LockingInv, DiscoverInv, GetCurrentInv, WritingInv, ProbeInv DEF HandlerStep

LEMMA OutsideInv == ASSUME IInv, WriteOutside PROVE IInv'
<1>1. PICK n \in Contents \cup {Nil} : n # object /\ Stores(n, {})
  BY DEF WriteOutside
<1>2. UNCHANGED <<cache, handlerVars>>
  BY DEF WriteOutside
<1>3. object' \in Contents \cup {Nil} /\ revision' \in Revisions /\ fresh' \in SUBSET Handlers
  BY <1>1, StoresType
<1>4. TypeOK' /\ Got'
  BY <1>2, <1>3 DEF IInv, TypeOK, Got, cache, handlerVars
<1>5. Current'
  <2> SUFFICES ASSUME NEW q \in Handlers, sent'[q] # Nil
               PROVE  sent'[q] <= revision' /\ sent'[q] # revision'
    BY DEF Current
  <2>1. sent'[q] = sent[q] /\ sent[q] <= revision /\ sent[q] \in Nat /\ revision \in Nat
    BY <1>2, RevisionType DEF IInv, TypeOK, Current, handlerVars
  <2>2. revision' = revision + 1
    BY <1>1 DEF Stores
  <2>3. QED
    BY <2>1, <2>2
<1>6. QED
  BY <1>4, <1>5 DEF IInv

LEMMA StepInv == IInv /\ [Next]_vars => IInv'
<1> SUFFICES ASSUME IInv, [Next]_vars PROVE IInv'
  OBVIOUS
<1>1. CASE UNCHANGED vars
  BY <1>1 DEF vars, cache, handlerVars, IInv, TypeOK, Current, Got
<1>2. CASE Next
  BY <1>2, AskInv, HandlerStepInv, OutsideInv DEF Next
<1>3. QED
  BY <1>1, <1>2

------------------------------------------------------------------------------
\* The inductive invariant: the revision of a handler is one of an object it has
\* read, and a generic update has one when it writes (handler.go:154-193).
THEOREM Invariance == Spec => []IInv
<1>1. QED
  BY InitInv, StepInv, PTL DEF Spec

\* Type correctness: no handler leaves its sequence of calls, the cache holds what
\* some discovery found (handler.go:258-333).
THEOREM TypeCorrect == Spec => []TypeOK
<1>1. IInv => TypeOK
  BY DEF IInv
<1>2. QED
  BY <1>1, Invariance, PTL

\* Nobody but p moves p.
LEMMA Moves ==
    ASSUME NEW p \in Handlers, HandlerStep(p) \/ \E r \in Requests : Ask(p, r)
    PROVE  \E i : at' = [at EXCEPT ![p] = i]
BY DEF HandlerStep, Locking, Consult, CheckCache, LockCache, Discover, LookUp, GetCurrent,
       UpdateObject, PatchObject, CreateObject, DeleteObject, Probe, Ask, Fails, Applies, Ends,
       Answers, GoesOn

\* An update that changes the object was made from the object as it was, if it has
\* a revision at all: a generic one always has (handler.go:154-193,
\* resources/crd/custom-crd.go:145-170).
THEOREM NothingOverwritten == Spec => OverwritesWhatItRead
<1> DEFINE Read ==
      \A p \in Handlers :
          /\ At(p) = "update" /\ at'[p] = 0
          /\ object' # object
          /\ request[p].calls \in {Put, NamespacesPut} \/ sent[p] # Nil
          => p \in fresh
<1>1. IInv /\ [Next]_vars => [Read]_vars
  <2> SUFFICES ASSUME IInv, Next, NEW p \in Handlers, At(p) = "update", at'[p] = 0,
                      object' # object,
                      request[p].calls \in {Put, NamespacesPut} \/ sent[p] # Nil
               PROVE  p \in fresh
    OBVIOUS
  <2>1. at[p] # 0 /\ at \in [Handlers -> Nat]
    BY Busy DEF IInv, TypeOK
  <2>2. PICK q \in Handlers : HandlerStep(q) \/ \E r \in Requests : Ask(q, r)
    BY <2>1 DEF Next, WriteOutside, handlerVars
  <2>3. q = p
    BY <2>1, <2>2, Moves
  <2>4. UpdateObject(p)
    <3>1. ~ \E r \in Requests : Ask(p, r)
      BY DEF Ask
    <3>2. QED
      BY <2>2, <2>3, <3>1
      DEF HandlerStep, Locking, Consult, CheckCache, LockCache, Discover, LookUp, GetCurrent,
          PatchObject, CreateObject, DeleteObject, Probe
  <2>5. sent[p] \in {revision, Nil}
    BY <2>4 DEF UpdateObject, Fails
  <2>6. sent[p] # Nil
    <3>1. CASE request[p].calls \in {Put, NamespacesPut}
      <4>1. at[p] = 7 /\ request[p] # Nil
        BY <3>1, Busy, GenericUpdates DEF IInv
      <4>2. QED
        BY <3>1, <4>1 DEF IInv, Got
    <3>2. QED
      BY <3>1
  <2>7. QED
    BY <2>5, <2>6 DEF IInv, Current
<1>2. QED
  BY <1>1, Invariance, PTL DEF Spec, OverwritesWhatItRead

LEMMA Filled ==
    ASSUME [Next]_vars, cacheInitialized
    PROVE  UNCHANGED <<cacheInitialized, resourceCache>>
<1>1. ASSUME NEW p \in Handlers, HandlerStep(p)
      PROVE  UNCHANGED <<cacheInitialized, resourceCache>>
  BY <1>1 DEF HandlerStep, Locking, Consult, CheckCache, LockCache, Discover, LookUp,
              GetCurrent, UpdateObject, PatchObject, CreateObject, DeleteObject, Probe, cache
<1>2. ASSUME NEW p \in Handlers, NEW r \in Requests, Ask(p, r)
      PROVE  UNCHANGED <<cacheInitialized, resourceCache>>
  BY <1>2 DEF Ask, cache
<1>3. QED
  BY <1>1, <1>2 DEF Next, WriteOutside, vars, cache

\* The kinds are discovered once: who comes to fill the cache late finds it filled
\* when it holds the lock (handler.go:281-296).
THEOREM KindsAreStable == Spec => KindsStable
<1>1. [Next]_vars
      => [cacheInitialized => UNCHANGED <<cacheInitialized, resourceCache>>]_vars
  BY Filled
<1>2. QED
  BY <1>1, PTL DEF Spec, KindsStable

------------------------------------------------------------------------------
(* The lock of the cache, what is found in it, how long a request takes      *)

\* The lock is held by the one handler that discovers, and by nobody else.
Locked == \A p \in Handlers : writer = p <=> At(p) = "discover"

\* A handler that looks the kind up finds a cache that is filled, and one that is
\* past it knows that the kind is there.
Known ==
    \A p \in Handlers :
        request[p] # Nil /\ request[p].calls[2] = "check" =>
            /\ at[p] >= 5 => cacheInitialized
            /\ at[p] >= 6 => Kind \in DOMAIN resourceCache

\* A request that is not answered stays where it is or goes on to a later call.
Advances(p) ==
    \/ at'[p] = at[p] /\ request'[p] = request[p]
    \/ at'[p] > at[p] /\ request'[p] = request[p]
    \/ at'[p] = 0 /\ answer'[p] \in {"ok", "failed"}

\* The three ways of a step of a handler, and those that concern the cache.
LEMMA Walks ==
    ASSUME TypeOK, NEW p \in Handlers, HandlerStep(p)
    PROVE  /\ At(p) # "none"
           /\ At(p) \notin {"lock", "discover"} => writer' = writer
           /\ At(p) = "lock" => writer = Nil /\ writer' = p /\ at' = [at EXCEPT ![p] = at[p] + 1]
           /\ At(p) = "discover" => writer' = Nil
           /\ \/ \E a \in {"ok", "failed"} : Answers(p, a)
              \/ /\ request' = request
                 /\ at' = [at EXCEPT ![p] = at[p] + 1]
                 /\ At(p) = "discover" => cacheInitialized'
                 /\ At(p) = "lookup" => Kind \in DOMAIN resourceCache
                 /\ At(p) = "check" => ~ cacheInitialized
              \/ /\ request' = request
                 /\ at' = [at EXCEPT ![p] = at[p] + 4]
                 /\ At(p) = "check" /\ cacheInitialized /\ Kind \in DOMAIN resourceCache
<1>1. CASE Consult(p)
  BY <1>1 DEF Consult, Ends, GoesOn, cache
<1>2. CASE Locking(p)
  BY <1>2 DEF Locking, CheckCache, LockCache, LookUp, Ends, GoesOn, cache
<1>3. CASE Discover(p)
  BY <1>3 DEF Discover, Ends, GoesOn
<1>4. CASE GetCurrent(p) \/ Probe(p)
  BY <1>4 DEF GetCurrent, Probe, Ends, GoesOn, cache
<1>5. CASE UpdateObject(p) \/ PatchObject(p) \/ CreateObject(p) \/ DeleteObject(p)
  BY <1>5 DEF UpdateObject, PatchObject, CreateObject, DeleteObject, Fails, Applies, Ends, cache
<1>6. QED
  BY <1>1, <1>2, <1>3, <1>4, <1>5 DEF HandlerStep

\* What the step of p makes of the places of the handlers.
LEMMA Places ==
    ASSUME TypeOK, NEW p \in Handlers, HandlerStep(p) \/ \E r \in Requests : Ask(p, r)
    PROVE  /\ \A q \in Handlers \ {p} :
                 at'[q] = at[q] /\ request'[q] = request[q] /\ At(q)' = At(q)
           /\ \/ at'[p] = 0 /\ request'[p] = Nil /\ answer'[p] \in {"ok", "failed"}
              \/ at[p] = 0 /\ request'[p] \in Requests /\ at'[p] = 1
              \/ /\ at[p] # 0 /\ request'[p] = request[p]
                 /\ \/ at'[p] = at[p] + 1
                    \/ at'[p] = at[p] + 4 /\ At(p) = "check"
<1>1. CASE HandlerStep(p)
  <2>1. at[p] # 0
    BY <1>1, Walks DEF At
  <2>2. CASE \E a \in {"ok", "failed"} : Answers(p, a)
    BY <2>2 DEF Answers, TypeOK, At
  <2>3. CASE request' = request /\ at' = [at EXCEPT ![p] = at[p] + 1]
    BY <2>1, <2>3 DEF TypeOK, At
  <2>4. CASE request' = request /\ at' = [at EXCEPT ![p] = at[p] + 4] /\ At(p) = "check"
    BY <2>1, <2>4 DEF TypeOK, At
  <2>5. QED
    BY <1>1, <2>2, <2>3, <2>4, Walks
<1>2. CASE \E r \in Requests : Ask(p, r)
  BY <1>2 DEF Ask, TypeOK, At
<1>3. QED
  BY <1>1, <1>2

LEMMA LockedStep == ASSUME IInv, Locked, [Next]_vars PROVE Locked'
<1> USE DEF IInv
<1>1. CASE UNCHANGED vars \/ WriteOutside
  BY <1>1 DEF vars, WriteOutside, cache, handlerVars, Locked, At
<1>2. ASSUME NEW p \in Handlers, NEW r \in Requests, Ask(p, r)
      PROVE  Locked'
  <2>1. writer' = writer /\ at[p] = 0 /\ request'[p] = r /\ at'[p] = 1
    BY <1>2 DEF Ask, cache, TypeOK
  <2>2. At(p) # "discover" /\ At(p)' # "discover"
    BY <2>1, RequestType, AllWell DEF At, Well
  <2>3. QED
    BY <1>2, <2>1, <2>2, Places DEF Locked
<1>3. ASSUME NEW p \in Handlers, HandlerStep(p)
      PROVE  Locked'
  <2>1. /\ Well(request[p].calls) /\ at[p] \in 1..Len(request[p].calls) /\ at[p] \in Nat \ {0}
        /\ At(p) = request[p].calls[at[p]] /\ request[p].calls \in AllCalls
    BY <1>3, Walks, Busy, RequestType
  <2>2. \A q \in Handlers \ {p} : At(q)' = At(q)
    BY <1>3, Places
  <2>3. CASE At(p) = "lock"
    <3>1. writer = Nil /\ writer' = p /\ at'[p] = at[p] + 1
      BY <1>3, <2>3, Walks DEF TypeOK
    <3>2. request'[p] = request[p]
      BY <1>3, <2>1, <3>1, Places
    <3>3. At(p)' = request[p].calls[4] /\ request[p].calls[4] = "discover"
      BY <2>1, <2>3, <3>1, <3>2, Follows DEF At, Well, Before
    <3>4. QED
      BY <2>2, <3>1, <3>3, ContentsAssumption DEF Locked
  <2>4. CASE At(p) = "discover"
    <3>1. writer' = Nil /\ writer = p
      BY <1>3, <2>4, Walks DEF Locked
    <3>2. At(p)' # "discover"
      <4>1. CASE at'[p] = 0
        BY <4>1 DEF At
      <4>2. CASE at'[p] = at[p] + 1 /\ request'[p] = request[p]
        <5>1. at[p] = 4 /\ at'[p] = 5 /\ 5 \in 1..Len(request[p].calls)
          <6>1. at[p] = 4
            BY <2>1, <2>4 DEF Well
          <6>2. at[p] + 1 <= Len(request[p].calls) /\ Len(request[p].calls) \in Nat
            BY <2>1, <2>4, Follows DEF Well, Before
          <6>3. QED
            BY <4>2, <6>1, <6>2
        <5>2. QED
          BY <2>1, <4>2, <5>1 DEF At, Well
      <4>3. QED
        BY <1>3, <2>1, <2>4, <4>1, <4>2, Places
    <3>3. QED
      BY <2>2, <3>1, <3>2, ContentsAssumption DEF Locked
  <2>5. CASE At(p) \notin {"lock", "discover"}
    <3>1. writer' = writer /\ writer # p
      BY <1>3, <2>5, Walks DEF Locked
    <3>2. At(p)' # "discover"
      <4>1. CASE at'[p] = 0
        BY <4>1 DEF At
      <4>2. CASE at'[p] = at[p] + 1 /\ request'[p] = request[p]
        <5> SUFFICES ASSUME At(p)' = "discover" PROVE FALSE
          OBVIOUS
        <5>1. request[p].calls[at[p] + 1] = "discover" /\ IInv'
          BY <1>3, <2>1, <4>2, HandlerStepInv DEF At
        <5>2. at[p] + 1 \in 1..Len(request[p].calls)
          BY <2>1, <4>2, <5>1 DEF TypeOK
        <5>3. request[p].calls[2] = "check" /\ at[p] = 3
          BY <2>1, <5>1, <5>2 DEF Well
        <5>4. QED
          BY <2>1, <2>5, <5>3 DEF Well
      <4>3. CASE at'[p] = at[p] + 4 /\ request'[p] = request[p] /\ At(p) = "check"
        <5>1. at[p] = 2 /\ at'[p] = 6 /\ 6 \in 1..Len(request[p].calls)
          <6>1. at[p] = 2
            BY <2>1, <4>3 DEF Well
          <6>2. at[p] + 4 <= Len(request[p].calls) /\ Len(request[p].calls) \in Nat
            BY <2>1, <4>3, Follows DEF Well
          <6>3. QED
            BY <4>3, <6>1, <6>2
        <5>2. QED
          BY <2>1, <4>3, <5>1 DEF At, Well
      <4>4. QED
        BY <1>3, <2>1, <4>1, <4>2, <4>3, Places
    <3>3. QED
      BY <2>2, <3>1, <3>2 DEF Locked
  <2>6. QED
    BY <2>3, <2>4, <2>5
<1>4. QED
  BY <1>1, <1>2, <1>3 DEF Next

\* The handler that holds the lock of the cache is the one that discovers: it gives
\* the lock back however the discovery ends, so nobody waits for a lock that nobody
\* holds (handler.go:286-305).
THEOREM LockIsHeld == Spec => []Locked
<1>1. Init => Locked
  BY ContentsAssumption DEF Init, Locked, At
<1>2. IInv /\ Locked /\ [Next]_vars => Locked'
  BY LockedStep
<1>3. QED
  BY <1>1, <1>2, Invariance, PTL DEF Spec

LEMMA KnownStep == ASSUME IInv, Known, [Next]_vars PROVE Known'
<1> USE DEF IInv
<1>1. cacheInitialized => UNCHANGED <<cacheInitialized, resourceCache>>
  BY Filled
<1>2. ASSUME NEW q \in Handlers, at'[q] = at[q], request'[q] = request[q],
             request'[q] # Nil, request'[q].calls[2] = "check"
      PROVE  /\ at'[q] >= 5 => cacheInitialized'
             /\ at'[q] >= 6 => Kind \in DOMAIN resourceCache'
  <2>1. at[q] \in Nat
    BY DEF TypeOK
  <2>2. at[q] >= 6 => at[q] >= 5
    BY <2>1
  <2>3. QED
    BY <1>1, <1>2, <2>2 DEF Known
<1>3. CASE UNCHANGED vars \/ WriteOutside
  BY <1>2, <1>3 DEF vars, WriteOutside, handlerVars, Known
<1>4. ASSUME NEW p \in Handlers, NEW r \in Requests, Ask(p, r)
      PROVE  Known'
  <2>1. at'[p] = 1
    BY <1>4 DEF Ask, TypeOK
  <2>2. QED
    BY <1>2, <1>4, <2>1, Places DEF Known
<1>5. ASSUME NEW p \in Handlers, HandlerStep(p)
      PROVE  Known'
  <2> SUFFICES ASSUME request'[p] # Nil, request'[p].calls[2] = "check"
               PROVE  /\ at'[p] >= 5 => cacheInitialized'
                      /\ at'[p] >= 6 => Kind \in DOMAIN resourceCache'
    BY <1>2, <1>5, Places DEF Known
  <2>1. /\ Well(request[p].calls) /\ at[p] \in 1..Len(request[p].calls) /\ at[p] \in Nat \ {0}
        /\ At(p) = request[p].calls[at[p]] /\ request[p] # Nil
    BY <1>5, Walks, Busy
  <2>2. CASE Answers(p, "ok") \/ Answers(p, "failed")
    BY <2>2 DEF Answers, TypeOK
  <2>3. CASE /\ request' = request
             /\ at' = [at EXCEPT ![p] = at[p] + 1]
             /\ At(p) = "discover" => cacheInitialized'
             /\ At(p) = "lookup" => Kind \in DOMAIN resourceCache
    <3>1. at'[p] = at[p] + 1 /\ request'[p] = request[p]
      BY <2>3 DEF TypeOK
    <3>2. CASE at[p] < 4
      BY <2>1, <3>1, <3>2
    <3>3. CASE at[p] = 4
      BY <2>1, <2>3, <3>1, <3>3 DEF Well
    <3>4. CASE at[p] = 5
      <4>1. cacheInitialized /\ At(p) = "lookup"
        BY <2>1, <3>1, <3>4 DEF Known, Well
      <4>2. QED
        BY <1>1, <2>3, <4>1
    <3>5. CASE at[p] > 5
      <4>1. cacheInitialized /\ Kind \in DOMAIN resourceCache
        BY <2>1, <3>1, <3>5 DEF Known
      <4>2. QED
        BY <1>1, <4>1
    <3>6. QED
      BY <2>1, <3>2, <3>3, <3>4, <3>5
  <2>4. CASE cacheInitialized /\ Kind \in DOMAIN resourceCache
    BY <1>1, <2>4
  <2>5. QED
    BY <1>5, <2>2, <2>3, <2>4, Walks
<1>6. QED
  BY <1>3, <1>4, <1>5 DEF Next

\* A handler that has looked its kind up never misses it: the list that serves the
\* kind is in the map when a client is chosen for it, whoever filled the map
\* (handler.go:91-96, 274-333).
THEOREM KindIsKnown == Spec => []Known
<1>1. Init => Known
  BY DEF Init, Known
<1>2. IInv /\ Known /\ [Next]_vars => Known'
  BY KnownStep
<1>3. QED
  BY <1>1, <1>2, Invariance, PTL DEF Spec

\* A request goes through its calls in order, each of them once, and nobody else
\* moves it: as no request has more than seven calls (Well), no retry keeps it from
\* its answer (handler.go:258-333).
THEOREM CallsAdvance == Spec => [][\A p \in Handlers : at[p] # 0 => Advances(p)]_vars
<1> DEFINE Onward == \A p \in Handlers : at[p] # 0 => Advances(p)
<1>1. IInv /\ [Next]_vars => [Onward]_vars
  <2> SUFFICES ASSUME IInv, Next, NEW p \in Handlers, at[p] # 0
               PROVE  Advances(p)
    OBVIOUS
  <2>1. TypeOK /\ at[p] \in Nat
    BY DEF IInv, TypeOK
  <2>2. CASE WriteOutside
    BY <2>2 DEF WriteOutside, handlerVars, Advances
  <2>3. ASSUME NEW q \in Handlers, HandlerStep(q) \/ \E r \in Requests : Ask(q, r)
        PROVE  Advances(p)
    <3>1. CASE q # p
      BY <2>1, <2>3, <3>1, Places DEF Advances
    <3>2. CASE q = p
      BY <2>1, <2>3, <3>2, Places DEF Advances
    <3>3. QED
      BY <3>1, <3>2
  <2>4. QED
    BY <2>2, <2>3 DEF Next
<1>2. QED
  BY <1>1, Invariance, PTL DEF Spec

------------------------------------------------------------------------------
(* The refinement                                                          *)

LEMMA AnswersEnds ==
    ASSUME TypeOK, NEW p \in Handlers, NEW a \in {"ok", "failed"}, Answers(p, a)
    PROVE  Atomic!Ends(p) /\ answer'[p] = a
BY DEF Answers, TypeOK, Atomic!Ends

LEMMA RefuseStep ==
    ASSUME TypeOK, NEW p \in Handlers, At(p) # "none", Answers(p, "failed"), UNCHANGED object
    PROVE  Atomic!Step
BY AnswersEnds, Busy DEF Atomic!Refuse, Atomic!Step

LEMMA EffectStep ==
    ASSUME TypeOK, NEW p \in Handlers, NEW a \in {"ok", "failed"}, At(p) # "none",
           Answers(p, a), object' \in Results(request[p], object)
    PROVE  Atomic!Step
BY AnswersEnds, Busy DEF Atomic!TakeEffect, Atomic!Step

\* A handler that answers "ok" without writing was asked to read, or to create a
\* namespace that is there.
LEMMA QuietOk ==
    ASSUME TypeOK, NEW p \in Handlers, Answers(p, "ok"), UNCHANGED object,
           \/ At(p) \in {"client", "read"} /\ at[p] = Len(request[p].calls)
           \/ At(p) = "probe" /\ object # Nil
    PROVE  Atomic!Step
<1>1. /\ At(p) # "none" /\ Well(request[p].calls) /\ At(p) = request[p].calls[at[p]]
      /\ at[p] \in 1..Len(request[p].calls) /\ object \in Contents \cup {Nil}
  BY Busy DEF TypeOK
<1>2. \/ request[p].calls \in Reading
      \/ request[p].calls = NamespaceCreate /\ object # Nil
  BY <1>1 DEF Well, Before
<1>3. object' \in Results(request[p], object)
  BY <1>1, <1>2 DEF Results
<1>4. QED
  BY <1>1, <1>3, EffectStep

\* A request takes effect at most once, at one moment, on the object as it is then,
\* and is answered "ok" only if it did, for any number of handlers, discoveries and
\* writers (handler.go:68-256, restart.go:60-119, namespace.go:11-22).
THEOREM Refinement == Spec => ObjectContract
<1>1. Init => Atomic!Start
  BY DEF Init, Atomic!Start
<1>2. ASSUME IInv, [Next]_vars
      PROVE  [Atomic!Step]_(Atomic!contract)
  <2>1. CASE UNCHANGED vars
    BY <2>1 DEF vars, handlerVars, Atomic!contract
  <2>2. ASSUME NEW p \in Handlers, NEW r \in Requests, Ask(p, r)
        PROVE  Atomic!Step
    <3>1. request[p] = Nil /\ answer[p] \in Atomic!Ended
      BY <1>2, <2>2 DEF Ask, IInv, TypeOK, Atomic!Ended
    <3>2. request'[p] = r /\ UNCHANGED object
      BY <1>2, <2>2 DEF Ask, IInv, TypeOK
    <3>3. QED
      BY <2>2, <3>1, <3>2 DEF Ask, Atomic!Accept, Atomic!Step
  <2>3. ASSUME NEW p \in Handlers, HandlerStep(p)
        PROVE  [Atomic!Step]_(Atomic!contract)
    <3>1. CASE UpdateObject(p) \/ PatchObject(p) \/ CreateObject(p) \/ DeleteObject(p)
      <4>1. At(p) # "none"
        BY <1>2, <3>1, Writing
      <4>2. CASE Fails(p)
        BY <1>2, <4>1, <4>2, RefuseStep DEF Fails, Ends, IInv
      <4>3. CASE \E n \in Results(request[p], object) : Applies(p, n)
        BY <1>2, <4>1, <4>3, EffectStep DEF Applies, Stores, IInv
      <4>4. QED
        BY <1>2, <3>1, <4>2, <4>3, Writing
    <3>2. CASE Consult(p) \/ Locking(p) \/ Discover(p) \/ GetCurrent(p) \/ Probe(p)
      <4>1. At(p) # "none" /\ UNCHANGED object
        BY <3>2 DEF Consult, Locking, CheckCache, LockCache, LookUp, Discover, GetCurrent, Probe
      <4>2. CASE Answers(p, "failed")
        BY <1>2, <4>1, <4>2, RefuseStep DEF IInv
      <4>3. CASE UNCHANGED <<request, answer>>
        BY <4>1, <4>3 DEF Atomic!contract
      <4>4. CASE Answers(p, "ok")
        <5>1. \/ At(p) \in {"client", "read"} /\ at[p] = Len(request[p].calls)
              \/ At(p) = "probe" /\ object # Nil
              \/ Answers(p, "failed") \/ UNCHANGED <<request, answer>>
          BY <3>2 DEF Consult, Locking, CheckCache, LockCache, LookUp, Discover, GetCurrent,
                      Probe, Ends, GoesOn
        <5>2. QED
          BY <1>2, <4>1, <4>2, <4>3, <4>4, <5>1, QuietOk DEF IInv
      <4>5. QED
        BY <3>2, <4>2, <4>3, <4>4
        DEF Consult, Locking, CheckCache, LockCache, LookUp, Discover, GetCurrent, Probe, Ends,
            GoesOn
    <3>3. QED
      BY <2>3, <3>1, <3>2 DEF HandlerStep
  <2>4. CASE WriteOutside
    <3>1. object' \in Contents \cup {Nil} /\ UNCHANGED <<request, answer>>
      BY <2>4 DEF WriteOutside, Stores, handlerVars
    <3>2. QED
      BY <3>1 DEF Atomic!Outside, Atomic!Step
  <2>5. QED
    BY <1>2, <2>1, <2>2, <2>3, <2>4 DEF Next
<1>3. QED
  BY Invariance, <1>1, <1>2, PTL DEF Spec, ObjectContract, Atomic!Contract
===============================================================================
