-------------------------------- MODULE AIConfig --------------------------------
(***************************************************************************)
(* The AI providers of gwayne and their users:                             *)
(*   pkg/k8sgpt/ai_manager.go   the list of providers, under a RWMutex,    *)
(*   pkg/k8sgpt/diagnostic.go   diagnoses and explanations,                *)
(*   controllers/k8sgpt/*.go    the handlers that call them.               *)
(*                                                                         *)
(* The list is the section "ai" of viper, which is kept in memory and      *)
(* written to a file.  A diagnosis also sets the environment variable      *)
(* KUBECONFIG of the whole process.  The settings of a provider other than *)
(* its name are left out.                                                  *)
(***************************************************************************)
EXTENDS Lists

CONSTANTS
    Providers,  \* names of AI providers
    Handlers,   \* goroutines serving an HTTP request
    TempFiles,  \* paths of temporary kubeconfig files
    Nil

ASSUME AIAssumption == Nil \notin Providers \cup Handlers \cup TempFiles

AIConfiguration == [providers : Seq(Providers), default : Providers \cup {Nil}]

NoProviders == [providers |-> <<>>, default |-> Nil]

VARIABLES
    ai,         \* the section in memory
    file,       \* the section in k8sgpt.yaml
    writer,     \* who called Lock: it waits for readers, or holds the lock
    readers,    \* how many read locks each handler holds
    kubeconfig, \* the environment variable KUBECONFIG
    temps,      \* the temporary files that exist
    pc,         \* where each handler is
    request,    \* what it was asked to do
    seen,       \* the section it read
    saved,      \* the value of KUBECONFIG it has to restore
    temp        \* its temporary file

localVars == <<pc, request, seen, saved, temp>>
vars == <<ai, file, writer, readers, kubeconfig, temps, localVars>>

Operations == {"add", "remove", "default", "explain", "diagnose", "analyse"}

\* "diagnose" is a diagnosis that asks for explanations, "analyse" one that does
\* not.  backend: the provider to write, or the one to ask, Nil for the default;
\* what k8sgpt makes of the backend of a diagnosis is left out.
Request == [op : Operations, backend : Providers \cup {Nil}]

NoRequest == [op |-> "analyse", backend |-> Nil]

Locations ==
    {"idle", "lock", "read", "set", "write", "choose", "explain", "provider", "complete",
     "name", "save", "setenv", "list", "borrow", "analyse", "relist", "return", "restore"}

TypeOK ==
    /\ ai \in AIConfiguration
    /\ file \in AIConfiguration
    /\ writer \in Handlers \cup {Nil}
    /\ readers \in [Handlers -> 0..1]
    /\ kubeconfig \in TempFiles \cup {Nil}
    /\ temps \in SUBSET TempFiles
    /\ pc \in [Handlers -> Locations]
    /\ request \in [Handlers -> Request]
    /\ seen \in [Handlers -> AIConfiguration]
    /\ saved \in [Handlers -> TempFiles \cup {Nil}]
    /\ temp \in [Handlers -> TempFiles \cup {Nil}]

ForAll(v) == [p \in Handlers |-> v]

Init ==
    /\ ai = NoProviders
    /\ file = NoProviders
    /\ writer = Nil
    /\ readers = ForAll(0)
    /\ kubeconfig = Nil
    /\ temps = {}
    /\ pc = ForAll("idle")
    /\ request = ForAll(NoRequest)
    /\ seen = ForAll(NoProviders)
    /\ saved = ForAll(Nil)
    /\ temp = ForAll(Nil)

\* The process ends, killed or by a fatal concurrent access to viper's map, and is
\* started again: ReadInConfig.  The temporary files stay, since only the deferred
\* calls of the diagnoses remove them.
Restart ==
    /\ ai' = file
    /\ writer' = Nil
    /\ readers' = ForAll(0)
    /\ kubeconfig' = Nil
    /\ pc' = ForAll("idle")
    /\ request' = ForAll(NoRequest)
    /\ seen' = ForAll(NoProviders)
    /\ saved' = ForAll(Nil)
    /\ temp' = ForAll(Nil)
    /\ UNCHANGED <<file, temps>>

------------------------------------------------------------------------------
Goes(p, location) == pc' = [pc EXCEPT ![p] = location]

\* The handler answers, with whatever result.
Ends(p) ==
    /\ Goes(p, "idle")
    /\ request' = [request EXCEPT ![p] = NoRequest]
    /\ seen' = [seen EXCEPT ![p] = NoProviders]
    /\ saved' = [saved EXCEPT ![p] = Nil]
    /\ temp' = [temp EXCEPT ![p] = Nil]

Ask(p, r) ==
    /\ pc[p] = "idle"
    /\ r.op \in {"add", "remove", "default"} => r.backend # Nil
    /\ request' = [request EXCEPT ![p] =
           IF r.op \in {"diagnose", "analyse"} THEN [r EXCEPT !.backend = Nil] ELSE r]
    /\ Goes(p, CASE r.op \in {"add", "remove", "default"} -> "lock"
                 [] r.backend = Nil -> "choose"
                 [] r.op = "explain" -> "explain"
                 [] OTHER -> "save")
    /\ UNCHANGED <<ai, file, writer, readers, kubeconfig, temps, seen, saved, temp>>

------------------------------------------------------------------------------
(* AddProvider, RemoveProvider and SetDefaultProvider                      *)

Listed(s) == {s.providers[i] : i \in DOMAIN s.providers}

\* The first provider becomes the default one.
Added(s, n) ==
    IF n \in Listed(s) THEN s
    ELSE [providers |-> Append(s.providers, n),
          default   |-> IF s.providers = <<>> THEN n ELSE s.default]

\* Mutant: the default provider is removed and stays the default.
RemovedOnly(s, n) == [s EXCEPT !.providers = Filter(@, Providers \ {n})]

\* Without its default provider, the list falls back on its first one.
Removed(s, n) ==
    LET rest == Filter(s.providers, Providers \ {n})
    IN [providers |-> rest,
        default   |-> IF s.default # n THEN s.default
                      ELSE IF rest = <<>> THEN Nil ELSE rest[1]]

Changed(r, s) ==
    CASE r.op = "add"     -> Added(s, r.backend)
      [] r.op = "remove"  -> Removed(s, r.backend)
      [] r.op = "default" -> [s EXCEPT !.default = r.backend]

\* Mutant: RLock instead of Lock.
LocksForReading(p) ==
    /\ pc[p] = "lock"
    /\ Goes(p, "read")
    /\ UNCHANGED <<ai, file, writer, readers, kubeconfig, temps, request, seen, saved, temp>>

\* One writer at a time; from here on no new reader comes in.
Lock(p) ==
    /\ pc[p] = "lock"
    /\ writer = Nil
    /\ writer' = p
    /\ Goes(p, "read")
    /\ UNCHANGED <<ai, file, readers, kubeconfig, temps, request, seen, saved, temp>>

\* The readers have left: UnmarshalKey, and the search for the provider.
ReadSection(p) ==
    /\ pc[p] = "read"
    /\ \A q \in Handlers : readers[q] = 0
    /\ \/ /\ request[p].op # "add"
          /\ request[p].backend \notin Listed(ai)
          /\ writer' = Nil
          /\ Ends(p)
       \/ /\ request[p].op # "add" => request[p].backend \in Listed(ai)
          /\ seen' = [seen EXCEPT ![p] = ai]
          /\ Goes(p, "set")
          /\ UNCHANGED <<writer, request, saved, temp>>
    /\ UNCHANGED <<ai, file, readers, kubeconfig, temps>>

\* viper.Set: in memory first.
SetSection(p) ==
    /\ pc[p] = "set"
    /\ ai' = Changed(request[p], seen[p])
    /\ seen' = [seen EXCEPT ![p] = NoProviders]
    /\ request' = [request EXCEPT ![p] = NoRequest]
    /\ Goes(p, "write")
    /\ UNCHANGED <<file, writer, readers, kubeconfig, temps, saved, temp>>

\* viper.WriteConfig writes what is in memory by now.  It may fail to open the
\* file, or after it has truncated it.  Unlock comes either way.
WriteConfig(p) ==
    /\ pc[p] = "write"
    /\ file' \in {ai, file, NoProviders}
    /\ writer' = Nil
    /\ Ends(p)
    /\ UNCHANGED <<ai, readers, kubeconfig, temps>>

------------------------------------------------------------------------------
(* Explain, which diagnoseEventDirectly calls too                          *)

\* ListProviders, to choose a provider: the default one, or the first.  Without
\* one there is no explanation.
ChooseBackend(p) ==
    /\ pc[p] = "choose"
    /\ writer = Nil
    /\ LET chosen == IF ai.default # Nil \/ ai.providers = <<>> THEN ai.default
                     ELSE ai.providers[1]
       IN \/ /\ request[p].op = "explain"
             /\ chosen = Nil
             /\ Ends(p)
          \/ /\ request[p].op = "explain"
             /\ chosen # Nil
             /\ request' = [request EXCEPT ![p].backend = chosen]
             /\ Goes(p, "explain")
             /\ UNCHANGED <<seen, saved, temp>>
          \/ /\ request[p].op # "explain"
             /\ request' = [request EXCEPT ![p].op = IF chosen = Nil THEN "analyse" ELSE @]
             /\ Goes(p, "save")
             /\ UNCHANGED <<seen, saved, temp>>
    /\ UNCHANGED <<ai, file, writer, readers, kubeconfig, temps>>

Explain(p) ==
    /\ pc[p] = "explain"
    /\ writer = Nil
    /\ readers' = [readers EXCEPT ![p] = 1]
    /\ Goes(p, "provider")
    /\ UNCHANGED <<ai, file, writer, kubeconfig, temps, request, seen, saved, temp>>

\* Mutant: GetProvider does not release the lock it takes.
LocksTwice(p) ==
    /\ pc[p] = "provider"
    /\ writer = Nil
    /\ readers' = [readers EXCEPT ![p] = 2]
    /\ Goes(p, "complete")
    /\ UNCHANGED <<ai, file, writer, kubeconfig, temps, request, seen, saved, temp>>

\* GetProvider takes the lock a second time, and releases it.
GetProvider(p) ==
    /\ pc[p] = "provider"
    /\ writer = Nil
    /\ \/ /\ request[p].backend \notin Listed(ai)
          /\ readers' = [readers EXCEPT ![p] = 0]
          /\ Ends(p)
       \/ /\ request[p].backend \in Listed(ai)
          /\ Goes(p, "complete")
          /\ UNCHANGED <<readers, request, seen, saved, temp>>
    /\ UNCHANGED <<ai, file, writer, kubeconfig, temps>>

\* Mutant: the read lock is not released.
KeepsReading(p) ==
    /\ pc[p] = "complete"
    /\ Ends(p)
    /\ UNCHANGED <<ai, file, writer, readers, kubeconfig, temps>>

\* The AI service answers, or fails.
GetCompletion(p) ==
    /\ pc[p] = "complete"
    /\ readers' = [readers EXCEPT ![p] = 0]
    /\ \/ Ends(p)
       \/ Goes(p, "name") /\ UNCHANGED <<request, seen, saved, temp>>
    /\ UNCHANGED <<ai, file, writer, kubeconfig, temps>>

\* An error about the model: GetProvider again, under no other lock, to name it.
NameModel(p) ==
    /\ pc[p] = "name"
    /\ writer = Nil
    /\ Ends(p)
    /\ UNCHANGED <<ai, file, writer, readers, kubeconfig, temps>>

------------------------------------------------------------------------------
(* Diagnose                                                                *)

SaveEnvironment(p) ==
    /\ pc[p] = "save"
    /\ saved' = [saved EXCEPT ![p] = kubeconfig]
    /\ Goes(p, "setenv")
    /\ UNCHANGED <<ai, file, writer, readers, kubeconfig, temps, request, seen, temp>>

Explains(p) == request[p].op = "diagnose"

\* MkdirTemp gives a path nobody has used.
FreshFiles ==
    TempFiles \ (temps \cup {kubeconfig} \cup {saved[p] : p \in Handlers}
                       \cup {temp[p] : p \in Handlers})

\* The temporary file cannot be written; the cluster has a kubeconfig; or it has
\* only the address of its API server, and KUBECONFIG stays as it is.
SetEnvironment(p) ==
    /\ pc[p] = "setenv"
    /\ \/ Ends(p) /\ UNCHANGED <<kubeconfig, temps>>
       \/ /\ \/ /\ FreshFiles # {}
                /\ kubeconfig' = CHOOSE f \in FreshFiles : TRUE
                /\ temp' = [temp EXCEPT ![p] = kubeconfig']
                /\ temps' = temps \cup {kubeconfig'}
             \/ UNCHANGED <<kubeconfig, temps, temp>>
          /\ Goes(p, IF Explains(p) THEN "list" ELSE "analyse")
          /\ UNCHANGED <<request, seen, saved>>
    /\ UNCHANGED <<ai, file, writer, readers>>

\* ListProviders, before the analysis and after it.
ListProviders(p) ==
    /\ pc[p] \in {"list", "relist"}
    /\ writer = Nil
    /\ seen' = [seen EXCEPT ![p] = ai]
    /\ Goes(p, IF pc[p] = "list" THEN "borrow" ELSE "return")
    /\ UNCHANGED <<ai, file, writer, readers, kubeconfig, temps, request, saved, temp>>

\* viper.Set of the converted section, under no lock.
LendSection(p) ==
    /\ pc[p] \in {"borrow", "return"}
    /\ ai' = seen[p]
    /\ seen' = [seen EXCEPT ![p] = NoProviders]
    /\ Goes(p, IF pc[p] = "borrow" THEN "analyse" ELSE "restore")
    /\ UNCHANGED <<file, writer, readers, kubeconfig, temps, request, saved, temp>>

\* The analysis of k8sgpt ends, well or not.
Analyse(p) ==
    /\ pc[p] = "analyse"
    /\ Goes(p, IF Explains(p) THEN "relist" ELSE "restore")
    /\ UNCHANGED <<ai, file, writer, readers, kubeconfig, temps, request, seen, saved, temp>>

\* Mutant: the file that is removed is the one KUBECONFIG names after it was
\* restored.
RemovesRestored(p) ==
    /\ pc[p] = "restore"
    /\ kubeconfig' = saved[p]
    /\ temps' = temps \ {kubeconfig'}
    /\ Ends(p)
    /\ UNCHANGED <<ai, file, writer, readers>>

RestoreEnvironment(p) ==
    /\ pc[p] = "restore"
    /\ kubeconfig' = saved[p]
    /\ temps' = temps \ {temp[p]}
    /\ Ends(p)
    /\ UNCHANGED <<ai, file, writer, readers>>

------------------------------------------------------------------------------
HandlerStep(p) ==
    \/ Lock(p)
    \/ ReadSection(p)
    \/ SetSection(p)
    \/ WriteConfig(p)
    \/ ChooseBackend(p)
    \/ Explain(p)
    \/ GetProvider(p)
    \/ GetCompletion(p)
    \/ NameModel(p)
    \/ SaveEnvironment(p)
    \/ SetEnvironment(p)
    \/ ListProviders(p)
    \/ LendSection(p)
    \/ Analyse(p)
    \/ RestoreEnvironment(p)

Next ==
    \/ \E p \in Handlers : HandlerStep(p) \/ \E r \in Request : Ask(p, r)
    \/ Restart

Spec == Init /\ [][Next]_vars

\* Goroutines run, no goroutine starves at a RWMutex it can take, and k8sgpt and
\* the AI service answer.
FairSpec == Spec /\ \A p \in Handlers : SF_vars(HandlerStep(p))

------------------------------------------------------------------------------
(* Properties                                                              *)

Consistent(s) ==
    /\ s.default = Nil <=> s.providers = <<>>
    /\ s.default # Nil => s.default \in Listed(s)
    /\ \A i, j \in DOMAIN s.providers : s.providers[i] = s.providers[j] => i = j

\* No name is listed twice and the default provider is one of those listed, in
\* memory and in the file, whatever sections diagnoses put back meanwhile and
\* whatever writes fail (ai_manager.go:102-122,160-166,202-215).
DefaultListed == Consistent(ai) /\ Consistent(file)

\* Between the read of a writer and the end of its write nobody changes the
\* section but a diagnosis, and nobody writes the file: two writers do not lose
\* each other's updates (ai_manager.go:92,135,194).
WritersAlone ==
    [][\A p \in Handlers :
          pc[p] \in {"set", "write"} /\ pc'[p] = pc[p] =>
              /\ file' = file
              /\ ai' # ai => \E q \in Handlers :
                     pc[q] \in {"borrow", "return"} /\ pc'[q] # pc[q]]_vars

Users(f) == {p \in Handlers : temp[p] = f}

\* A file comes with one diagnosis, stays with it and goes with it; one that nobody
\* uses stays for good.
FilesKept ==
    \A f \in TempFiles :
        \/ f \in temps /\ f \in temps' /\ Users(f)' = Users(f)
        \/ f \in temps' \ temps /\ \E p \in Handlers : Users(f)' = {p}
        \/ f \in temps \ temps' /\ Users(f)' = {} /\ \E p \in Handlers : Users(f) = {p}
        \/ f \notin temps \cup temps' /\ Users(f)' = {}

\* As long as the process lives every temporary kubeconfig has one diagnosis, which
\* removes it whatever fails, and nobody else's: only a kill leaves a file without
\* a user, and nothing uses or removes it then (diagnostic.go:161-205).
FilesGoWithTheirUsers == [][FilesKept \/ Restart]_vars

\* A reader waits for a writer that waits for that reader.
Embraced == writer # Nil /\ \E p \in Handlers : pc[p] = "provider"

\* Every call ends, unless an Explain meets a writer between its two read locks:
\* nothing else holds the configuration up (ai_manager.go:90-325).
CallsEnd == \A p \in Handlers : pc[p] # "idle" ~> pc[p] = "idle" \/ Embraced

------------------------------------------------------------------------------
(* What a comment of the source says, and the code does not do             *)

\* diagnostic.go:188, the variables of the environment are restored.
EnvironmentRestored ==
    (\A p \in Handlers : saved[p] = Nil /\ temp[p] = Nil) => kubeconfig = Nil

================================================================================
