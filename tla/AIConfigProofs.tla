----------------------------- MODULE AIConfigProofs -----------------------------
(***************************************************************************)
(* Proofs about AIConfig: writers of the section exclude each other         *)
(* (Mutex) and readers (Excluded), a temporary file that is in use exists    *)
(* and has one user, the diagnosis that made it (Owned), and every section    *)
(* that is somewhere or on its way is consistent (Sections).  What RemoveProvider leaves is     *)
(* what ListsProofs proves about Filter.                                   *)
(***************************************************************************)
EXTENDS AIConfig, ListsProofs

Shape ==
    /\ writer \in Handlers \cup {Nil}
    /\ pc \in [Handlers -> Locations]
    /\ temps \in SUBSET TempFiles
    /\ temp \in [Handlers -> TempFiles \cup {Nil}]

Writing == {"read", "set", "write"}

Diagnosing == {"list", "borrow", "analyse", "relist", "return", "restore"}

\* Who reads the section to change it, or has changed it, holds the lock.
Mutex == \A p \in Handlers : pc[p] \in Writing => writer = p

\* Only a diagnosis has a temporary file, from when it has set the environment; the
\* file exists, and no other diagnosis has it.
Owned ==
    \A p \in Handlers :
        /\ pc[p] \notin Diagnosing => temp[p] = Nil
        /\ temp[p] # Nil => temp[p] \in temps
        /\ \A q \in Handlers : temp[p] # Nil /\ temp[p] = temp[q] => p = q

IInv == Shape /\ Mutex /\ Owned

------------------------------------------------------------------------------
LEMMA InitInv == Init => IInv
BY AIAssumption DEF Init, ForAll, IInv, Shape, Mutex, Owned, Locations, Writing

LEMMA RestartInv == ASSUME IInv, Restart PROVE IInv'
BY AIAssumption DEF Restart, ForAll, IInv, Shape, Mutex, Owned, Locations, Writing

\* A step of one handler.
LEMMA HandlerInv ==
    ASSUME IInv, NEW p \in Handlers, NEW l \in Locations, Goes(p, l),
           NEW t \in TempFiles \cup {Nil}, temp' = [temp EXCEPT ![p] = t],
           \/ t = temp[p] /\ temps' = temps
           \/ t \in TempFiles \ temps /\ temp[p] = Nil /\ temps' = temps \cup {t}
           \/ t = Nil /\ temps' = temps \ {temp[p]},
           l \notin Diagnosing => t = Nil,
           \/ writer' = writer /\ (l \in Writing => pc[p] \in Writing)
           \/ writer = Nil /\ writer' = p
           \/ pc[p] \in Writing /\ l \notin Writing /\ writer' = Nil
    PROVE  IInv' /\ FilesKept
<1>1. \A q \in Handlers :
          /\ pc'[q] = IF q = p THEN l ELSE pc[q]
          /\ temp'[q] = IF q = p THEN t ELSE temp[q]
  BY DEF IInv, Shape, Goes
<1>2. Shape'
  BY DEF IInv, Shape, Goes, Mutex
<1>3. Mutex'
  BY <1>1, AIAssumption DEF IInv, Mutex
<1>4. Owned'
  BY <1>1 DEF IInv, Shape, Owned
<1>5. FilesKept
  <2> SUFFICES ASSUME NEW f \in TempFiles
               PROVE  \/ f \in temps /\ f \in temps' /\ Users(f)' = Users(f)
                      \/ f \in temps' \ temps /\ \E q \in Handlers : Users(f)' = {q}
                      \/ f \in temps \ temps' /\ Users(f)' = {} /\ \E q \in Handlers : Users(f) = {q}
                      \/ f \notin temps \cup temps' /\ Users(f)' = {}
    BY DEF FilesKept
  <2>1. f # Nil /\ (f \notin temps => Users(f) = {})
    BY AIAssumption DEF IInv, Owned, Users
  <2>2. CASE t = temp[p] /\ temps' = temps
    <3>1. Users(f)' = Users(f)
      BY <1>1, <2>2 DEF Users
    <3>2. QED
      BY <2>1, <2>2, <3>1
  <2>3. CASE t \in TempFiles \ temps /\ temp[p] = Nil /\ temps' = temps \cup {t}
    <3>1. CASE f = t
      <4>1. Users(f)' = {p}
        BY <1>1, <2>1, <2>3, <3>1 DEF Users
      <4>2. QED
        BY <2>3, <3>1, <4>1
    <3>2. CASE f # t
      <4>1. Users(f)' = Users(f)
        BY <1>1, <2>1, <2>3, <3>2 DEF Users
      <4>2. QED
        BY <2>1, <2>3, <3>2, <4>1
    <3>3. QED
      BY <3>1, <3>2
  <2>4. CASE t = Nil /\ temps' = temps \ {temp[p]}
    <3>1. CASE f = temp[p]
      <4>1. f \in temps /\ f \notin temps' /\ Users(f) = {p}
        BY <2>1, <2>4, <3>1 DEF IInv, Owned, Users
      <4>2. Users(f)' = {}
        BY <1>1, <2>1, <2>4, <4>1 DEF Users
      <4>3. QED
        BY <4>1, <4>2
    <3>2. CASE f # temp[p]
      <4>1. Users(f)' = Users(f)
        BY <1>1, <2>1, <2>4, <3>2 DEF Users
      <4>2. QED
        BY <2>1, <2>4, <3>2, <4>1
    <3>3. QED
      BY <3>1, <3>2
  <2>5. QED
    BY <2>2, <2>3, <2>4
<1>6. QED
  BY <1>2, <1>3, <1>4, <1>5 DEF IInv

\* A handler answers, and lets go of whatever it has.
LEMMA EndsInv ==
    ASSUME IInv, NEW p \in Handlers, Ends(p),
           \/ temps' = temps /\ pc[p] \notin Diagnosing
           \/ temps' = temps \ {temp[p]},
           \/ writer' = writer
           \/ pc[p] \in Writing /\ writer' = Nil
    PROVE  IInv' /\ FilesKept
<1>1. /\ Goes(p, "idle") /\ temp' = [temp EXCEPT ![p] = Nil]
      /\ "idle" \in Locations /\ "idle" \notin Diagnosing /\ "idle" \notin Writing
  BY DEF Ends, Locations, Diagnosing, Writing
<1>2. pc[p] \notin Diagnosing => Nil = temp[p]
  BY DEF IInv, Owned
<1> DEFINE l == "idle"
           t == Nil
<1>3. /\ l \in Locations /\ l \notin Diagnosing /\ l \notin Writing /\ Goes(p, l)
      /\ t \in TempFiles \cup {Nil} /\ t = Nil /\ temp' = [temp EXCEPT ![p] = t]
  BY <1>1
<1> HIDE DEF l, t
<1>4. QED
  BY <1>2, <1>3, HandlerInv

\* It goes on with the file that it has, if any.
LEMMA GoesInv ==
    ASSUME IInv, NEW p \in Handlers, NEW l \in Locations, Goes(p, l),
           UNCHANGED <<temp, temps>>, pc[p] \in Diagnosing => l \in Diagnosing,
           \/ writer' = writer /\ (l \in Writing => pc[p] \in Writing)
           \/ writer = Nil /\ writer' = p
    PROVE  IInv' /\ FilesKept
<1>1. /\ temp[p] \in TempFiles \cup {Nil} /\ temp' = [temp EXCEPT ![p] = temp[p]]
      /\ (l \notin Diagnosing => temp[p] = Nil)
  BY DEF IInv, Shape, Owned
<1> DEFINE t == temp[p]
<1>2. /\ t \in TempFiles \cup {Nil} /\ temp' = [temp EXCEPT ![p] = t] /\ t = temp[p]
      /\ (l \notin Diagnosing => t = Nil)
  BY <1>1
<1> HIDE DEF t
<1>3. QED
  BY <1>2, HandlerInv

LEMMA AskInv == ASSUME IInv, NEW p \in Handlers, NEW r \in Request, Ask(p, r) PROVE IInv' /\ FilesKept
<1>1. pc[p] = "idle" /\ UNCHANGED <<temp, temps, writer>>
  BY DEF Ask
<1>2. PICK l \in {"lock", "choose", "explain", "save"} : Goes(p, l)
  <2>1. CASE r.op \in {"add", "remove", "default"}
    BY <2>1 DEF Ask
  <2>2. CASE r.op \notin {"add", "remove", "default"} /\ r.backend = Nil
    BY <2>2 DEF Ask
  <2>3. CASE r.op = "explain" /\ r.backend # Nil
    BY <2>3 DEF Ask
  <2>4. CASE r.op \notin {"add", "remove", "default", "explain"} /\ r.backend # Nil
    BY <2>4 DEF Ask
  <2>5. QED
    BY <2>1, <2>2, <2>3, <2>4
<1>3. l \in Locations /\ l \notin Writing /\ pc[p] \notin Diagnosing
  BY <1>1 DEF Locations, Writing, Diagnosing
<1>4. QED
  BY <1>1, <1>2, <1>3, GoesInv

\* AddProvider, RemoveProvider, SetDefaultProvider.
LEMMA WriterInv ==
    ASSUME IInv, NEW p \in Handlers,
           Lock(p) \/ ReadSection(p) \/ SetSection(p) \/ WriteConfig(p)
    PROVE  IInv' /\ FilesKept
<1>1. pc[p] \in {"lock"} \cup Writing /\ pc[p] \notin Diagnosing
  BY DEF Lock, ReadSection, SetSection, WriteConfig, Writing, Diagnosing
<1>2. CASE Ends(p) /\ writer' = Nil /\ temps' = temps /\ pc[p] \in Writing
  BY <1>1, <1>2, EndsInv
<1>3. CASE /\ Goes(p, "read") \/ Goes(p, "set") \/ Goes(p, "write")
           /\ UNCHANGED <<temp, temps>>
           /\ \/ writer' = writer /\ pc[p] \in Writing
              \/ writer = Nil /\ writer' = p
  <2>1. PICK l \in {"read", "set", "write"} : Goes(p, l)
    BY <1>3
  <2>2. l \in Locations
    BY DEF Locations
  <2>3. QED
    BY <1>1, <1>3, <2>1, <2>2, GoesInv
<1>4. QED
  BY <1>2, <1>3 DEF Lock, ReadSection, SetSection, WriteConfig, Writing

\* Explain, and the choice of a provider.
LEMMA ExplainInv ==
    ASSUME IInv, NEW p \in Handlers,
           \/ ChooseBackend(p) \/ Explain(p) \/ GetProvider(p)
           \/ GetCompletion(p) \/ NameModel(p)
    PROVE  IInv' /\ FilesKept
<1>1. pc[p] \notin Diagnosing /\ UNCHANGED <<temps, writer>>
  BY DEF ChooseBackend, Explain, GetProvider, GetCompletion, NameModel, Diagnosing
<1>2. CASE Ends(p)
  BY <1>1, <1>2, EndsInv
<1>3. CASE ~ Ends(p)
  <2>1. PICK l \in {"explain", "save", "provider", "complete", "name"} : Goes(p, l)
    BY <1>3 DEF ChooseBackend, Explain, GetProvider, GetCompletion, NameModel
  <2>2. UNCHANGED temp
    BY <1>3 DEF ChooseBackend, Explain, GetProvider, GetCompletion, NameModel
  <2>3. l \in Locations /\ l \notin Writing
    BY DEF Locations, Writing
  <2>4. QED
    BY <1>1, <2>1, <2>2, <2>3, GoesInv
<1>4. QED
  BY <1>2, <1>3

LEMMA SetEnvironmentInv == ASSUME IInv, NEW p \in Handlers, SetEnvironment(p) PROVE IInv' /\ FilesKept
<1>1. pc[p] = "setenv" /\ pc[p] \notin Diagnosing /\ writer' = writer
  BY DEF SetEnvironment, Diagnosing
<1>2. CASE Ends(p) /\ temps' = temps
  BY <1>1, <1>2, EndsInv
<1>3. CASE ~ (Ends(p) /\ temps' = temps)
  <2>1. PICK l \in {"list", "analyse"} : Goes(p, l)
    BY <1>3 DEF SetEnvironment
  <2>2. l \in Locations /\ l \in Diagnosing /\ l \notin Writing
    BY DEF Locations, Diagnosing, Writing
  <2>3. CASE UNCHANGED <<temps, temp>>
    BY <1>1, <2>1, <2>2, <2>3, GoesInv
  <2>4. CASE ~ UNCHANGED <<temps, temp>>
    <3>1. FreshFiles # {} /\ kubeconfig' = CHOOSE f \in FreshFiles : TRUE
      BY <1>3, <2>4 DEF SetEnvironment
    <3>2. kubeconfig' \in TempFiles \ temps
      BY <3>1 DEF FreshFiles
    <3>3. temp' = [temp EXCEPT ![p] = kubeconfig'] /\ temps' = temps \cup {kubeconfig'}
      BY <1>3, <2>4 DEF SetEnvironment
    <3>4. temp[p] = Nil
      BY <1>1 DEF IInv, Owned
    <3> DEFINE t == kubeconfig'
    <3>5. t \in TempFiles \ temps /\ temp' = [temp EXCEPT ![p] = t] /\ temps' = temps \cup {t}
      BY <3>2, <3>3
    <3> HIDE DEF t
    <3>6. QED
      BY <1>1, <2>1, <2>2, <3>4, <3>5, HandlerInv
  <2>5. QED
    BY <2>3, <2>4
<1>4. QED
  BY <1>2, <1>3

LEMMA DiagnoseInv ==
    ASSUME IInv, NEW p \in Handlers,
           SaveEnvironment(p) \/ ListProviders(p) \/ LendSection(p) \/ Analyse(p)
    PROVE  IInv' /\ FilesKept
<1>1. UNCHANGED <<temp, temps, writer>>
  BY DEF SaveEnvironment, ListProviders, LendSection, Analyse
<1>2. PICK l \in {"setenv"} \cup Diagnosing :
          /\ Goes(p, l)
          /\ pc[p] \in Diagnosing => l \in Diagnosing
  BY DEF SaveEnvironment, ListProviders, LendSection, Analyse, Diagnosing
<1>3. l \in Locations /\ l \notin Writing
  BY DEF Locations, Writing, Diagnosing
<1>4. QED
  BY <1>1, <1>2, <1>3, GoesInv

LEMMA RestoreInv == ASSUME IInv, NEW p \in Handlers, RestoreEnvironment(p) PROVE IInv' /\ FilesKept
BY EndsInv DEF RestoreEnvironment

LEMMA StepInv == IInv /\ [Next]_vars => IInv' /\ [FilesKept \/ Restart]_vars
<1> SUFFICES ASSUME IInv, [Next]_vars PROVE IInv' /\ [FilesKept \/ Restart]_vars
  OBVIOUS
<1>1. CASE UNCHANGED vars
  BY <1>1 DEF vars, localVars, IInv, Shape, Mutex, Owned
<1>2. CASE Next
  BY <1>2, RestartInv, AskInv, WriterInv, ExplainInv, SetEnvironmentInv, DiagnoseInv, RestoreInv
  DEF Next, HandlerStep
<1>3. QED
  BY <1>1, <1>2

------------------------------------------------------------------------------
(* What is listed                                                          *)

Changes == {"add", "remove", "default"}

\* An Explain holds the lock for reading.
Inside == {"provider", "complete"}

\* Every section that is somewhere, or on its way, is consistent.
Sections == Consistent(ai) /\ Consistent(file) /\ \A p \in Handlers : Consistent(seen[p])

\* Only a writer comes to "set", and with a provider that is there unless it adds it.
Requested ==
    \A p \in Handlers :
        /\ pc[p] \in {"lock", "read", "set"} =>
               request[p].op \in Changes /\ request[p].backend # Nil
        /\ pc[p] = "set" /\ request[p].op # "add" => request[p].backend \in Listed(seen[p])

Reading == \A p \in Handlers : readers[p] = IF pc[p] \in Inside THEN 1 ELSE 0

\* Who changes the section excludes who reads it.
Excluded == \A p, q \in Handlers : pc[p] \in {"set", "write"} => pc[q] \notin Inside

Held == writer # Nil => pc[writer] \in Writing

Contents == TypeOK /\ Sections /\ Requested /\ Reading /\ Excluded /\ Held

LEMMA EmptyConsistent == NoProviders \in AIConfiguration /\ Consistent(NoProviders)
BY DEF NoProviders, AIConfiguration, Consistent, Listed

\* The first provider becomes the default; another one changes nothing else.
LEMMA AddedConsistent ==
    ASSUME NEW s \in AIConfiguration, Consistent(s), NEW n \in Providers
    PROVE  Added(s, n) \in AIConfiguration /\ Consistent(Added(s, n))
<1> DEFINE l == s.providers
           t == Append(l, n)
           d == IF l = <<>> THEN n ELSE s.default
<1>1. l \in Seq(Providers) /\ s.default \in Providers \cup {Nil} /\ n # Nil
  BY AIAssumption DEF AIConfiguration
<1>2. CASE n \in Listed(s)
  BY <1>2 DEF Added
<1>3. CASE n \notin Listed(s)
  <2>1. Added(s, n) = [providers |-> t, default |-> d]
    BY <1>3 DEF Added
  <2>2. /\ t \in Seq(Providers) /\ t # <<>>
        /\ Len(l) \in Nat /\ DOMAIN l = 1..Len(l) /\ DOMAIN t = 1..(Len(l) + 1)
        /\ t[Len(l) + 1] = n /\ \A i \in 1..Len(l) : t[i] = l[i]
    BY <1>1
  <2>3. d \in Providers
    BY <1>1 DEF Consistent
  <2>4. Added(s, n) \in AIConfiguration
    BY <2>1, <2>2, <2>3 DEF AIConfiguration
  <2>5. \A i \in DOMAIN l : l[i] # n
    BY <1>3 DEF Listed
  <2>6. \A i, j \in DOMAIN l : l[i] = l[j] => i = j
    BY DEF Consistent
  <2>7. \E i \in DOMAIN t : t[i] = d
    <3>1. CASE l = <<>>
      BY <2>2, <3>1
    <3>2. CASE l # <<>>
      <4>1. PICK i \in DOMAIN l : l[i] = d
        BY <1>1, <3>2 DEF Consistent, Listed
      <4>2. QED
        BY <2>2, <4>1
    <3>3. QED
      BY <3>1, <3>2
  <2> HIDE DEF t, l, d
  <2>8. ASSUME NEW i \in DOMAIN t, NEW j \in DOMAIN t, t[i] = t[j] PROVE i = j
    <3>1. CASE i \in 1..Len(l) /\ j \in 1..Len(l)
      BY <2>2, <2>6, <2>8, <3>1
    <3>2. CASE i \in 1..Len(l) /\ j = Len(l) + 1
      BY <2>2, <2>5, <2>8, <3>2
    <3>3. CASE i = Len(l) + 1 /\ j \in 1..Len(l)
      BY <2>2, <2>5, <2>8, <3>3
    <3>4. QED
      BY <2>2, <3>1, <3>2, <3>3
  <2>9. d # Nil
    BY <2>3, AIAssumption
  <2>10. QED
    BY <2>1, <2>2, <2>4, <2>7, <2>8, <2>9 DEF Consistent, Listed
<1>4. QED
  BY <1>2, <1>3

\* The default is replaced when it goes, and when it was the last one.
LEMMA RemovedConsistent ==
    ASSUME NEW s \in AIConfiguration, Consistent(s), NEW n \in Providers
    PROVE  Removed(s, n) \in AIConfiguration /\ Consistent(Removed(s, n))
<1> DEFINE l == s.providers
           rest == Filter(l, Providers \ {n})
           d == IF s.default # n THEN s.default ELSE IF rest = <<>> THEN Nil ELSE rest[1]
<1>1. l \in Seq(Providers) /\ s.default \in Providers \cup {Nil} /\ n # Nil
  BY AIAssumption DEF AIConfiguration
<1>2. Removed(s, n) = [providers |-> rest, default |-> d]
  BY DEF Removed
<1>3. /\ \A i, j \in DOMAIN l : l[i] = l[j] => i = j
      /\ s.default = Nil <=> l = <<>>
      /\ s.default # Nil => s.default \in {l[i] : i \in DOMAIN l}
  BY DEF Consistent, Listed
<1> HIDE DEF l
<1> DEFINE S == Providers \ {n}
           r == Filter(l, S)
<1>4. r \in Seq(Providers \cap S)
  BY <1>1, FilterType
<1>5. {r[i] : i \in DOMAIN r} = {l[i] : i \in DOMAIN l} \cap S
  <2>1. Elements(r) = Elements(l) \cap S
    BY <1>1, FilterElements
  <2>2. QED
    BY <2>1 DEF Elements
<1>6. \A i, j \in DOMAIN r : r[i] = r[j] => i = j
  BY <1>1, <1>3, FilterDistinct
<1>7. rest = r
  OBVIOUS
<1> HIDE DEF rest, r
<1>8. rest \in Seq(Providers)
  BY <1>4, <1>7
<1>9. rest # <<>> => 1 \in DOMAIN rest /\ rest[1] \in Providers
  BY <1>8
<1>10. rest = <<>> <=> {rest[i] : i \in DOMAIN rest} = {}
  BY <1>8, <1>9
<1>11. d \in Providers \cup {Nil} /\ (d = Nil <=> rest = <<>>)
  <2>1. CASE s.default = Nil
    <3>1. {l[i] : i \in DOMAIN l} = {}
      BY <1>3, <2>1
    <3>2. rest = <<>> /\ d = Nil
      BY <1>1, <1>5, <1>7, <1>10, <2>1, <3>1
    <3>3. QED
      BY <3>2
  <2>2. CASE s.default = n
    BY <1>1, <1>9, <2>2, AIAssumption
  <2>3. CASE s.default # n /\ s.default # Nil
    <3>1. s.default \in {rest[i] : i \in DOMAIN rest}
      BY <1>1, <1>3, <1>5, <1>7, <2>3
    <3>2. QED
      BY <1>1, <1>10, <2>3, <3>1
  <2>4. QED
    BY <2>1, <2>2, <2>3
<1>12. d # Nil => d \in {rest[i] : i \in DOMAIN rest}
  <2>1. CASE s.default = n
    BY <1>9, <1>11, <2>1
  <2>2. CASE s.default # n /\ s.default # Nil
    BY <1>1, <1>3, <1>5, <1>7, <2>2
  <2>3. QED
    BY <2>1, <2>2
<1> HIDE DEF d
<1>13. Removed(s, n) \in AIConfiguration
  BY <1>2, <1>8, <1>11 DEF AIConfiguration
<1>14. QED
  BY <1>2, <1>6, <1>7, <1>11, <1>12, <1>13 DEF Consistent, Listed

\* What a writer sets is consistent if what it has read is.
LEMMA ChangedConsistent ==
    ASSUME NEW s \in AIConfiguration, Consistent(s), NEW r \in Request,
           r.op \in Changes, r.backend # Nil, r.op # "add" => r.backend \in Listed(s)
    PROVE  Changed(r, s) \in AIConfiguration /\ Consistent(Changed(r, s))
<1>1. r.backend \in Providers
  BY DEF Request
<1>2. CASE r.op = "add"
  <2>1. Changed(r, s) = Added(s, r.backend)
    BY <1>2 DEF Changed
  <2>2. QED
    BY <1>1, <2>1, AddedConsistent
<1>3. CASE r.op = "remove"
  <2>1. Changed(r, s) = Removed(s, r.backend)
    BY <1>3 DEF Changed
  <2>2. QED
    BY <1>1, <2>1, RemovedConsistent
<1>4. CASE r.op = "default"
  <2>1. Changed(r, s) = [s EXCEPT !.default = r.backend]
    BY <1>4 DEF Changed
  <2>2. /\ Changed(r, s) = [providers |-> s.providers, default |-> r.backend]
        /\ s.providers \in Seq(Providers)
    BY <2>1 DEF AIConfiguration
  <2>3. r.backend \in Listed(s)
    BY <1>4
  <2>4. s.providers # <<>>
    BY <2>3 DEF Listed
  <2>5. QED
    BY <1>1, <2>2, <2>3, <2>4, AIAssumption DEF AIConfiguration, Consistent, Listed
<1>5. QED
  BY <1>2, <1>3, <1>4 DEF Changes

------------------------------------------------------------------------------
(* Contents is inductive                                                   *)

LEMMA InitContents == Init => Contents
BY EmptyConsistent, AIAssumption
DEF Init, ForAll, Contents, TypeOK, Sections, Requested, Reading, Excluded, Held, Locations,
    Inside, Writing, NoRequest, Request, Operations

\* What is in the file is in memory again.
LEMMA RestartContents == ASSUME Contents, Restart PROVE Contents'
BY EmptyConsistent, AIAssumption
DEF Restart, ForAll, Contents, TypeOK, Sections, Requested, Reading, Excluded, Held, Locations,
    Inside, Writing, NoRequest, Request, Operations

\* A step of one handler.
LEMMA HandlerContents ==
    ASSUME IInv, Contents, NEW p \in Handlers, NEW l \in Locations, Goes(p, l),
           NEW r \in Request, request' = [request EXCEPT ![p] = r],
           NEW s \in AIConfiguration, Consistent(s), seen' = [seen EXCEPT ![p] = s],
           l \in {"lock", "read", "set"} => r.op \in Changes /\ r.backend # Nil,
           l = "set" /\ r.op # "add" => r.backend \in Listed(s),
           readers' = [readers EXCEPT ![p] = IF l \in Inside THEN 1 ELSE 0],
           l \in {"set", "write"} => \A q \in Handlers : pc[q] \notin Inside,
           l \in Inside => pc[p] \in Inside \/ writer = Nil,
           \/ writer' = writer /\ (l \in Writing <=> pc[p] \in Writing)
           \/ writer' = p /\ l \in Writing
           \/ writer' = Nil,
           ai' \in AIConfiguration, Consistent(ai'), file' \in AIConfiguration, Consistent(file'),
           kubeconfig' \in TempFiles \cup {Nil}, temps' \in SUBSET TempFiles,
           NEW v \in TempFiles \cup {Nil}, saved' = [saved EXCEPT ![p] = v],
           NEW t \in TempFiles \cup {Nil}, temp' = [temp EXCEPT ![p] = t]
    PROVE  Contents'
<1>1. TypeOK'
  BY DEF Contents, TypeOK, Goes, Inside
<1>2. \A q \in Handlers :
          /\ pc'[q] = IF q = p THEN l ELSE pc[q]
          /\ request'[q] = IF q = p THEN r ELSE request[q]
          /\ seen'[q] = IF q = p THEN s ELSE seen[q]
          /\ readers'[q] = IF q = p THEN IF l \in Inside THEN 1 ELSE 0 ELSE readers[q]
  BY DEF Contents, TypeOK, Goes
<1>3. Sections'
  BY <1>2 DEF Contents, Sections
<1>4. Requested'
  BY <1>2 DEF Contents, Requested
<1>5. Reading'
  BY <1>2 DEF Contents, Reading
<1>6. Excluded'
  <2> SUFFICES ASSUME NEW q \in Handlers, NEW q1 \in Handlers,
                      pc'[q] \in {"set", "write"}, pc'[q1] \in Inside
               PROVE  FALSE
    BY DEF Excluded
  <2>1. q # q1
    BY DEF Inside
  <2>2. CASE q = p
    BY <1>2, <2>1, <2>2
  <2>3. CASE q # p /\ q1 = p
    <3>1. pc[q] \in {"set", "write"} /\ writer = q
      BY <1>2, <2>3 DEF IInv, Mutex, Writing
    <3>2. l \in Inside /\ writer # Nil
      BY <1>2, <2>3, <3>1, AIAssumption
    <3>3. pc[p] \notin Inside
      BY <3>1 DEF Contents, Excluded
    <3>4. QED
      BY <3>2, <3>3
  <2>4. CASE q # p /\ q1 # p
    BY <1>2, <2>4 DEF Contents, Excluded
  <2>5. QED
    BY <2>2, <2>3, <2>4
<1>7. Held'
  <2> SUFFICES ASSUME writer' # Nil PROVE pc'[writer'] \in Writing
    BY DEF Held
  <2>1. writer \in Handlers \cup {Nil}
    BY DEF Contents, TypeOK
  <2>2. CASE writer' = writer /\ (l \in Writing <=> pc[p] \in Writing)
    BY <1>2, <2>1, <2>2 DEF Contents, Held
  <2>3. CASE writer' = p /\ l \in Writing
    BY <1>2, <2>3
  <2>4. QED
    BY <2>2, <2>3
<1>8. QED
  BY <1>1, <1>3, <1>4, <1>5, <1>6, <1>7 DEF Contents

LEMMA EndsContents ==
    ASSUME IInv, Contents, NEW p \in Handlers, Ends(p),
           \/ UNCHANGED readers /\ pc[p] \notin Inside
           \/ readers' = [readers EXCEPT ![p] = 0],
           writer' = Nil \/ (writer' = writer /\ pc[p] \notin Writing),
           UNCHANGED ai, file' \in {ai, file, NoProviders},
           kubeconfig' \in TempFiles \cup {Nil}, temps' \in SUBSET TempFiles
    PROVE  Contents'
<1> DEFINE l == "idle"
           r == NoRequest
           s == NoProviders
           v == Nil
           t == Nil
<1>1. /\ l \in Locations \ (Inside \cup Writing) /\ l \notin {"lock", "read", "set", "write"}
      /\ Goes(p, l)
      /\ r \in Request /\ request' = [request EXCEPT ![p] = r]
      /\ s \in AIConfiguration /\ Consistent(s) /\ seen' = [seen EXCEPT ![p] = s]
      /\ v \in TempFiles \cup {Nil} /\ saved' = [saved EXCEPT ![p] = v]
      /\ t \in TempFiles \cup {Nil} /\ temp' = [temp EXCEPT ![p] = t]
  BY EmptyConsistent
  DEF Ends, Locations, Inside, Writing, NoRequest, Request, Operations
<1>2. readers' = [readers EXCEPT ![p] = 0]
  BY DEF Contents, TypeOK, Reading
<1>3. /\ ai' \in AIConfiguration /\ Consistent(ai')
      /\ file' \in AIConfiguration /\ Consistent(file')
  BY EmptyConsistent DEF Contents, TypeOK, Sections
<1> HIDE DEF l, r, s, v, t
<1>4. readers' = [readers EXCEPT ![p] = IF l \in Inside THEN 1 ELSE 0]
  BY <1>1, <1>2
<1>5. QED
  BY <1>1, <1>3, <1>4, HandlerContents

\* It goes on, with what it was asked to do.
LEMMA GoesContents ==
    ASSUME IInv, Contents, NEW p \in Handlers, NEW l \in Locations \ {"set"}, Goes(p, l),
           NEW r \in Request, request' = [request EXCEPT ![p] = r],
           \/ UNCHANGED seen
           \/ seen' = [seen EXCEPT ![p] = ai]
           \/ seen' = [seen EXCEPT ![p] = NoProviders],
           l \in {"lock", "read"} => r.op \in Changes /\ r.backend # Nil,
           readers' = [readers EXCEPT ![p] = IF l \in Inside THEN 1 ELSE 0],
           l = "write" => \A q \in Handlers : pc[q] \notin Inside,
           l \in Inside => pc[p] \in Inside \/ writer = Nil,
           \/ writer' = writer /\ (l \in Writing <=> pc[p] \in Writing)
           \/ writer' = p /\ l \in Writing,
           UNCHANGED file, ai' \in AIConfiguration, Consistent(ai'),
           kubeconfig' \in TempFiles \cup {Nil}, temps' \in SUBSET TempFiles,
           UNCHANGED saved \/ saved' = [saved EXCEPT ![p] = kubeconfig],
           UNCHANGED temp \/ temp' = [temp EXCEPT ![p] = kubeconfig']
    PROVE  Contents'
<1>1. PICK s \in AIConfiguration : Consistent(s) /\ seen' = [seen EXCEPT ![p] = s]
  <2>1. seen' = [seen EXCEPT ![p] = seen[p]] \/ seen' = [seen EXCEPT ![p] = ai]
          \/ seen' = [seen EXCEPT ![p] = NoProviders]
    BY DEF Contents, TypeOK
  <2>2. /\ seen[p] \in AIConfiguration /\ Consistent(seen[p])
        /\ ai \in AIConfiguration /\ Consistent(ai)
    BY DEF Contents, TypeOK, Sections
  <2>3. QED
    BY <2>1, <2>2, EmptyConsistent
<1>2. PICK v \in TempFiles \cup {Nil} : saved' = [saved EXCEPT ![p] = v]
  <2>1. saved' = [saved EXCEPT ![p] = saved[p]] \/ saved' = [saved EXCEPT ![p] = kubeconfig]
    BY DEF Contents, TypeOK
  <2>2. QED
    BY <2>1 DEF Contents, TypeOK
<1>3. PICK t \in TempFiles \cup {Nil} : temp' = [temp EXCEPT ![p] = t]
  <2>1. temp' = [temp EXCEPT ![p] = temp[p]] \/ temp' = [temp EXCEPT ![p] = kubeconfig']
    BY DEF Contents, TypeOK
  <2>2. QED
    BY <2>1 DEF Contents, TypeOK
<1>4. file' \in AIConfiguration /\ Consistent(file')
  BY DEF Contents, TypeOK, Sections
<1>5. QED
  BY <1>1, <1>2, <1>3, <1>4, HandlerContents

LEMMA AskContents ==
    ASSUME IInv, Contents, NEW p \in Handlers, NEW r \in Request, Ask(p, r)
    PROVE  Contents'
<1>1. PICK l \in {"lock", "choose", "explain", "save"} :
          Goes(p, l) /\ (l = "lock" => r.op \in Changes)
  <2>1. CASE r.op \in Changes
    BY <2>1 DEF Ask, Changes
  <2>2. CASE r.op \notin Changes /\ r.backend = Nil
    BY <2>2 DEF Ask, Changes
  <2>3. CASE r.op = "explain" /\ r.backend # Nil
    BY <2>3 DEF Ask
  <2>4. CASE r.op \notin Changes \cup {"explain"} /\ r.backend # Nil
    BY <2>4 DEF Ask, Changes
  <2>5. QED
    BY <2>1, <2>2, <2>3, <2>4
<1>2. PICK n \in Request :
          /\ request' = [request EXCEPT ![p] = n]
          /\ r.op \in Changes => n = r
  <2> DEFINE n == IF r.op \in {"diagnose", "analyse"} THEN [r EXCEPT !.backend = Nil] ELSE r
  <2>1. n \in Request
    BY DEF Request
  <2>2. request' = [request EXCEPT ![p] = n]
    BY DEF Ask
  <2>3. r.op \in Changes => n = r
    BY DEF Changes
  <2>4. QED
    BY <2>1, <2>2, <2>3
<1>3. l = "lock" => n.op \in Changes /\ n.backend # Nil
  BY <1>1, <1>2 DEF Ask, Changes
<1>4. /\ pc[p] = "idle" /\ pc[p] \notin Inside \cup Writing
      /\ l \in Locations \ ({"set", "read", "write"} \cup Inside \cup Writing)
      /\ UNCHANGED <<ai, file, writer, readers, kubeconfig, temps, seen, saved, temp>>
  BY <1>1 DEF Ask, Locations, Inside, Writing
<1>5. readers' = [readers EXCEPT ![p] = IF l \in Inside THEN 1 ELSE 0]
  BY <1>4 DEF Contents, TypeOK, Reading
<1>6. /\ ai' \in AIConfiguration /\ Consistent(ai')
      /\ kubeconfig' \in TempFiles \cup {Nil} /\ temps' \in SUBSET TempFiles
  BY <1>4 DEF Contents, TypeOK, Sections
<1>7. QED
  BY <1>1, <1>2, <1>3, <1>4, <1>5, <1>6, GoesContents

\* A step that moves no lock and changes no request.
LEMMA PassContents ==
    ASSUME IInv, Contents, NEW p \in Handlers, NEW l \in Locations \ Writing,
           Goes(p, l), l # "lock",
           pc[p] \notin Writing, UNCHANGED <<request, file, writer>>,
           \/ UNCHANGED seen
           \/ seen' = [seen EXCEPT ![p] = ai]
           \/ seen' = [seen EXCEPT ![p] = NoProviders],
           readers' = [readers EXCEPT ![p] = IF l \in Inside THEN 1 ELSE 0],
           l \in Inside => pc[p] \in Inside \/ writer = Nil,
           ai' = ai \/ ai' = seen[p],
           kubeconfig' \in TempFiles \cup {Nil}, temps' \in SUBSET TempFiles,
           UNCHANGED saved \/ saved' = [saved EXCEPT ![p] = kubeconfig],
           UNCHANGED temp \/ temp' = [temp EXCEPT ![p] = kubeconfig']
    PROVE  Contents'
<1>1. PICK r \in Request : request' = [request EXCEPT ![p] = r]
  <2>1. request' = [request EXCEPT ![p] = request[p]] /\ request[p] \in Request
    BY DEF Contents, TypeOK
  <2>2. QED
    BY <2>1
<1>2. ai' \in AIConfiguration /\ Consistent(ai')
  BY DEF Contents, TypeOK, Sections
<1>3. l \notin {"lock", "read", "set", "write"}
  BY DEF Writing
<1>4. QED
  BY <1>1, <1>2, <1>3, GoesContents

LEMMA LockContents == ASSUME IInv, Contents, NEW p \in Handlers, Lock(p) PROVE Contents'
<1> DEFINE l == "read"
           r == request[p]
<1>1. /\ l \in Locations \ {"set", "write"} /\ l \in Writing /\ l \notin Inside /\ Goes(p, l)
      /\ pc[p] = "lock" /\ pc[p] \notin Inside /\ writer' = p
      /\ UNCHANGED <<ai, file, readers, kubeconfig, temps, request, seen, saved, temp>>
  BY DEF Lock, Locations, Writing, Inside
<1>2. /\ r \in Request /\ request' = [request EXCEPT ![p] = r]
      /\ r.op \in Changes /\ r.backend # Nil
  BY <1>1 DEF Contents, TypeOK, Requested
<1>3. readers' = [readers EXCEPT ![p] = IF l \in Inside THEN 1 ELSE 0]
  BY <1>1 DEF Contents, TypeOK, Reading
<1>4. /\ ai' \in AIConfiguration /\ Consistent(ai')
      /\ kubeconfig' \in TempFiles \cup {Nil} /\ temps' \in SUBSET TempFiles
  BY <1>1 DEF Contents, TypeOK, Sections
<1> HIDE DEF l, r
<1>5. QED
  BY <1>1, <1>2, <1>3, <1>4, GoesContents

\* A writer reads when the readers have left.
LEMMA ReadSectionContents ==
    ASSUME IInv, Contents, NEW p \in Handlers, ReadSection(p)
    PROVE  Contents'
<1>1. /\ pc[p] = "read" /\ pc[p] \in Writing /\ pc[p] \notin Inside
      /\ \A q \in Handlers : readers[q] = 0
      /\ UNCHANGED <<ai, file, readers, kubeconfig, temps>>
  BY DEF ReadSection, Writing, Inside
<1>2. /\ kubeconfig' \in TempFiles \cup {Nil} /\ temps' \in SUBSET TempFiles
      /\ ai' \in AIConfiguration /\ Consistent(ai')
      /\ file' \in AIConfiguration /\ Consistent(file')
  BY <1>1 DEF Contents, TypeOK, Sections
<1>3. CASE writer' = Nil /\ Ends(p)
  BY <1>1, <1>2, <1>3, EndsContents
<1>4. CASE /\ request[p].op # "add" => request[p].backend \in Listed(ai)
           /\ seen' = [seen EXCEPT ![p] = ai]
           /\ Goes(p, "set")
           /\ UNCHANGED <<writer, request, saved, temp>>
  <2> DEFINE l == "set"
             r == request[p]
             s == ai
             v == saved[p]
             t == temp[p]
  <2>1. /\ l \in Locations /\ l \in Writing /\ l \notin Inside /\ Goes(p, l)
        /\ r \in Request /\ request' = [request EXCEPT ![p] = r]
        /\ s \in AIConfiguration /\ Consistent(s) /\ seen' = [seen EXCEPT ![p] = s]
        /\ v \in TempFiles \cup {Nil} /\ saved' = [saved EXCEPT ![p] = v]
        /\ t \in TempFiles \cup {Nil} /\ temp' = [temp EXCEPT ![p] = t]
    BY <1>4 DEF Contents, TypeOK, Sections, Locations, Writing, Inside
  <2>2. r.op \in Changes /\ r.backend # Nil /\ (r.op # "add" => r.backend \in Listed(s))
    BY <1>1, <1>4 DEF Contents, Requested
  <2>3. \A q \in Handlers : pc[q] \notin Inside
    BY <1>1 DEF Contents, Reading
  <2>4. readers' = [readers EXCEPT ![p] = IF l \in Inside THEN 1 ELSE 0]
    BY <1>1, <2>1 DEF Contents, TypeOK, Reading
  <2> HIDE DEF l, r, s, v, t
  <2>5. QED
    BY <1>1, <1>2, <1>4, <2>1, <2>2, <2>3, <2>4, HandlerContents
<1>5. QED
  BY <1>3, <1>4 DEF ReadSection

\* It sets what it makes of what it has read.
LEMMA SetSectionContents == ASSUME IInv, Contents, NEW p \in Handlers, SetSection(p) PROVE Contents'
<1> DEFINE l == "write"
           r == NoRequest
<1>1. /\ pc[p] = "set" /\ pc[p] \in Writing /\ pc[p] \notin Inside
      /\ l \in Locations \ {"set", "lock", "read"} /\ l \in Writing /\ l \notin Inside /\ Goes(p, l)
      /\ r \in Request /\ request' = [request EXCEPT ![p] = r]
      /\ seen' = [seen EXCEPT ![p] = NoProviders]
      /\ UNCHANGED <<file, writer, readers, kubeconfig, temps, saved, temp>>
  BY DEF SetSection, Locations, Writing, Inside, NoRequest, Request, Operations
<1>2. /\ request[p] \in Request /\ seen[p] \in AIConfiguration /\ Consistent(seen[p])
      /\ request[p].op \in Changes /\ request[p].backend # Nil
      /\ request[p].op # "add" => request[p].backend \in Listed(seen[p])
  BY <1>1 DEF Contents, TypeOK, Sections, Requested
<1>3. Changed(request[p], seen[p]) \in AIConfiguration /\ Consistent(Changed(request[p], seen[p]))
  BY <1>2, ChangedConsistent
<1>4. ai' \in AIConfiguration /\ Consistent(ai')
  BY <1>3 DEF SetSection
<1>5. \A q \in Handlers : pc[q] \notin Inside
  BY <1>1 DEF Contents, Excluded
<1>6. readers' = [readers EXCEPT ![p] = IF l \in Inside THEN 1 ELSE 0]
  BY <1>1 DEF Contents, TypeOK, Reading
<1>7. kubeconfig' \in TempFiles \cup {Nil} /\ temps' \in SUBSET TempFiles
  BY <1>1 DEF Contents, TypeOK
<1> HIDE DEF l, r
<1>8. QED
  BY <1>1, <1>4, <1>5, <1>6, <1>7, GoesContents

LEMMA WriteConfigContents ==
    ASSUME IInv, Contents, NEW p \in Handlers, WriteConfig(p)
    PROVE  Contents'
<1>1. /\ pc[p] = "write" /\ pc[p] \notin Inside
      /\ kubeconfig' \in TempFiles \cup {Nil} /\ temps' \in SUBSET TempFiles
  BY DEF WriteConfig, Inside, Contents, TypeOK
<1>2. QED
  BY <1>1, EndsContents DEF WriteConfig

\* The provider chosen is one that is listed.
LEMMA ChooseBackendContents ==
    ASSUME IInv, Contents, NEW p \in Handlers, ChooseBackend(p)
    PROVE  Contents'
<1> DEFINE chosen == IF ai.default # Nil \/ ai.providers = <<>> THEN ai.default ELSE ai.providers[1]
<1>1. chosen \in Providers \cup {Nil}
  <2>1. ai.providers \in Seq(Providers) /\ ai.default \in Providers \cup {Nil}
    BY DEF Contents, TypeOK, AIConfiguration
  <2>2. ai.providers # <<>> => ai.providers[1] \in Providers
    BY <2>1
  <2>3. QED
    BY <2>1, <2>2
<1>2. /\ pc[p] = "choose" /\ pc[p] \notin Inside \cup Writing /\ writer = Nil
      /\ UNCHANGED <<ai, file, writer, readers, kubeconfig, temps>>
  BY DEF ChooseBackend, Inside, Writing
<1>3. /\ kubeconfig' \in TempFiles \cup {Nil} /\ temps' \in SUBSET TempFiles
      /\ ai' \in AIConfiguration /\ Consistent(ai')
  BY <1>2 DEF Contents, TypeOK, Sections
<1>4. CASE Ends(p)
  BY <1>2, <1>3, <1>4, EndsContents
<1>5. CASE ~ Ends(p)
  <2>1. PICK l \in {"explain", "save"} : Goes(p, l)
    BY <1>5 DEF ChooseBackend
  <2>2. UNCHANGED <<seen, saved, temp>>
    BY <1>5 DEF ChooseBackend
  <2>3. PICK r \in Request : request' = [request EXCEPT ![p] = r]
    <3>1. request[p] \in Request
      BY DEF Contents, TypeOK
    <3>2. CASE request' = [request EXCEPT ![p].backend = chosen]
      <4>1. [request[p] EXCEPT !.backend = chosen] \in Request
        BY <1>1, <3>1 DEF Request
      <4>2. QED
        BY <3>2, <4>1
    <3>3. CASE request' = [request EXCEPT ![p].op = IF chosen = Nil THEN "analyse" ELSE @]
      <4>1. [request[p] EXCEPT !.op = IF chosen = Nil THEN "analyse" ELSE @] \in Request
        BY <3>1 DEF Request, Operations
      <4>2. QED
        BY <3>3, <4>1
    <3>4. QED
      BY <1>5, <3>2, <3>3 DEF ChooseBackend
  <2>4. l \in Locations \ {"set", "lock", "read", "write"} /\ l \notin Inside \cup Writing
    BY DEF Locations, Inside, Writing
  <2>5. readers' = [readers EXCEPT ![p] = IF l \in Inside THEN 1 ELSE 0]
    BY <1>2, <2>4 DEF Contents, TypeOK, Reading
  <2>6. QED
    BY <1>2, <1>3, <2>1, <2>2, <2>3, <2>4, <2>5, GoesContents
<1>6. QED
  BY <1>4, <1>5

\* Explain takes the lock for reading, twice, and lets go of it.
LEMMA ExplainContents ==
    ASSUME IInv, Contents, NEW p \in Handlers,
           Explain(p) \/ GetProvider(p) \/ GetCompletion(p) \/ NameModel(p)
    PROVE  Contents'
<1>1. /\ pc[p] \in {"explain", "provider", "complete", "name"} /\ pc[p] \notin Writing
      /\ UNCHANGED <<ai, file, writer, kubeconfig, temps>>
  BY DEF Explain, GetProvider, GetCompletion, NameModel, Writing
<1>2. kubeconfig' \in TempFiles \cup {Nil} /\ temps' \in SUBSET TempFiles
  BY <1>1 DEF Contents, TypeOK
<1>3. CASE Ends(p)
  <2>1. \/ UNCHANGED readers /\ pc[p] \notin Inside
        \/ readers' = [readers EXCEPT ![p] = 0]
    <3>1. CASE Explain(p)
      BY <1>3, <3>1 DEF Explain, Ends, Goes, Contents, TypeOK
    <3>2. CASE GetProvider(p)
      BY <1>3, <3>2 DEF GetProvider, Ends, Goes, Contents, TypeOK
    <3>3. CASE GetCompletion(p) \/ NameModel(p)
      BY <3>3 DEF GetCompletion, NameModel, Inside
    <3>4. QED
      BY <3>1, <3>2, <3>3
  <2>2. QED
    BY <1>1, <1>2, <1>3, <2>1, EndsContents
<1>4. CASE ~ Ends(p)
  <2>1. PICK l \in {"provider", "complete", "name"} :
            /\ Goes(p, l)
            /\ l = "provider" => writer = Nil
            /\ l = "complete" => pc[p] \in Inside
            /\ readers' = [readers EXCEPT ![p] = IF l \in Inside THEN 1 ELSE 0]
    <3>1. CASE Explain(p)
      BY <3>1 DEF Explain, Inside
    <3>2. CASE GetProvider(p)
      <4>1. readers[p] = 1
        BY <3>2 DEF GetProvider, Contents, Reading, Inside
      <4>2. QED
        BY <1>4, <3>2, <4>1 DEF GetProvider, Contents, TypeOK, Inside
    <3>3. CASE GetCompletion(p) \/ NameModel(p)
      BY <1>4, <3>3 DEF GetCompletion, NameModel, Inside
    <3>4. QED
      BY <3>1, <3>2, <3>3
  <2>2. l \in Locations \ Writing /\ l # "lock"
    BY DEF Locations, Writing
  <2>3. UNCHANGED <<request, seen, saved, temp>>
    BY <1>4 DEF Explain, GetProvider, GetCompletion, NameModel
  <2>4. l \in Inside => pc[p] \in Inside \/ writer = Nil
    BY <2>1 DEF Inside
  <2>5. QED
    BY <1>1, <1>2, <2>1, <2>2, <2>3, <2>4, PassContents
<1>5. QED
  BY <1>3, <1>4

\* A diagnosis puts a section back that it has read.
LEMMA DiagnoseContents ==
    ASSUME IInv, IInv', Contents, NEW p \in Handlers,
           \/ SaveEnvironment(p) \/ SetEnvironment(p) \/ ListProviders(p)
           \/ LendSection(p) \/ Analyse(p) \/ RestoreEnvironment(p)
    PROVE  Contents'
<1>1. /\ pc[p] \notin Inside \cup Writing
      /\ UNCHANGED <<file, writer, readers>>
  BY DEF SaveEnvironment, SetEnvironment, ListProviders, LendSection, Analyse,
         RestoreEnvironment, Inside, Writing
<1>2. kubeconfig' \in TempFiles \cup {Nil} /\ temps' \in SUBSET TempFiles
  <2>2. temps' \in SUBSET TempFiles
    BY DEF IInv, Shape
  <2>3. \/ kubeconfig' \in {kubeconfig, saved[p]}
        \/ FreshFiles # {} /\ kubeconfig' = CHOOSE f \in FreshFiles : TRUE
    BY DEF SaveEnvironment, SetEnvironment, ListProviders, LendSection, Analyse, RestoreEnvironment
  <2>4. kubeconfig' \in {kubeconfig, saved[p]} \cup FreshFiles
    BY <2>3
  <2>5. QED
    BY <2>2, <2>4 DEF Contents, TypeOK, FreshFiles
<1>3. CASE Ends(p) /\ UNCHANGED ai
  BY <1>1, <1>2, <1>3, EndsContents
<1>4. CASE ~ (Ends(p) /\ UNCHANGED ai)
  <2>1. PICK l \in {"setenv"} \cup Diagnosing : Goes(p, l)
    BY <1>4 DEF SaveEnvironment, SetEnvironment, ListProviders, LendSection, Analyse,
                RestoreEnvironment, Diagnosing
  <2>2. l \in Locations \ Writing /\ l # "lock" /\ l \notin Inside
    BY DEF Locations, Writing, Inside, Diagnosing
  <2>3. readers' = [readers EXCEPT ![p] = IF l \in Inside THEN 1 ELSE 0]
    BY <1>1, <2>2 DEF Contents, TypeOK, Reading
  <2>4. /\ UNCHANGED request
        /\ \/ UNCHANGED seen
           \/ seen' = [seen EXCEPT ![p] = ai]
           \/ seen' = [seen EXCEPT ![p] = NoProviders]
        /\ ai' = ai \/ ai' = seen[p]
        /\ UNCHANGED saved \/ saved' = [saved EXCEPT ![p] = kubeconfig]
        /\ UNCHANGED temp \/ temp' = [temp EXCEPT ![p] = kubeconfig']
    BY <1>4 DEF SaveEnvironment, SetEnvironment, ListProviders, LendSection, Analyse,
                RestoreEnvironment
  <2>5. QED
    BY <1>1, <1>2, <2>1, <2>2, <2>3, <2>4, PassContents
<1>5. QED
  BY <1>3, <1>4

LEMMA StepContents == IInv /\ IInv' /\ Contents /\ [Next]_vars => Contents'
<1> SUFFICES ASSUME IInv, IInv', Contents, [Next]_vars PROVE Contents'
  OBVIOUS
<1>1. CASE UNCHANGED vars
  BY <1>1 DEF vars, localVars, Contents, TypeOK, Sections, Requested, Reading, Excluded, Held
<1>2. CASE Next
  BY <1>2, RestartContents, AskContents, LockContents, ReadSectionContents, SetSectionContents,
     WriteConfigContents, ChooseBackendContents, ExplainContents, DiagnoseContents
  DEF Next, HandlerStep
<1>3. QED
  BY <1>1, <1>2

------------------------------------------------------------------------------
\* The inductive invariant: one writer at a time, and files only in the hands of
\* diagnoses, through every end and restart of the process (ai_manager.go:90-222,
\* diagnostic.go:161-205).
THEOREM Invariance == Spec => []IInv
<1>1. QED
  BY InitInv, StepInv, PTL DEF Spec

\* While the process lives a temporary kubeconfig comes, stays and goes with one
\* diagnosis, for any number of them; only a kill leaves one behind, which nobody
\* uses or removes (diagnostic.go:161-205).
THEOREM FilesGoWithUsers == Spec => FilesGoWithTheirUsers
<1>1. QED
  BY Invariance, StepInv, PTL DEF Spec, FilesGoWithTheirUsers

\* From the read of a writer to the end of its write nobody but diagnoses changes
\* what it works on: two writers do not lose each other's updates, for any number
\* of them (ai_manager.go:92,135,194).
THEOREM WritersWorkAlone == Spec => WritersAlone
<1> DEFINE Alone ==
      \A p \in Handlers :
          pc[p] \in {"set", "write"} /\ pc'[p] = pc[p] =>
              /\ file' = file
              /\ ai' # ai => \E q \in Handlers :
                     pc[q] \in {"borrow", "return"} /\ pc'[q] # pc[q]
<1>1. IInv /\ [Next]_vars => [Alone]_vars
  <2> SUFFICES ASSUME IInv, Next, NEW p \in Handlers,
                      pc[p] \in {"set", "write"}, pc'[p] = pc[p]
               PROVE  /\ file' = file
                      /\ ai' # ai => \E q \in Handlers :
                             pc[q] \in {"borrow", "return"} /\ pc'[q] # pc[q]
    OBVIOUS
  <2>1. ~ Restart
    BY DEF Restart, ForAll
  <2>2. PICK q \in Handlers : HandlerStep(q) \/ \E r \in Request : Ask(q, r)
    BY <2>1 DEF Next
  <2>3. q = p => FALSE
    <3>1. pc'[p] # pc[p] \/ q # p \/ ~ (SetSection(p) \/ WriteConfig(p))
      BY DEF SetSection, WriteConfig, Ends, Goes, IInv, Shape
    <3>2. QED
      BY <2>2, <3>1
      DEF HandlerStep, Lock, ReadSection, ChooseBackend, Explain, GetProvider, GetCompletion,
          NameModel, SaveEnvironment, SetEnvironment, ListProviders, LendSection, Analyse,
          RestoreEnvironment, Ask
  <2>4. pc[q] \notin {"set", "write"}
    BY <2>3 DEF IInv, Mutex, Writing
  <2>5. file' = file
    BY <2>2, <2>4
    DEF HandlerStep, Lock, ReadSection, SetSection, WriteConfig, ChooseBackend, Explain,
        GetProvider, GetCompletion, NameModel, SaveEnvironment, SetEnvironment, ListProviders,
        LendSection, Analyse, RestoreEnvironment, Ask
  <2>6. ai' # ai => LendSection(q)
    BY <2>2, <2>4
    DEF HandlerStep, Lock, ReadSection, SetSection, WriteConfig, ChooseBackend, Explain,
        GetProvider, GetCompletion, NameModel, SaveEnvironment, SetEnvironment, ListProviders,
        Analyse, RestoreEnvironment, Ask
  <2>7. LendSection(q) => pc[q] \in {"borrow", "return"} /\ pc'[q] # pc[q]
    BY DEF LendSection, Goes, IInv, Shape
  <2>8. QED
    BY <2>5, <2>6, <2>7
<1>2. QED
  BY <1>1, Invariance, PTL DEF Spec, WritersAlone

\* What is listed where, and who is inside which lock, is inductive too.
THEOREM ContentsHold == Spec => []Contents
<1>1. QED
  BY InitContents, StepContents, Invariance, PTL DEF Spec

\* Type correctness.
THEOREM TypeCorrect == Spec => []TypeOK
<1>1. Contents => TypeOK
  BY DEF Contents
<1>2. QED
  BY <1>1, ContentsHold, PTL

\* No name is listed twice and the default provider is one of those listed, in memory
\* and in the file, for any providers and any number of writers and diagnoses, whatever
\* writes fail (ai_manager.go:102-122,160-166,202-215).
THEOREM DefaultIsListed == Spec => []DefaultListed
<1>1. Contents => DefaultListed
  BY DEF Contents, Sections, DefaultListed
<1>2. QED
  BY <1>1, ContentsHold, PTL

\* An Explain that meets a writer between its two read locks hangs, and so does the
\* writer, until the process is started again: nothing else undoes it
\* (ai_manager.go:92,226-325).
THEOREM EmbraceLasts == Spec => [][Embraced => Embraced' \/ Restart]_vars
<1>1. IInv /\ Contents /\ [Next]_vars => [Embraced => Embraced' \/ Restart]_vars
  <2> SUFFICES ASSUME IInv, Contents, Next, Embraced, ~ Restart PROVE Embraced'
    OBVIOUS
  <2>1. PICK p \in Handlers : pc[p] = "provider"
    BY DEF Embraced
  <2>2. /\ writer \in Handlers /\ pc[writer] \in Writing
        /\ pc[p] \in Inside /\ readers[p] = 1 /\ readers[p] # 0
    BY <2>1 DEF Embraced, Contents, TypeOK, Held, Reading, Inside
  <2>3. pc[writer] = "read"
    BY <2>2 DEF Contents, Excluded, Writing
  <2>4. PICK q \in Handlers : HandlerStep(q) \/ \E r \in Request : Ask(q, r)
    BY DEF Next
  <2>5. q # writer
    <3>1. ~ ReadSection(q)
      BY <2>2 DEF ReadSection
    <3>2. pc[q] # "read"
      BY <2>4, <3>1
      DEF HandlerStep, Lock, SetSection, WriteConfig, ChooseBackend, Explain, GetProvider,
          GetCompletion, NameModel, SaveEnvironment, SetEnvironment, ListProviders, LendSection,
          Analyse, RestoreEnvironment, Ask
    <3>3. QED
      BY <2>3, <3>2
  <2>6. q # p
    <3>1. pc[q] # "provider"
      BY <2>4
      DEF HandlerStep, Lock, ReadSection, SetSection, WriteConfig, ChooseBackend, Explain,
          GetProvider, GetCompletion, NameModel, SaveEnvironment, SetEnvironment, ListProviders,
          LendSection, Analyse, RestoreEnvironment, Ask, Embraced
    <3>2. QED
      BY <2>1, <3>1
  <2>7. pc[q] \notin Writing
    BY <2>5 DEF IInv, Mutex
  <2>8. writer' = writer
    BY <2>4, <2>7
    DEF HandlerStep, Lock, ReadSection, SetSection, WriteConfig, ChooseBackend, Explain,
        GetProvider, GetCompletion, NameModel, SaveEnvironment, SetEnvironment, ListProviders,
        LendSection, Analyse, RestoreEnvironment, Ask, Embraced, Writing
  <2>9. pc'[p] = pc[p]
    <3>1. \A r \in Handlers : r # q => pc'[r] = pc[r]
      BY <2>4
      DEF HandlerStep, Lock, ReadSection, SetSection, WriteConfig, ChooseBackend, Explain,
          GetProvider, GetCompletion, NameModel, SaveEnvironment, SetEnvironment, ListProviders,
          LendSection, Analyse, RestoreEnvironment, Ask, Ends, Goes, Contents, TypeOK
    <3>2. QED
      BY <2>6, <3>1
  <2>10. QED
    BY <2>1, <2>8, <2>9 DEF Embraced
<1>2. QED
  BY <1>1, Invariance, ContentsHold, PTL DEF Spec

\* While an Explain holds the lock nobody changes the section in memory but a diagnosis,
\* which takes no lock to put one back (ai_manager.go:92,226-325, diagnostic.go:213-236).
THEOREM ReadersUndisturbed ==
    Spec => [][\A p \in Handlers :
                  pc[p] \in Inside /\ pc'[p] \in Inside /\ ai' # ai =>
                      \E q \in Handlers : LendSection(q)]_vars
<1> DEFINE Undisturbed ==
      \A p \in Handlers :
          pc[p] \in Inside /\ pc'[p] \in Inside /\ ai' # ai => \E q \in Handlers : LendSection(q)
<1>1. Contents /\ [Next]_vars => [Undisturbed]_vars
  <2> SUFFICES ASSUME Contents, Next, NEW p \in Handlers, pc[p] \in Inside, pc'[p] \in Inside,
                      ai' # ai
               PROVE  \E q \in Handlers : LendSection(q)
    OBVIOUS
  <2>1. ~ Restart
    BY DEF Restart, ForAll, Inside
  <2>2. PICK q \in Handlers : HandlerStep(q) \/ \E r \in Request : Ask(q, r)
    BY <2>1 DEF Next
  <2>3. pc[q] \notin {"set", "write"}
    BY DEF Contents, Excluded
  <2>4. LendSection(q)
    BY <2>2, <2>3
    DEF HandlerStep, Lock, ReadSection, SetSection, WriteConfig, ChooseBackend, Explain,
        GetProvider, GetCompletion, NameModel, SaveEnvironment, SetEnvironment, ListProviders,
        Analyse, RestoreEnvironment, Ask
  <2>5. QED
    BY <2>4
<1>2. QED
  BY <1>1, ContentsHold, PTL DEF Spec

===============================================================================
