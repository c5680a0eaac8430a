----------------------------- MODULE ServerProofs -----------------------------
(***************************************************************************)
(* Proofs about Server.  The two key files are only ever written in one     *)
(* order, so that a public key is there only with its private key (Files    *)
(* Match), and a handler is where its request leads, with a user that it has *)
(* read or been told of (Served).                                           *)
(***************************************************************************)
EXTENDS Server, TLAPS

\* What a crash leaves behind, and what the start in progress has added to it.
FilesMatch ==
    /\ publicFile # "none" => privateFile \in Pairs
    /\ publicFile \in Pairs => publicFile = privateFile
    /\ process = "private" => publicFile = "none" /\ generated \in Pairs
    /\ process = "public" => privateFile = generated /\ generated \in Pairs

\* What brought each handler where it is, and the user it holds there.
Served ==
    \A p \in Handlers :
        /\ pc[p] = "authenticate" => request[p] \in Logins
        /\ pc[p] \in {"read", "save"} => request[p] \in Changes
        /\ pc[p] \in {"find", "insert", "update", "save"} => user[p] \in Rows

IInv == TypeOK /\ FilesMatch /\ KeysMatch /\ Served

Locations == Ended \cup {"authenticate", "find", "insert", "update", "sign",
                         "read", "save", "delete", "jwt"}

------------------------------------------------------------------------------
LEMMA ChangedType ==
    ASSUME NEW u \in Rows, NEW r \in Changes
    PROVE  Changed(u, r) \in Rows
BY DEF Rows, Changes, Changed, UpdateUserAdmin, ResetUserPassword, UpdateUserById

LEMMA NilIsNone == Nil \notin Requests /\ Nil \notin Rows
BY RequestAssumption

LEMMA InitInv == Init => IInv
BY ServerAssumption
DEF Init, Idle, IInv, TypeOK, FilesMatch, KeysMatch, Served, Serves, Files, Ended

\* A step of a handler that leaves the process and its keys alone.
LEMMA HandlerInv ==
    ASSUME IInv, UNCHANGED processVars, NEW p \in Handlers,
           NEW l \in Locations, NEW r \in Requests \cup {Nil}, NEW u \in Rows \cup {Nil},
           Goes(p, l), r = Nil <=> l \in Ended,
           request' = [request EXCEPT ![p] = r],
           user' = [user EXCEPT ![p] = u],
           row' \in Rows \cup {Nil},
           l = "authenticate" => r \in Logins,
           l \in {"read", "save"} => r \in Changes,
           l \in {"find", "insert", "update", "save"} => u \in Rows
    PROVE  IInv'
<1> USE DEF IInv
<1>1. /\ pc' = [pc EXCEPT ![p] = l]
      /\ pc' \in [Handlers -> Locations]
      /\ request' \in [Handlers -> Requests \cup {Nil}]
      /\ user' \in [Handlers -> Rows \cup {Nil}]
  BY DEF TypeOK, Goes, Locations
<1>2. \A q \in Handlers :
          /\ pc'[q] = IF q = p THEN l ELSE pc[q]
          /\ request'[q] = IF q = p THEN r ELSE request[q]
          /\ user'[q] = IF q = p THEN u ELSE user[q]
  BY <1>1 DEF TypeOK
<1>3. TypeOK'
  BY <1>1, <1>2 DEF TypeOK, processVars, keys, Locations
<1>4. FilesMatch' /\ KeysMatch'
  BY DEF FilesMatch, KeysMatch, Serves, processVars, keys
<1>5. Served'
  BY <1>2 DEF Served
<1>6. QED
  BY <1>3, <1>4, <1>5

LEMMA BeginsInv ==
    ASSUME IInv, NEW p \in Handlers, NEW r \in Requests, NEW u \in Rows \cup {Nil},
           NEW l \in {"authenticate", "insert", "read", "delete", "jwt"},
           Begins(p, r, l, u),
           l = "authenticate" => r \in Logins,
           l = "read" => r \in Changes,
           l = "insert" => u \in Rows
    PROVE  IInv'
<1>1. l \in Locations /\ l \notin Ended
  BY DEF Locations, Ended
<1>2. /\ Goes(p, l) /\ UNCHANGED processVars
      /\ request' = [request EXCEPT ![p] = r]
      /\ user' = [user EXCEPT ![p] = u]
      /\ row' = row /\ row \in Rows \cup {Nil}
  BY DEF Begins, IInv, TypeOK, processVars
<1>3. QED
  BY <1>1, <1>2, NilIsNone, HandlerInv

LEMMA AsksInv == ASSUME IInv, NEW p \in Handlers, Asks(p) PROVE IInv'
<1> Nil \in Rows \cup {Nil}
  OBVIOUS
<1>1. CASE Login(p)
  <2>1. Logins \subseteq Requests
    BY DEF Requests
  <2>2. QED
    BY <1>1, <2>1, BeginsInv DEF Login
<1>2. CASE UserCreate(p)
  <2>1. [op |-> "create"] \in Requests
    BY DEF Requests, Others
  <2>2. QED
    BY <1>2, <2>1, BeginsInv DEF UserCreate
<1>3. CASE UserUpdate(p) \/ ResetPassword(p) \/ UpdateAdmin(p)
  <2>1. PICK r \in Changes : Begins(p, r, "read", Nil)
    BY <1>3 DEF UserUpdate, ResetPassword, UpdateAdmin, Changes
  <2>2. r \in Requests
    BY DEF Requests
  <2>3. QED
    BY <2>1, <2>2, BeginsInv
<1>4. CASE UserDelete(p) \/ CurrentUser(p)
  <2>1. [op |-> "delete"] \in Requests /\ \A n \in Names : [op |-> "use", name |-> n] \in Requests
    BY DEF Requests, Others
  <2>2. QED
    BY <1>4, <2>1, BeginsInv DEF UserDelete, CurrentUser
<1>5. QED
  BY <1>1, <1>2, <1>3, <1>4 DEF Asks

\* A handler that answers, and has written the row or not.
LEMMA AnswersInv ==
    ASSUME IInv, NEW p \in Handlers, NEW answer \in {"ok", "failed"}, Answers(p, answer),
           row' \in Rows \cup {Nil}, UNCHANGED processVars
    PROVE  IInv'
<1>1. answer \in Locations /\ answer \in Ended
  BY DEF Locations, Ended
<1>2. QED
  BY <1>1, HandlerInv DEF Answers

\* One that goes on with a user, its own or another.
LEMMA GoesInv ==
    ASSUME IInv, NEW p \in Handlers, NEW u \in Rows, Holds(p, u),
           NEW r \in Requests, request' = [request EXCEPT ![p] = r],
           NEW l \in {"find", "insert", "update", "sign"}, Goes(p, l),
           row' \in Rows \cup {Nil}, UNCHANGED processVars
    PROVE  IInv'
<1>1. l \in Locations /\ l \notin Ended
  BY DEF Locations, Ended
<1>2. QED
  BY <1>1, NilIsNone, HandlerInv DEF Holds

\* A request that is not yet answered stays what it is, and so does its user.
LEMMA Stays ==
    ASSUME IInv, NEW p \in Handlers, pc[p] \notin Ended
    PROVE  /\ request[p] \in Requests
           /\ UNCHANGED request => request' = [request EXCEPT ![p] = request[p]]
           /\ UNCHANGED user => Holds(p, user[p])
BY DEF IInv, TypeOK, Holds

LEMMA AuthenticatedType ==
    ASSUME NEW r \in Logins, row \in Rows \cup {Nil}
    PROVE  Authenticated(r) \subseteq Rows
<1>1. CASE r.type = "db"
  BY <1>1 DEF Authenticated, DBAuthenticate
<1>2. CASE r.type # "db"
  <2>1. r.name \in Names
    BY DEF Logins
  <2>2. \A admin \in BOOLEAN : DirectoryUsers(r, admin) \subseteq Rows
    BY <2>1 DEF DirectoryUsers, Rows
  <2>3. QED
    BY <1>2, <2>2 DEF Authenticated, LDAPAuthenticate, OAuth2Authenticate
<1>3. QED
  BY <1>1, <1>2

LEMMA AuthenticateInv == ASSUME IInv, NEW p \in Handlers, Authenticate(p) PROVE IInv'
<1>1. request[p] \in Logins /\ row \in Rows \cup {Nil} /\ row' = row /\ UNCHANGED processVars
  BY DEF Authenticate, IInv, Served, TypeOK
<1>2. CASE Answers(p, "failed")
  BY <1>1, <1>2, AnswersInv
<1>3. ASSUME NEW u \in Authenticated(request[p]), Holds(p, u), Goes(p, "find"),
             request' = [request EXCEPT ![p] = LoggedIn]
      PROVE  IInv'
  <2>1. u \in Rows /\ LoggedIn \in Requests
    BY <1>1, <1>3, AuthenticatedType DEF Requests
  <2>2. QED
    BY <1>1, <1>3, <2>1, GoesInv
<1>4. QED
  BY <1>2, <1>3 DEF Authenticate

LEMMA FindUserInv == ASSUME IInv, NEW p \in Handlers, FindUser(p) PROVE IInv'
<1>1. /\ user[p] \in Rows /\ pc[p] \notin Ended /\ row \in Rows \cup {Nil} /\ row' = row
      /\ UNCHANGED processVars
  BY DEF FindUser, IInv, Served, TypeOK, Ended
<1>2. CASE Answers(p, "failed")
  BY <1>1, <1>2, AnswersInv
<1>3. CASE /\ Named(user[p].name) /\ Holds(p, [row EXCEPT !.profile = user[p].profile])
           /\ Goes(p, "update") /\ UNCHANGED request
  <2>1. [row EXCEPT !.profile = user[p].profile] \in Rows
    BY <1>1, <1>3 DEF Named, Rows
  <2>2. QED
    BY <1>1, <1>3, <2>1, Stays, GoesInv
<1>4. ASSUME NEW l \in {"insert", "sign"}, Goes(p, l), UNCHANGED <<request, user>>
      PROVE  IInv'
  BY <1>1, <1>4, Stays, GoesInv
<1>5. QED
  BY <1>2, <1>3, <1>4 DEF FindUser

LEMMA InsertUserInv == ASSUME IInv, NEW p \in Handlers, InsertUser(p) PROVE IInv'
<1>1. user[p] \in Rows /\ pc[p] \notin Ended /\ UNCHANGED processVars
  BY DEF InsertUser, IInv, Served, Ended
<1>2. row' \in Rows \cup {Nil}
  BY <1>1 DEF InsertUser, Inserts, IInv, TypeOK
<1>3. CASE \E answer \in {"ok", "failed"} : Answers(p, answer)
  BY <1>1, <1>2, <1>3, AnswersInv
<1>4. CASE Goes(p, "sign") /\ UNCHANGED <<request, user>>
  BY <1>1, <1>2, <1>4, Stays, GoesInv
<1>5. QED
  BY <1>3, <1>4 DEF InsertUser

LEMMA UpdateLoginInv == ASSUME IInv, NEW p \in Handlers, UpdateLogin(p) PROVE IInv'
<1>1. user[p] \in Rows /\ pc[p] \notin Ended /\ UNCHANGED processVars
  BY DEF UpdateLogin, IInv, Served, Ended
<1>2. row' \in Rows \cup {Nil}
  <2>1. row \in Rows \cup {Nil}
    BY DEF IInv, TypeOK
  <2>2. row # Nil => [row EXCEPT !.profile = user[p].profile] \in Rows
    BY <1>1, <2>1 DEF Rows
  <2>3. QED
    BY <2>1, <2>2 DEF UpdateLogin
<1>3. CASE Answers(p, "failed")
  BY <1>1, <1>2, <1>3, AnswersInv
<1>4. CASE Goes(p, "sign") /\ UNCHANGED <<request, user>>
  BY <1>1, <1>2, <1>4, Stays, GoesInv
<1>5. QED
  BY <1>3, <1>4 DEF UpdateLogin

\* What is saved is a row that was read, changed in what was asked.
LEMMA ReadUserInv == ASSUME IInv, NEW p \in Handlers, ReadUser(p) PROVE IInv'
<1>1. row \in Rows \cup {Nil} /\ row' = row /\ UNCHANGED processVars
  BY DEF IInv, TypeOK, ReadUser
<1>2. CASE Answers(p, "failed")
  BY <1>1, <1>2, AnswersInv
<1>3. CASE row # Nil /\ Holds(p, Changed(row, request[p])) /\ Goes(p, "save")
           /\ UNCHANGED request
  <2> DEFINE u == Changed(row, request[p])
  <2>1. request[p] \in Changes /\ pc[p] \notin Ended
    BY DEF ReadUser, IInv, Served, Ended
  <2>2. u \in Rows
    BY <1>1, <1>3, <2>1, ChangedType
  <2>3. user' = [user EXCEPT ![p] = u]
    BY <1>3 DEF Holds
  <2> HIDE DEF u
  <2>4. /\ "save" \in Locations /\ "save" \notin Ended
        /\ request[p] \in Requests /\ request[p] # Nil
        /\ request' = [request EXCEPT ![p] = request[p]]
    BY <1>3, <2>1, Stays, NilIsNone DEF Locations, Ended
  <2>5. QED
    BY <1>1, <1>3, <2>1, <2>2, <2>3, <2>4, HandlerInv
<1>4. QED
  BY <1>2, <1>3 DEF ReadUser

LEMMA EndsInv ==
    ASSUME IInv, NEW p \in Handlers,
           generateJWT(p) \/ JWTauth(p) \/ SaveUser(p) \/ DeleteUser(p)
    PROVE  IInv'
<1>1. row \in Rows \cup {Nil} /\ (pc[p] = "save" => user[p] \in Rows)
  BY DEF IInv, TypeOK, Served
<1>2. /\ \E answer \in {"ok", "failed"} : Answers(p, answer)
      /\ row' \in Rows \cup {Nil} /\ UNCHANGED processVars
  BY <1>1 DEF generateJWT, JWTauth, SaveUser, DeleteUser
<1>3. QED
  BY <1>2, AnswersInv

LEMMA HandlerStepInv == ASSUME IInv, NEW p \in Handlers, HandlerStep(p) PROVE IInv'
BY AuthenticateInv, FindUserInv, InsertUserInv, UpdateLoginInv, ReadUserInv, EndsInv
DEF HandlerStep

LEMMA DiesInv == ASSUME IInv, Dies PROVE IInv'
<1>1. TypeOK'
  BY DEF IInv, TypeOK, Dies, Ended, Files
<1>2. QED
  BY <1>1 DEF IInv, FilesMatch, KeysMatch, Served, Serves, Dies

\* Neither files nor memory can hold a half of one pair and a half of another.
LEMMA MainInv == ASSUME IInv, main PROVE IInv'
<1> USE ServerAssumption
<1>1. ASSUME Start \/ InitRsaKey \/ WritePrivate \/ WritePublic \/ Shutdown PROVE IInv'
  <2>1. UNCHANGED <<row, handlerVars>>
    BY <1>1 DEF Start, InitRsaKey, WritePrivate, WritePublic, Shutdown, keys
  <2>2. Served'
    BY <2>1 DEF IInv, Served, handlerVars
  <2>3. /\ process' \in {"checking", "private", "public", "loading", "stopping"}
        /\ {privateFile, publicFile}' \subseteq Files
        /\ {generated, RsaPrivateKey, RsaPublicKey}' \subseteq Pairs \cup {Nil}
    <3>1. CASE Start \/ Shutdown
      BY <3>1 DEF IInv, TypeOK, keys, Start, Shutdown
    <3>2. CASE InitRsaKey
      BY <3>2 DEF IInv, TypeOK, InitRsaKey
    <3>3. CASE WritePrivate
      BY <3>3 DEF IInv, TypeOK, FilesMatch, Files, WritePrivate
    <3>4. CASE WritePublic
      BY <3>4 DEF IInv, TypeOK, FilesMatch, Files, WritePublic
    <3>5. QED
      BY <1>1, <3>1, <3>2, <3>3, <3>4
  <2>10. TypeOK'
    BY <2>1, <2>3 DEF IInv, TypeOK, handlerVars
  <2>4. CASE Start
    BY <2>2, <2>10, <2>4 DEF Start, keys, IInv, FilesMatch, KeysMatch, Serves
  <2>5. CASE InitRsaKey
    BY <2>2, <2>10, <2>5 DEF InitRsaKey, IInv, TypeOK, Files, FilesMatch, KeysMatch, Serves
  <2>6. CASE WritePrivate
    BY <2>2, <2>10, <2>6 DEF WritePrivate, IInv, FilesMatch, KeysMatch, Serves
  <2>7. CASE WritePublic
    BY <2>2, <2>10, <2>7 DEF WritePublic, IInv, FilesMatch, KeysMatch, Serves
  <2>8. CASE Shutdown
    BY <2>2, <2>10, <2>8 DEF Shutdown, keys, IInv, FilesMatch, KeysMatch, Serves
  <2>9. QED
    BY <1>1, <2>4, <2>5, <2>6, <2>7, <2>8
<1>2. CASE LoadKeys /\ ~ Dies
  <2>1. /\ UNCHANGED <<privateFile, publicFile, row, handlerVars>>
        /\ {privateFile, publicFile} \subseteq Pairs
        /\ RsaPrivateKey' = privateFile /\ RsaPublicKey' = publicFile
        /\ generated' = Nil /\ process' = "serving"
    BY <1>2 DEF LoadKeys
  <2>2. QED
    BY <2>1 DEF IInv, TypeOK, FilesMatch, KeysMatch, Serves, Served, handlerVars
<1>3. CASE Dies
  BY <1>3, DiesInv
<1>4. QED
  BY <1>1, <1>2, <1>3 DEF main, Exit

LEMMA StepInv == IInv /\ [Next]_vars => IInv'
<1> SUFFICES ASSUME IInv, [Next]_vars PROVE IInv'
  OBVIOUS
<1>1. CASE UNCHANGED vars
  BY <1>1 DEF vars, keys, handlerVars, IInv, TypeOK, FilesMatch, KeysMatch, Serves, Served
<1>2. CASE Next
  BY <1>2, MainInv, DiesInv, HandlerStepInv, AsksInv DEF Next, Crash
<1>3. QED
  BY <1>1, <1>2

------------------------------------------------------------------------------
\* The inductive invariant holds whenever the process crashes, starts and stops
\* (main.go:24-73, rsakey.go:21-118, user.go:106-178).
THEOREM Invariance == Spec => []IInv
<1>1. QED
  BY InitInv, StepInv, PTL DEF Spec

\* Type correctness of the server, its files and its handlers.
THEOREM TypeCorrect == Spec => []TypeOK
<1>1. IInv => TypeOK
  BY DEF IInv
<1>2. QED
  BY <1>1, Invariance, PTL

\* A server that serves verifies tokens with the key that belongs to the one it
\* signs them with, for any number of interrupted starts (rsakey.go:21-118).
THEOREM KeysAlwaysMatch == Spec => []KeysMatch
<1>1. IInv => KeysMatch
  BY DEF IInv
<1>2. QED
  BY <1>1, Invariance, PTL

------------------------------------------------------------------------------
\* Nobody but p moves p while the process lives.
LEMMA Moves ==
    ASSUME NEW p \in Handlers, HandlerStep(p) \/ Asks(p)
    PROVE  \E location : Goes(p, location)
<1>1. CASE HandlerStep(p)
  BY <1>1 DEF HandlerStep, Authenticate, FindUser, InsertUser, UpdateLogin, generateJWT,
              JWTauth, ReadUser, SaveUser, DeleteUser, Answers
<1>2. CASE Asks(p)
  BY <1>2 DEF Asks, Login, UserCreate, UserUpdate, UserDelete, ResetPassword, UpdateAdmin,
              CurrentUser, Begins
<1>3. QED
  BY <1>1, <1>2

LEMMA MainKeepsRow == ASSUME main \/ Crash PROVE row' = row
BY DEF main, Crash, Start, InitRsaKey, WritePrivate, WritePublic, LoadKeys, Shutdown, Exit, Dies

LEMMA UpdatesOnlyProfile ==
    ASSUME IInv, NEW p \in Handlers, UpdateLogin(p), row' # row
    PROVE  /\ row # Nil /\ row' # Nil
           /\ row'.name = row.name
           /\ row'.admin = row.admin
           /\ row'.password = row.password
<1>1. user[p] \in Rows /\ row \in Rows \cup {Nil}
  BY DEF UpdateLogin, IInv, Served, TypeOK
<1>2. row # Nil /\ row' = [row EXCEPT !.profile = user[p].profile]
  BY DEF UpdateLogin
<1>3. row' \in Rows /\ row'.name = row.name /\ row'.admin = row.admin
      /\ row'.password = row.password
  BY <1>1, <1>2 DEF Rows
<1>4. QED
  BY <1>2, <1>3, NilIsNone

\* A login that ends has touched neither password, rights nor name, whatever the number of
\* administrators at work meanwhile: no other handler moves it, and its own step
\* selects the columns that it writes (user.go:117-135).
THEOREM LoginsKeepRights == Spec => LoginKeepsRights
<1> DEFINE Kept ==
      \A p \in Handlers :
          pc[p] = "update" /\ pc'[p] # "update" /\ row' # row =>
              /\ row # Nil /\ row' # Nil
              /\ row'.name = row.name
              /\ row'.admin = row.admin
              /\ row'.password = row.password
<1>1. IInv /\ [Next]_vars => [Kept]_vars
  <2> SUFFICES ASSUME IInv, Next, NEW p \in Handlers,
                      pc[p] = "update", pc'[p] # "update", row' # row
               PROVE  /\ row # Nil /\ row' # Nil
                      /\ row'.name = row.name
                      /\ row'.admin = row.admin
                      /\ row'.password = row.password
    OBVIOUS
  <2>1. PICK q \in Handlers : HandlerStep(q) \/ Asks(q)
    BY MainKeepsRow DEF Next
  <2>2. q = p
    BY <2>1, Moves DEF Goes, IInv, TypeOK
  <2>3. UpdateLogin(p)
    <3>1. ~ Asks(p)
      BY DEF Asks, Login, UserCreate, UserUpdate, UserDelete, ResetPassword, UpdateAdmin,
             CurrentUser, Begins, Ended
    <3>2. QED
      BY <2>1, <2>2, <3>1
      DEF HandlerStep, Authenticate, FindUser, InsertUser, generateJWT, JWTauth, ReadUser,
          SaveUser, DeleteUser
  <2>4. QED
    BY <2>3, UpdatesOnlyProfile
<1>2. QED
  BY <1>1, Invariance, PTL DEF Spec, LoginKeepsRights

===============================================================================
