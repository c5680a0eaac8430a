-------------------------------- MODULE Server --------------------------------
(***************************************************************************)
(* The process of the server and its users:                                *)
(*   main.go, pkg/rsakey         start, the keys of the tokens, stop,        *)
(*   models/user.go, controllers/permission/user.go   the table of users,   *)
(*   controllers/auth, middleware/jwt.go              login and tokens.     *)
(*                                                                         *)
(* The process may crash at any moment; files and the database outlive it.   *)
(* One user is modelled, and of the columns of its row those that different   *)
(* requests change.  A name that it does not have, or has no longer, is that  *)
(* of another user, whose row is left out.                                   *)
(***************************************************************************)
EXTENDS Naturals

CONSTANTS
    Handlers,   \* goroutines serving an HTTP request
    Names,
    Passwords,
    Profiles,   \* e-mail address, display name and comment
    Pairs,      \* key pairs
    Nil

ASSUME ServerAssumption ==
    /\ Nil \notin Passwords \cup Pairs
    /\ {"none", "empty"} \cap Pairs = {}

Rows == [name : Names, admin : BOOLEAN, password : Passwords \cup {Nil}, profile : Profiles]

\* A login against the table, or against a directory or a provider that says who
\* the user is.
Logins ==
         [op : {"login"}, type : {"db"}, name : Names, password : Passwords]
    \cup [op : {"login"}, type : {"ldap", "oauth2"}, name : Names]

\* What is left of it once the user is known.
LoggedIn == [op |-> "login"]

\* Changes of a user that is there.
Changes ==
         [op : {"admin"}, admin : BOOLEAN]
    \cup [op : {"password"}, password : Passwords]
    \cup [op : {"profile"}, name : Names, profile : Profiles]

Others == [op : {"create", "delete"}] \cup [op : {"use"}, name : Names]

Requests == Logins \cup {LoggedIn} \cup Changes \cup Others

ASSUME RequestAssumption == Nil \notin Requests \cup Rows

VARIABLES
    process,      \* how far its start or its stop has come
    privateFile, publicFile,
    generated,    \* the pair it has generated and is writing
    RsaPrivateKey, RsaPublicKey,
    row,          \* the user in the database, Nil when there is none
    pc, request,
    user          \* the struct models.User that a handler holds

keys == <<privateFile, publicFile, generated, RsaPrivateKey, RsaPublicKey>>
handlerVars == <<pc, request, user>>
vars == <<process, keys, row, handlerVars>>

Files == {"none", "empty"} \cup Pairs

Ended == {"idle", "ok", "failed"}

Serves == process \in {"serving", "stopping"}

TypeOK ==
    /\ process \in {"down", "checking", "private", "public", "loading", "serving", "stopping"}
    /\ {privateFile, publicFile} \subseteq Files
    /\ {generated, RsaPrivateKey, RsaPublicKey} \subseteq Pairs \cup {Nil}
    /\ row \in Rows \cup {Nil}
    /\ pc \in [Handlers -> Ended \cup {"authenticate", "find", "insert", "update", "sign",
                                       "read", "save", "delete", "jwt"}]
    /\ request \in [Handlers -> Requests \cup {Nil}]
    /\ \A p \in Handlers : request[p] = Nil <=> pc[p] \in Ended
    /\ user \in [Handlers -> Rows \cup {Nil}]

Idle ==
    /\ pc = [p \in Handlers |-> "idle"]
    /\ request = [p \in Handlers |-> Nil]
    /\ user = [p \in Handlers |-> Nil]

Init ==
    /\ process = "down"
    /\ privateFile = "none" /\ publicFile = "none"
    /\ generated = Nil /\ RsaPrivateKey = Nil /\ RsaPublicKey = Nil
    /\ row = Nil
    /\ Idle

------------------------------------------------------------------------------
(* Start: main.go, rsakey.go                                               *)

Start ==
    /\ process = "down"
    /\ process' = "checking"
    /\ UNCHANGED <<keys, row, handlerVars>>

\* Both files, or a new pair.
InitRsaKey ==
    /\ process = "checking"
    /\ IF "none" \in {privateFile, publicFile}
       THEN /\ process' = "private"
            /\ generated' \in Pairs \ {privateFile, publicFile}
       ELSE /\ process' = "loading"
            /\ UNCHANGED generated
    /\ UNCHANGED <<privateFile, publicFile, RsaPrivateKey, RsaPublicKey,
                   row, handlerVars>>

\* Mutant: a private key that is there is kept.
KeepsPrivate ==
    /\ process = "private"
    /\ IF privateFile \in Pairs
       THEN process' = "public" /\ UNCHANGED privateFile
       ELSE /\ privateFile' = IF privateFile = "empty" THEN generated ELSE "empty"
            /\ process' = IF privateFile = "empty" THEN "public" ELSE "private"
    /\ UNCHANGED <<publicFile, generated, RsaPrivateKey, RsaPublicKey,
                   row, handlerVars>>

\* A file is created or emptied, then written.  When that fails, the server loads
\* what there is.
WritePrivate ==
    /\ process = "private"
    /\ \/ /\ privateFile # "empty"
          /\ privateFile' = "empty"
          /\ UNCHANGED process
       \/ /\ privateFile = "empty"
          /\ privateFile' = generated
          /\ process' = "public"
       \/ process' = "loading" /\ UNCHANGED privateFile
    /\ UNCHANGED <<publicFile, generated, RsaPrivateKey, RsaPublicKey,
                   row, handlerVars>>

WritePublic ==
    /\ process = "public"
    /\ \/ /\ publicFile # "empty"
          /\ publicFile' = "empty"
          /\ UNCHANGED process
       \/ /\ publicFile = "empty"
          /\ publicFile' = generated
          /\ process' = "loading"
       \/ process' = "loading" /\ UNCHANGED publicFile
    /\ UNCHANGED <<privateFile, generated, RsaPrivateKey, RsaPublicKey,
                   row, handlerVars>>

\* The process ends: its requests are never answered.
Dies ==
    /\ process' = "down"
    /\ generated' = Nil /\ RsaPrivateKey' = Nil /\ RsaPublicKey' = Nil
    /\ pc' = [p \in Handlers |-> "idle"]
    /\ request' = [p \in Handlers |-> Nil]
    /\ user' = [p \in Handlers |-> Nil]
    /\ UNCHANGED <<privateFile, publicFile, row>>

\* A file that is not there or has no key in it ends the process.
LoadKeys ==
    /\ process = "loading"
    /\ \/ {privateFile, publicFile} \subseteq Pairs
          /\ RsaPrivateKey' = privateFile
          /\ RsaPublicKey' = publicFile
          /\ generated' = Nil
          /\ process' = "serving"
          /\ UNCHANGED <<privateFile, publicFile, row, handlerVars>>
       \/ ~ {privateFile, publicFile} \subseteq Pairs /\ Dies

(* Stop *)

\* SIGINT or SIGTERM; Shutdown closes the listeners first.
Shutdown ==
    /\ process = "serving"
    /\ process' = "stopping"
    /\ UNCHANGED <<keys, row, handlerVars>>

\* Shutdown returns when no request is left or when its time is over.  But
\* ListenAndServe has returned an error when the listeners were closed, and the
\* goroutine that called it ends the process at once.
Exit ==
    /\ process = "stopping"
    /\ Dies

Crash ==
    /\ process \notin {"down", "stopping"}
    /\ Dies

------------------------------------------------------------------------------
Goes(p, location) == pc' = [pc EXCEPT ![p] = location]

\* Mutant: the request is still there when it has been answered.
Remembers(p, answer) ==
    /\ Goes(p, answer)
    /\ user' = [user EXCEPT ![p] = Nil]
    /\ UNCHANGED request

Answers(p, answer) ==
    /\ Goes(p, answer)
    /\ request' = [request EXCEPT ![p] = Nil]
    /\ user' = [user EXCEPT ![p] = Nil]

Holds(p, u) == user' = [user EXCEPT ![p] = u]

processVars == <<process, keys>>

(* What a handler does with a request before its first call *)

Begins(p, r, location, u) ==
    /\ process = "serving"
    /\ pc[p] \in Ended
    /\ Goes(p, location)
    /\ request' = [request EXCEPT ![p] = r]
    /\ user' = [user EXCEPT ![p] = u]
    /\ UNCHANGED <<processVars, row>>

Login(p) == \E r \in Logins : Begins(p, r, "authenticate", Nil)

\* The body has no password.  One that could not be bound is answered 400, and what was
\* bound of it is inserted all the same.
UserCreate(p) ==
    \E u \in Rows : u.password = Nil /\ Begins(p, [op |-> "create"], "insert", u)

UserUpdate(p) ==
    \E n \in Names, f \in Profiles :
        Begins(p, [op |-> "profile", name |-> n, profile |-> f], "read", Nil)

UserDelete(p) == Begins(p, [op |-> "delete"], "delete", Nil)

ResetPassword(p) ==
    \E w \in Passwords : Begins(p, [op |-> "password", password |-> w], "read", Nil)

UpdateAdmin(p) ==
    \E b \in BOOLEAN : Begins(p, [op |-> "admin", admin |-> b], "read", Nil)

\* Any other request, CurrentUser among them.
CurrentUser(p) == \E n \in Names : Begins(p, [op |-> "use", name |-> n], "jwt", Nil)

(* Login *)

\* The row itself.  A user without a password does not log in against the table.
DBAuthenticate(r) == {u \in {row} : u # Nil /\ u.name = r.name /\ u.password = r.password}

\* A user made of what the directory or the provider says.
DirectoryUsers(r, admin) ==
    {[name |-> r.name, admin |-> admin, password |-> Nil, profile |-> f] : f \in Profiles}

LDAPAuthenticate(r)   == DirectoryUsers(r, TRUE)
OAuth2Authenticate(r) == DirectoryUsers(r, FALSE)

Authenticated(r) ==
    CASE r.type = "db"   -> DBAuthenticate(r)
      [] r.type = "ldap" -> LDAPAuthenticate(r)
      [] OTHER           -> OAuth2Authenticate(r)

Authenticate(p) ==
    /\ pc[p] = "authenticate"
    /\ \/ /\ \E u \in Authenticated(request[p]) : Holds(p, u)
          /\ request' = [request EXCEPT ![p] = LoggedIn]
          /\ Goes(p, "find")
       \/ Answers(p, "failed")
    /\ UNCHANGED <<processVars, row>>

Named(n) == row # Nil /\ row.name = n

\* EnsureUser: a user that is not there is inserted as it was authenticated.  If
\* another has the name, the login goes on with that one's row.
FindUser(p) ==
    /\ pc[p] = "find"
    /\ \/ /\ Named(user[p].name)
          /\ Holds(p, [row EXCEPT !.profile = user[p].profile])
          /\ Goes(p, "update")
          /\ UNCHANGED request
       \/ /\ ~Named(user[p].name)
          /\ \E l \in {"insert", "sign"} : Goes(p, l)
          /\ UNCHANGED <<request, user>>
       \/ Answers(p, "failed")
    /\ UNCHANGED <<processVars, row>>

\* Names are unique.  While this user is there, another name is that of another.
Inserts(u) == ~Named(u.name) /\ row' = IF row = Nil THEN u ELSE row

\* Mutant: an insertion that finds the name taken is tried again as an update.
InsertsOrFinds(p) ==
    /\ pc[p] = "insert"
    /\ \/ /\ Inserts(user[p])
          /\ \/ request[p].op = "login" /\ Goes(p, "sign") /\ UNCHANGED <<request, user>>
             \/ request[p].op = "create" /\ \E answer \in {"ok", "failed"} : Answers(p, answer)
       \/ /\ Named(user[p].name)
          /\ request[p].op = "login"
          /\ Goes(p, "find")
          /\ UNCHANGED <<row, request, user>>
       \/ Answers(p, "failed") /\ UNCHANGED row
    /\ UNCHANGED processVars

InsertUser(p) ==
    /\ pc[p] = "insert"
    /\ \/ /\ Inserts(user[p])
          /\ \/ request[p].op = "login" /\ Goes(p, "sign") /\ UNCHANGED <<request, user>>
             \/ request[p].op = "create" /\ \E answer \in {"ok", "failed"} : Answers(p, answer)
       \/ Answers(p, "failed") /\ UNCHANGED row
    /\ UNCHANGED processVars

\* Mutant: the row is saved as a whole.
SavesUser(p) ==
    /\ pc[p] = "update"
    /\ \/ /\ row' = user[p]
          /\ Goes(p, "sign")
          /\ UNCHANGED <<request, user>>
       \/ Answers(p, "failed") /\ UNCHANGED row
    /\ UNCHANGED processVars

\* Selected columns of the row that was found, if it is there still, under whatever
\* name.
UpdateLogin(p) ==
    /\ pc[p] = "update"
    /\ \/ /\ \/ row # Nil /\ row' = [row EXCEPT !.profile = user[p].profile]
             \/ UNCHANGED row
          /\ Goes(p, "sign")
          /\ UNCHANGED <<request, user>>
       \/ Answers(p, "failed") /\ UNCHANGED row
    /\ UNCHANGED processVars

generateJWT(p) ==
    /\ pc[p] = "sign"
    /\ \E answer \in {"ok", "failed"} : Answers(p, answer)
    /\ UNCHANGED <<processVars, row>>

\* A token is good if this process can verify it and a user has the name in it.
JWTauth(p) ==
    /\ pc[p] = "jwt"
    /\ \/ Named(request[p].name) /\ Answers(p, "ok")
       \/ Answers(p, "failed")
    /\ UNCHANGED <<processVars, row>>

(* Administration of users *)

UpdateUserAdmin(u, r)   == [u EXCEPT !.admin = r.admin]
ResetUserPassword(u, r) == [u EXCEPT !.password = r.password]
UpdateUserById(u, r)    == [u EXCEPT !.name = r.name, !.profile = r.profile]

Changed(u, r) ==
    CASE r.op = "admin"    -> UpdateUserAdmin(u, r)
      [] r.op = "password" -> ResetUserPassword(u, r)
      [] OTHER             -> UpdateUserById(u, r)

ReadUser(p) ==
    /\ pc[p] = "read"
    /\ \/ /\ row # Nil
          /\ Holds(p, Changed(row, request[p]))
          /\ Goes(p, "save")
          /\ UNCHANGED request
       \/ Answers(p, "failed")
    /\ UNCHANGED <<processVars, row>>

\* Every column; gorm inserts a row that is no longer there.
SaveUser(p) ==
    /\ pc[p] = "save"
    /\ \/ Answers(p, "ok") /\ row' = user[p]
       \/ Answers(p, "failed") /\ UNCHANGED row
    /\ UNCHANGED processVars

DeleteUser(p) ==
    /\ pc[p] = "delete"
    /\ \/ Answers(p, "ok") /\ row' = Nil
       \/ Answers(p, "failed") /\ UNCHANGED row
    /\ UNCHANGED processVars

------------------------------------------------------------------------------
HandlerStep(p) ==
    \/ Authenticate(p)
    \/ FindUser(p)
    \/ InsertUser(p)
    \/ UpdateLogin(p)
    \/ generateJWT(p)
    \/ JWTauth(p)
    \/ ReadUser(p)
    \/ SaveUser(p)
    \/ DeleteUser(p)

Asks(p) ==
    \/ Login(p)
    \/ UserCreate(p)
    \/ UserUpdate(p)
    \/ UserDelete(p)
    \/ ResetPassword(p)
    \/ UpdateAdmin(p)
    \/ CurrentUser(p)

main ==
    \/ Start
    \/ InitRsaKey
    \/ WritePrivate
    \/ WritePublic
    \/ LoadKeys
    \/ Shutdown
    \/ Exit

Next ==
    \/ main
    \/ Crash
    \/ \E p \in Handlers : HandlerStep(p) \/ Asks(p)

Spec == Init /\ [][Next]_vars

\* Goroutines run and the database answers.
FairSpec == Spec /\ \A p \in Handlers : WF_vars(HandlerStep(p))

------------------------------------------------------------------------------
(* Properties                                                              *)

\* The server verifies tokens with the key that belongs to the one it signs them
\* with, whenever its starts were interrupted: otherwise it would refuse every token
\* it issues (rsakey.go:21-118).
KeysMatch == Serves => RsaPrivateKey = RsaPublicKey

\* A login changes neither the password, the rights nor the name of a user that is
\* there, even when an administrator has changed them since it read the row, and does
\* not bring back a user that was deleted after it was found (user.go:117-135).
LoginKeepsRights ==
    [][\A p \in Handlers :
           pc[p] = "update" /\ pc'[p] # "update" /\ row' # row =>
               /\ row # Nil /\ row' # Nil
               /\ row'.name = row.name
               /\ row'.admin = row.admin
               /\ row'.password = row.password]_vars

\* Every request is answered, or the process ends.
RequestsEnd == \A p \in Handlers : pc[p] \notin Ended ~> pc[p] \in Ended

===============================================================================
