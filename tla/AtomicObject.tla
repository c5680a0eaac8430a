----------------------------- MODULE AtomicObject -----------------------------
(***************************************************************************)
(* What the handlers that change an object of a Kubernetes cluster promise, *)
(* however they read, modify and write it: a request takes effect at one    *)
(* moment, on the object as it is at that moment, and at most once; it is   *)
(* answered "ok" only if it did.                                           *)
(***************************************************************************)
CONSTANTS
    Handlers,       \* goroutines serving an HTTP request
    Requests,       \* what they may be asked to do
    Contents,       \* what the object may hold
    Nil,            \* no object
    Results(_, _)   \* what a request may make of the object: {} when it is refused

VARIABLES
    object,   \* the object in the API server
    asked,    \* the request each handler serves
    phase     \* how far it has come

contract == <<object, asked, phase>>

Ended == {"idle", "ok", "failed"}

Start ==
    /\ object \in Contents \cup {Nil}
    /\ asked = [p \in Handlers |-> Nil]
    /\ phase = [p \in Handlers |-> "idle"]

Accept(p) ==
    /\ phase[p] \in Ended
    /\ phase' = [phase EXCEPT ![p] = "asked"]
    /\ asked'[p] \in Requests
    /\ asked' = [asked EXCEPT ![p] = asked'[p]]
    /\ UNCHANGED object

Ends(p) ==
    /\ \E s \in {"ok", "failed"} : phase' = [phase EXCEPT ![p] = s]
    /\ asked' = [asked EXCEPT ![p] = Nil]

\* The answer comes at once or later; it may be lost, and the client sees an error.
TakeEffect(p) ==
    /\ phase[p] = "asked"
    /\ object' \in Results(asked[p], object)
    /\ \/ Ends(p)
       \/ phase' = [phase EXCEPT ![p] = "applied"] /\ UNCHANGED asked

Refuse(p) ==
    /\ phase[p] = "asked"
    /\ Ends(p)
    /\ phase'[p] = "failed"
    /\ UNCHANGED object

Conclude(p) ==
    /\ phase[p] = "applied"
    /\ Ends(p)
    /\ UNCHANGED object

\* Everybody else who writes to the cluster.
Outside ==
    /\ object' \in Contents \cup {Nil}
    /\ UNCHANGED <<asked, phase>>

Step == Outside \/ \E p \in Handlers : Accept(p) \/ TakeEffect(p) \/ Refuse(p) \/ Conclude(p)

Contract == Start /\ [][Step]_contract
===============================================================================
