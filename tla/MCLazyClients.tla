---------------------------- MODULE MCLazyClients ----------------------------
(* Instances of LazyClients for TLC: the .cfg files give the constants.     *)
EXTENDS LazyClients, TLC

Goroutines == Permutations(Callers)

\* What a later step can still tell apart: the state without the factories and
\* the channels that nothing refers to, and without shuttingDown where an informer
\* runs, as nothing starts it again.
Later(i) == IF i.running THEN [i EXCEPT !.shuttingDown = TRUE] ELSE i

Reachable ==
    <<managers, object, current,
      [f \in Factories |-> IF f \in LiveFactories THEN Later(informers[f]) ELSE Nil],
      closed \ FreshCaches, stopped, pc, wanted, held, found, channel, cleanerVars>>
==============================================================================
