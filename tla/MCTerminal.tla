------------------------------ MODULE MCTerminal ------------------------------
(* Instances of Terminal for TLC: the .cfg files give the constants.        *)
EXTENDS Terminal

CONSTANTS dev, web, app, db, one

Of(n, p, c) == [namespace |-> n, pod |-> p, container |-> c]

\* Two containers of the pod web-1 of the namespace dev, and one of the pod 1 of the
\* namespace dev-web.
TwoPods ==
    {Of(<<dev>>, <<web, one>>, <<app>>), Of(<<dev>>, <<web, one>>, <<db>>),
     Of(<<dev, web>>, <<one>>, <<app>>)}

\* Those of the namespace dev-web and those named db have no bash.
SomeShells(c) == IF c.namespace # <<dev>> \/ c.container = <<db>> THEN {"sh"} ELSE {"bash", "sh"}
===============================================================================
