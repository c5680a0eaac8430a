------------------------------- MODULE Terminal -------------------------------
(***************************************************************************)
(* The web terminal, controllers/kubernetes/pod/terminal.go: a client binds  *)
(* a socket to a container, the server finds a shell there, starts it and    *)
(* passes input, window sizes and output on until one side ends.  The        *)
(* socket, the streams of client-go and the shell are external.             *)
(*                                                                         *)
(* Sessions follow each other; the cache of shells outlives them.  Output is *)
(* passed on unchanged and left out.                                       *)
(***************************************************************************)
EXTENDS Lists

CONSTANTS
    Containers,  \* [namespace, pod, container], each name a sequence of words
    Shells(_),   \* which of "bash" and "sh" a container has
    TTL,         \* time for which a shell is cached
    Capacity,    \* of the channel of window sizes
    Lengths,     \* of the pieces of input that a client sends
    Buffer,      \* what client-go reads at once
    MaxTime,     \* bound: clock ticks
    MaxMessages, \* bound: pieces of input and sizes that a client sends in a session
    Nil

ASSUME TerminalAssumption ==
    /\ \A c \in Containers : Shells(c) \subseteq {"bash", "sh"}
    /\ Capacity \in Nat \ {0}
    /\ {TTL, Buffer, MaxTime, MaxMessages} \cup Lengths \subseteq Nat
    /\ Nil \notin Containers \cup Nat

VARIABLES
    now,
    shellCache,  \* what was detected for each key, when, and in which container
    stage,       \* of the session
    container,   \* the one it is bound to
    shell,       \* what it will start, as in shellCache
    socket,      \* "open" or "closed"
    inbox,       \* what the client has sent and the server has not received
    typed,       \* characters the client has sent in this session
    resized,     \* sizes it has sent, numbered from 1
    reader,      \* the goroutine that copies the socket to the shell
    blocked,     \* the size it wants to put in sizeChan, Nil for none
    sizeChan,
    resizer,     \* the size that the resizing goroutine has taken, Nil for none
    process,     \* the shell: "none", "running" or "exited"
    received,    \* characters it was given
    size         \* the last size it was given

client == <<socket, inbox, typed, resized>>
streams == <<reader, blocked, sizeChan, resizer>>
remote == <<process, received, size>>
vars == <<now, shellCache, stage, container, shell, client, streams, remote>>

\* Mutant: containers of a pod share a key.
PodKey(c) == c.namespace \o c.pod

\* Names hold dashes, and a dash joins them.
cacheKey(c) == c.namespace \o c.pod \o c.container

Keys == {cacheKey(c) : c \in Containers}

Detections == [shell : {"bash", "sh"}, time : 0..MaxTime, container : Containers]

ASSUME NilAssumption == Nil \notin Detections

Resizes == [op : {"resize"}, size : 1..MaxMessages]

Messages == [op : {"stdin"}, length : Lengths] \cup Resizes \cup [op : {"junk"}]

TypeOK ==
    /\ now \in 0..MaxTime
    /\ shellCache \in [Keys -> Detections \cup {Nil}]
    /\ stage \in {"binding", "checking", "probing", "starting", "running", "over"}
    /\ container \in Containers
    /\ shell \in Detections \cup {Nil}
    /\ socket \in {"open", "closed"}
    /\ inbox \in Seq(Messages)
    /\ {typed, received} \subseteq Nat
    /\ {resized, size} \subseteq 0..MaxMessages
    /\ reader \in {"off", "reading", "sending"}
    /\ {blocked, resizer} \subseteq 1..MaxMessages \cup {Nil}
    /\ sizeChan \in Seq(1..MaxMessages)
    /\ Len(sizeChan) <= Capacity
    /\ process \in {"none", "running", "exited"}

Init ==
    /\ now = 0
    /\ shellCache = [k \in Keys |-> Nil]
    /\ stage = "over"
    /\ container \in Containers
    /\ shell = Nil
    /\ socket = "closed"
    /\ inbox = <<>>
    /\ typed = 0 /\ resized = 0 /\ received = 0 /\ size = 0
    /\ reader = "off"
    /\ blocked = Nil /\ resizer = Nil
    /\ sizeChan = <<>>
    /\ process = "none"

------------------------------------------------------------------------------
(* The client                                                              *)

\* It has asked for a token and opens a socket, with which a session begins.
Connect(c) ==
    /\ stage = "over" /\ reader = "off" /\ sizeChan = <<>> /\ resizer = Nil
    /\ stage' = "binding"
    /\ container' = c
    /\ shell' = Nil
    /\ socket' = "open"
    /\ inbox' = <<>>
    /\ typed' = 0 /\ resized' = 0 /\ received' = 0 /\ size' = 0
    /\ process' = "none"
    /\ UNCHANGED <<now, shellCache, streams>>

Send(m) ==
    /\ socket = "open"
    /\ Len(inbox) < MaxMessages
    /\ inbox' = Append(inbox, m)
    /\ UNCHANGED <<now, shellCache, stage, container, shell, socket, streams, remote>>

Type(n) ==
    /\ typed < MaxMessages
    /\ Send([op |-> "stdin", length |-> n])
    /\ typed' = typed + n
    /\ UNCHANGED resized

Resize ==
    /\ resized < MaxMessages
    /\ Send([op |-> "resize", size |-> resized + 1])
    /\ resized' = resized + 1
    /\ UNCHANGED typed

\* A message of another kind, or none at all.
SendJunk ==
    /\ Send([op |-> "junk"])
    /\ UNCHANGED <<typed, resized>>

Disconnect ==
    /\ socket = "open"
    /\ socket' = "closed"
    /\ UNCHANGED <<now, shellCache, stage, container, shell, inbox, typed, resized, streams, remote>>

------------------------------------------------------------------------------
(* From the socket to the shell: handleTerminalSession, preCheckShell        *)

\* A socket that was closed, a first message that is not a bind, a token that is
\* wrong or too old, a cluster without client: nothing is started, and the socket
\* is left as it is.
handleTerminalSession ==
    /\ stage = "binding"
    /\ stage' \in {"checking", "over"}
    /\ UNCHANGED <<now, shellCache, container, shell, client, streams, remote>>

checkShellCache ==
    /\ stage = "checking"
    /\ LET cached == shellCache[cacheKey(container)]
       IN  IF cached # Nil /\ now - cached.time < TTL
           THEN shell' = cached /\ stage' = "starting"
           ELSE stage' = "probing" /\ UNCHANGED shell
    /\ UNCHANGED <<now, shellCache, container, client, streams, remote>>

\* A shell is not found if it is not there or if the container cannot be asked;
\* when none is found, it is taken to be sh.
preCheckShell ==
    /\ stage = "probing"
    /\ \E found \in {"sh"} \cup (Shells(container) \cap {"bash"}) :
           /\ shell' = [shell |-> found, time |-> now, container |-> container]
           /\ shellCache' = [shellCache EXCEPT ![cacheKey(container)] = shell']
    /\ stage' = "starting"
    /\ UNCHANGED <<now, container, client, streams, remote>>

\* Every ten minutes.
CleanupShellCache ==
    /\ \E k \in Keys : shellCache[k] # Nil /\ now - shellCache[k].time > TTL
    /\ shellCache' = [k \in Keys |->
           IF shellCache[k] # Nil /\ now - shellCache[k].time > TTL THEN Nil ELSE shellCache[k]]
    /\ UNCHANGED <<now, stage, container, shell, client, streams, remote>>

\* The stream cannot be set up, or there is no such shell: the session ends.
startProcess ==
    /\ stage = "starting"
    /\ \/ /\ stage' = "over"
          /\ socket' = "closed"
          /\ UNCHANGED <<reader, process>>
       \/ /\ shell.shell \in Shells(container)
          /\ stage' = "running"
          /\ reader' = "reading"
          /\ process' = "running"
          /\ UNCHANGED socket
    /\ UNCHANGED <<now, shellCache, container, shell, inbox, typed, resized,
                   blocked, sizeChan, resizer, received, size>>

------------------------------------------------------------------------------
(* The goroutines of the stream; Read and Next are called by client-go       *)

\* The end of the input, which is nothing to a shell that does not read.
ReaderEnds ==
    /\ reader' = "off"
    /\ UNCHANGED <<now, shellCache, stage, container, shell, socket, typed, resized,
                   blocked, sizeChan, resizer, process, received, size>>

\* Mutant: the last character is taken for the end of the string.
CopiedShort(n) == IF n < Buffer THEN n ELSE Buffer - 1

\* What does not fit in the buffer is lost.
Copied(n) == IF n < Buffer THEN n ELSE Buffer

\* Mutant: a size for which there is no room is dropped.
DropsSize ==
    /\ reader = "reading"
    /\ \/ socket = "closed" /\ ReaderEnds /\ UNCHANGED inbox
       \/ /\ inbox # <<>>
          /\ inbox' = Tail(inbox)
          /\ LET m == Head(inbox) IN
             \/ m.op = "junk" /\ ReaderEnds
             \/ /\ m.op = "stdin"
                /\ received' = received + Copied(m.length)
                /\ UNCHANGED <<sizeChan, process, size>>
             \/ /\ m.op = "resize"
                /\ sizeChan' = IF Len(sizeChan) < Capacity THEN Append(sizeChan, m.size) ELSE sizeChan
                /\ UNCHANGED remote
          /\ UNCHANGED <<now, shellCache, stage, container, shell, socket, typed, resized,
                         reader, blocked, resizer>>

\* The socket is closed, the message is not understood, or the shell takes no
\* more: the input ends.
Read ==
    /\ reader = "reading"
    /\ \/ socket = "closed" /\ ReaderEnds /\ UNCHANGED inbox
       \/ /\ inbox # <<>>
          /\ inbox' = Tail(inbox)
          /\ LET m == Head(inbox) IN
             \/ m.op = "junk" /\ ReaderEnds
             \/ m.op = "stdin" /\ process = "exited" /\ ReaderEnds
             \/ /\ m.op = "stdin" /\ process = "running"
                /\ received' = received + Copied(m.length)
                /\ UNCHANGED <<now, shellCache, stage, container, shell, socket, typed, resized,
                               streams, process, size>>
             \/ /\ m.op = "resize"
                /\ reader' = "sending"
                /\ blocked' = m.size
                /\ UNCHANGED <<now, shellCache, stage, container, shell, socket, typed, resized,
                               sizeChan, resizer, remote>>

\* Mutant: the channel takes one more.
SendsMore ==
    /\ reader = "sending"
    /\ Len(sizeChan) <= Capacity
    /\ sizeChan' = Append(sizeChan, blocked)
    /\ blocked' = Nil
    /\ reader' = "reading"
    /\ UNCHANGED <<now, shellCache, stage, container, shell, client, resizer, remote>>

\* The reader waits while the channel is full.
SendSize ==
    /\ reader = "sending"
    /\ Len(sizeChan) < Capacity
    /\ sizeChan' = Append(sizeChan, blocked)
    /\ blocked' = Nil
    /\ reader' = "reading"
    /\ UNCHANGED <<now, shellCache, stage, container, shell, client, resizer, remote>>

\* Nothing ever ends the goroutine: it goes on after its session.
NextSize ==
    /\ process # "none"
    /\ resizer = Nil
    /\ sizeChan # <<>>
    /\ resizer' = Head(sizeChan)
    /\ sizeChan' = Tail(sizeChan)
    /\ UNCHANGED <<now, shellCache, stage, container, shell, client, reader, blocked, remote>>

PassSize ==
    /\ resizer # Nil
    /\ size' = IF process = "running" THEN resizer ELSE size
    /\ resizer' = Nil
    /\ UNCHANGED <<now, shellCache, stage, container, shell, client,
                   reader, blocked, sizeChan, process, received>>

\* Mutant: a shell that has ended is started again, as if it had not been found.
StartsAgain ==
    /\ stage = "running"
    /\ process = "exited"
    /\ stage' = "starting"
    /\ UNCHANGED <<now, shellCache, container, shell, client, streams, remote>>

\* The output has ended, and so has WaitForTerminal.
WaitForTerminal ==
    /\ stage = "running"
    /\ process = "exited"
    /\ stage' = "over"
    /\ socket' = "closed"
    /\ UNCHANGED <<now, shellCache, container, shell, inbox, typed, resized, streams, remote>>

------------------------------------------------------------------------------
(* The shell and the clock                                                  *)

\* It is left, its container is stopped, or the connection to it breaks; none of this
\* need happen, not even when its input has ended.
Exit ==
    /\ process = "running"
    /\ process' = "exited"
    /\ UNCHANGED <<now, shellCache, stage, container, shell, client, streams, received, size>>

Tick ==
    /\ now < MaxTime
    /\ now' = now + 1
    /\ UNCHANGED <<shellCache, stage, container, shell, client, streams, remote>>

------------------------------------------------------------------------------
ServerStep ==
    \/ checkShellCache
    \/ preCheckShell
    \/ startProcess
    \/ WaitForTerminal

Next ==
    \/ \E c \in Containers : Connect(c)
    \/ \E n \in Lengths : Type(n)
    \/ Resize
    \/ SendJunk
    \/ Disconnect
    \/ handleTerminalSession
    \/ ServerStep
    \/ Read
    \/ SendSize
    \/ NextSize
    \/ PassSize
    \/ CleanupShellCache
    \/ Exit
    \/ Tick

Spec == Init /\ [][Next]_vars

\* Goroutines run and calls end.  Nothing makes a client send its
\* first message, and nothing ends a shell: the stream has no deadline.
FairSpec ==
    /\ Spec
    /\ WF_vars(ServerStep)
    /\ WF_vars(Read)
    /\ WF_vars(SendSize)
    /\ WF_vars(NextSize)
    /\ WF_vars(PassSize)

------------------------------------------------------------------------------
(* Properties                                                              *)

Some(x) == IF x = Nil THEN <<>> ELSE <<x>>

Sizes(messages) == LET m == Filter(messages, Resizes) IN [i \in DOMAIN m |-> m[i].size]

\* While the shell runs and its input has not ended, the sizes that the client sent
\* and the shell has not got are, in the order they were sent, with the resizing
\* goroutine, in the channel, with the reader and in the socket: none is lost or
\* overtaken, however full the channel is (terminal.go:75-107).
SizesInOrder ==
    process = "running" /\ reader # "off" =>
        Some(resizer) \o sizeChan \o Some(blocked) \o Sizes(inbox)
            = [i \in 1..(resized - size) |-> size + i]

Characters(m) == IF m.op = "stdin" THEN m.length ELSE 0

Typed(messages) == Total([i \in DOMAIN messages |-> Characters(messages[i])])

\* Meanwhile what was typed arrives once and, if no piece is longer than the buffer,
\* whole, whatever sizes the client sends between (terminal.go:96-103).
InputWhole ==
    /\ process = "running" /\ reader # "off"
    /\ \A n \in Lengths : n <= Buffer
    => received + Typed(inbox) = typed

\* The shell of a session was looked for in its own container, by this session or by
\* an earlier one, or in one whose names are joined to the same ones
\* (terminal.go:134-194): never in another container of the pod.
OwnShell ==
    stage \in {"starting", "running"} =>
        LET other == shell.container
        IN  other.namespace \o other.pod \o other.container
                = container.namespace \o container.pod \o container.container

\* A size that the client sent while the shell runs reaches it, unless one of the
\* three ends first (terminal.go:100-103).
SizesArrive ==
    \A k \in 1..MaxMessages :
        process = "running" /\ reader # "off" /\ resized = k
            ~> size >= k \/ process # "running" \/ reader = "off"

\* When the shell has ended, so does the session, with its socket and its goroutines
\* but the one that waits for sizes; when the client has gone, the goroutine that reads
\* from it ends, even if it was waiting for room in a full channel
\* (terminal.go:75-107, 401-423).
SessionEnds ==
    /\ process = "exited" ~> stage = "over" /\ socket = "closed" /\ reader = "off"
    /\ socket = "closed" ~> reader = "off"

===============================================================================
