----------------------------- MODULE TerminalProofs -----------------------------
(***************************************************************************)
(* Proofs about Terminal: what is cached under a key was detected in a      *)
(* container of that key (Cached), so that a session starts a shell of its   *)
(* own (Bound); and the sizes and the input on their way to the shell (Flow) *)
(* are those the client has sent.  What Sizes and Typed make of a list that  *)
(* grows at its end and shrinks at its head is what ListsProofs proves about *)
(* Filter and Total.                                                       *)
(***************************************************************************)
EXTENDS Terminal, ListsProofs

Cached == \A k \in Keys : shellCache[k] # Nil => cacheKey(shellCache[k].container) = k

Bound ==
    stage \in {"starting", "running"} =>
        shell # Nil /\ cacheKey(shell.container) = cacheKey(container)

\* A reader that waits at the channel has something to put in it.
Sending == reader = "sending" => blocked # Nil

IInv == TypeOK /\ Cached /\ Bound /\ Sending

\* The assumption, taken apart.
LEMMA Assumed ==
    /\ Capacity \in Nat /\ Capacity >= 1 /\ TTL \in Nat /\ Buffer \in Nat /\ MaxTime \in Nat
    /\ MaxMessages \in Nat /\ Lengths \subseteq Nat /\ Nil \notin Containers /\ Nil \notin Nat
BY TerminalAssumption

LEMMA InitInv == Init => IInv
BY Assumed DEF Init, IInv, TypeOK, Cached, Bound, Sending, Keys

------------------------------------------------------------------------------
(* The client                                                              *)

LEMMA ConnectInv == ASSUME IInv, NEW c \in Containers, Connect(c) PROVE IInv'
BY Assumed DEF Connect, IInv, TypeOK, Cached, Bound, Sending, streams

LEMMA SendInv ==
    ASSUME IInv, NEW m \in Messages, Send(m), typed' \in Nat, resized' \in 0..MaxMessages
    PROVE  IInv'
<1>1. inbox' \in Seq(Messages)
  BY DEF Send, IInv, TypeOK
<1>2. UNCHANGED <<now, shellCache, stage, container, shell, socket, reader, blocked, sizeChan,
                  resizer, process, received, size>>
  BY DEF Send, streams, remote
<1>3. QED
  BY <1>1, <1>2 DEF IInv, TypeOK, Cached, Bound, Sending

LEMMA ClientInv ==
    ASSUME IInv, (\E n \in Lengths : Type(n)) \/ Resize \/ SendJunk \/ Disconnect
    PROVE  IInv'
<1>1. typed \in Nat /\ resized \in 0..MaxMessages
  BY DEF IInv, TypeOK
<1>2. ASSUME NEW n \in Lengths, Type(n) PROVE IInv'
  <2>1. [op |-> "stdin", length |-> n] \in Messages
    BY DEF Messages
  <2>2. typed' \in Nat
    BY <1>1, <1>2, Assumed DEF Type
  <2>3. QED
    BY <1>1, <1>2, <2>1, <2>2, SendInv DEF Type
<1>3. CASE Resize
  <2>1. resized + 1 \in 1..MaxMessages
    BY <1>1, <1>3, Assumed DEF Resize
  <2>2. [op |-> "resize", size |-> resized + 1] \in Messages
    BY <2>1 DEF Messages, Resizes
  <2>3. resized' \in 0..MaxMessages
    BY <1>3, <2>1 DEF Resize
  <2>4. QED
    BY <1>1, <1>3, <2>2, <2>3, SendInv DEF Resize
<1>4. CASE SendJunk
  <2>1. [op |-> "junk"] \in Messages
    BY DEF Messages
  <2>2. QED
    BY <1>1, <1>4, <2>1, SendInv DEF SendJunk
<1>5. CASE Disconnect
  BY <1>5 DEF Disconnect, IInv, TypeOK, Cached, Bound, Sending, streams, remote
<1>6. QED
  BY <1>2, <1>3, <1>4, <1>5

------------------------------------------------------------------------------
(* From the socket to the shell                                            *)

\* A session takes up what an earlier one has detected under its key.
LEMMA CheckInv == ASSUME IInv, checkShellCache PROVE IInv'
<1> DEFINE cached == shellCache[cacheKey(container)]
<1>1. cacheKey(container) \in Keys
  BY DEF IInv, TypeOK, Keys
<1>2. cached \in Detections \cup {Nil} /\ (cached # Nil => cacheKey(cached.container) = cacheKey(container))
  BY <1>1 DEF IInv, TypeOK, Cached
<1>3. UNCHANGED <<now, shellCache, container, socket, inbox, typed, resized, reader, blocked,
                  sizeChan, resizer, process, received, size>>
  BY DEF checkShellCache, client, streams, remote
<1>4. \/ cached # Nil /\ shell' = cached /\ stage' = "starting"
      \/ stage' = "probing" /\ UNCHANGED shell
  BY DEF checkShellCache
<1> HIDE DEF cached
<1>5. TypeOK'
  BY <1>2, <1>3, <1>4 DEF IInv, TypeOK
<1>6. QED
  BY <1>2, <1>3, <1>4, <1>5 DEF IInv, Cached, Bound, Sending

\* Or detects one itself, and leaves it there.
LEMMA PreCheckInv == ASSUME IInv, preCheckShell PROVE IInv'
<1>1. PICK found \in {"sh"} \cup (Shells(container) \cap {"bash"}) :
          /\ shell' = [shell |-> found, time |-> now, container |-> container]
          /\ shellCache' = [shellCache EXCEPT ![cacheKey(container)] = shell']
  BY DEF preCheckShell
<1>2. /\ stage' = "starting"
      /\ UNCHANGED <<now, container, socket, inbox, typed, resized, reader, blocked, sizeChan,
                     resizer, process, received, size>>
  BY DEF preCheckShell, client, streams, remote
<1>3. shell' \in Detections /\ shell'.container = container /\ cacheKey(container) \in Keys
  BY <1>1 DEF IInv, TypeOK, Detections, Keys
<1>4. /\ shellCache' \in [Keys -> Detections \cup {Nil}]
      /\ \A k \in Keys : shellCache'[k] = IF k = cacheKey(container) THEN shell' ELSE shellCache[k]
  BY <1>1, <1>3 DEF IInv, TypeOK
<1>5. shell' # Nil
  <2>1. Nil \notin Detections
    BY NilAssumption
  <2>2. QED
    BY <1>3, <2>1
<1>6. TypeOK'
  BY <1>2, <1>3, <1>4 DEF IInv, TypeOK
<1>7. Cached' /\ Bound' /\ Sending'
  BY <1>2, <1>3, <1>4, <1>5 DEF IInv, Cached, Bound, Sending
<1>8. QED
  BY <1>6, <1>7 DEF IInv

\* What a cleanup leaves was there before.
LEMMA CleanupInv == ASSUME IInv, CleanupShellCache PROVE IInv'
<1>1. UNCHANGED <<now, stage, container, shell, socket, inbox, typed, resized, reader, blocked,
                  sizeChan, resizer, process, received, size>>
  BY DEF CleanupShellCache, client, streams, remote
<1>2. /\ DOMAIN shellCache' = Keys
      /\ shellCache' \in [Keys -> Detections \cup {Nil}]
      /\ \A k \in Keys : shellCache'[k] \in {shellCache[k], Nil}
  BY DEF CleanupShellCache, IInv, TypeOK
<1>3. TypeOK'
  BY <1>1, <1>2 DEF IInv, TypeOK
<1>4. Cached' /\ Bound' /\ Sending'
  BY <1>1, <1>2 DEF IInv, Cached, Bound, Sending
<1>5. QED
  BY <1>3, <1>4 DEF IInv

\* A session starts, runs and ends with the shell it has.
LEMMA StageInv ==
    ASSUME IInv, handleTerminalSession \/ startProcess \/ WaitForTerminal
    PROVE  IInv'
<1>1. CASE handleTerminalSession
  BY <1>1 DEF handleTerminalSession, IInv, TypeOK, Cached, Bound, Sending, client, streams, remote
<1>2. CASE startProcess
  BY <1>2 DEF startProcess, IInv, TypeOK, Cached, Bound, Sending
<1>3. CASE WaitForTerminal
  BY <1>3 DEF WaitForTerminal, IInv, TypeOK, Cached, Bound, Sending, streams, remote
<1>4. QED
  BY <1>1, <1>2, <1>3

------------------------------------------------------------------------------
(* The goroutines of the stream                                            *)

\* What the reader takes from the socket is a message, and a size is one of the
\* sizes there are.
LEMMA ReadInv == ASSUME IInv, Read PROVE IInv'
<1>1. UNCHANGED <<now, shellCache, stage, container, shell, socket, typed, resized, sizeChan,
                  resizer, process, size>>
  BY DEF Read, ReaderEnds, streams, remote
<1>2. /\ inbox' \in Seq(Messages)
      /\ inbox # <<>> => Head(inbox) \in Messages
  <2>1. inbox' = inbox \/ (inbox # <<>> /\ inbox' = Tail(inbox))
    BY DEF Read
  <2>2. inbox \in Seq(Messages)
    BY DEF IInv, TypeOK
  <2>3. inbox # <<>> => Head(inbox) \in Messages /\ Tail(inbox) \in Seq(Messages)
    BY <2>2
  <2>4. QED
    BY <2>1, <2>2, <2>3
<1>3. received' \in Nat
  <2>1. ASSUME Head(inbox).op = "stdin", inbox # <<>> PROVE Copied(Head(inbox).length) \in Nat
    BY <1>2, <2>1, Assumed DEF Messages, Resizes, Copied
  <2>2. \/ received' = received
        \/ /\ Head(inbox).op = "stdin" /\ inbox # <<>>
           /\ received' = received + Copied(Head(inbox).length)
    BY DEF Read, ReaderEnds, remote
  <2>3. received \in Nat
    BY DEF IInv, TypeOK
  <2>4. QED
    BY <2>1, <2>2, <2>3
<1>4. /\ reader' \in {"off", "reading", "sending"}
      /\ blocked' \in 1..MaxMessages \cup {Nil}
      /\ reader' = "sending" => blocked' # Nil
  <2>1. ASSUME Head(inbox).op = "resize", inbox # <<>> PROVE Head(inbox).size \in 1..MaxMessages
    BY <1>2, <2>1 DEF Messages, Resizes
  <2>2. ASSUME reader' = "sending"
        PROVE  Head(inbox).op = "resize" /\ inbox # <<>> /\ blocked' = Head(inbox).size
    BY <2>2 DEF Read, ReaderEnds, streams
  <2>3. CASE reader' = "sending"
    BY <2>1, <2>2, <2>3, Assumed
  <2>4. CASE reader' # "sending"
    BY <2>4 DEF Read, ReaderEnds, streams, IInv, TypeOK
  <2>5. QED
    BY <2>3, <2>4
<1>5. TypeOK'
  BY <1>1, <1>2, <1>3, <1>4 DEF IInv, TypeOK
<1>6. QED
  BY <1>1, <1>4, <1>5 DEF IInv, Cached, Bound, Sending

\* The channel holds no more than it may.
LEMMA SendSizeInv == ASSUME IInv, SendSize PROVE IInv'
<1>1. /\ sizeChan' = Append(sizeChan, blocked)
      /\ Len(sizeChan) < Capacity
      /\ blocked' = Nil /\ reader' = "reading"
      /\ UNCHANGED <<now, shellCache, stage, container, shell, socket, inbox, typed, resized,
                     resizer, process, received, size>>
  BY DEF SendSize, client, remote
<1>2. blocked \in 1..MaxMessages /\ sizeChan \in Seq(1..MaxMessages)
  BY DEF SendSize, IInv, TypeOK, Sending
<1>3. sizeChan' \in Seq(1..MaxMessages) /\ Len(sizeChan') <= Capacity
  BY <1>1, <1>2, Assumed
<1>4. TypeOK'
  BY <1>1, <1>3 DEF IInv, TypeOK
<1>5. QED
  BY <1>1, <1>4 DEF IInv, Cached, Bound, Sending

LEMMA NextSizeInv == ASSUME IInv, NextSize PROVE IInv'
<1>1. /\ sizeChan # <<>>
      /\ sizeChan' = Tail(sizeChan) /\ resizer' = Head(sizeChan)
      /\ UNCHANGED <<now, shellCache, stage, container, shell, socket, inbox, typed, resized,
                     reader, blocked, process, received, size>>
  BY DEF NextSize, client, remote
<1>2. sizeChan \in Seq(1..MaxMessages) /\ Len(sizeChan) <= Capacity
  BY DEF IInv, TypeOK
<1>3. /\ sizeChan' \in Seq(1..MaxMessages)
      /\ Len(sizeChan') <= Capacity
      /\ resizer' \in 1..MaxMessages
  BY <1>1, <1>2, Assumed
<1>4. TypeOK'
  BY <1>1, <1>3 DEF IInv, TypeOK
<1>5. QED
  BY <1>1, <1>4 DEF IInv, Cached, Bound, Sending

LEMMA PassSizeInv == ASSUME IInv, PassSize PROVE IInv'
<1>1. /\ size' \in {size, resizer} /\ resizer # Nil /\ resizer' = Nil
      /\ UNCHANGED <<now, shellCache, stage, container, shell, socket, inbox, typed, resized,
                     reader, blocked, sizeChan, process, received>>
  BY DEF PassSize, client
<1>2. size' \in 0..MaxMessages
  BY <1>1, Assumed DEF IInv, TypeOK
<1>3. TypeOK'
  BY <1>1, <1>2 DEF IInv, TypeOK
<1>4. QED
  BY <1>1, <1>3 DEF IInv, Cached, Bound, Sending

LEMMA ClockInv == ASSUME IInv, Exit \/ Tick \/ UNCHANGED vars PROVE IInv'
<1>1. CASE Exit
  BY <1>1 DEF Exit, IInv, TypeOK, Cached, Bound, Sending, client, streams
<1>2. CASE Tick
  BY <1>2, Assumed DEF Tick, IInv, TypeOK, Cached, Bound, Sending, client, streams, remote
<1>3. CASE UNCHANGED vars
  BY <1>3 DEF vars, IInv, TypeOK, Cached, Bound, Sending, client, streams, remote
<1>4. QED
  BY <1>1, <1>2, <1>3

LEMMA StepInv == ASSUME IInv, [Next]_vars PROVE IInv'
<1>1. ASSUME NEW c \in Containers, Connect(c) PROVE IInv'
  BY <1>1, ConnectInv
<1>2. CASE (\E n \in Lengths : Type(n)) \/ Resize \/ SendJunk \/ Disconnect
  BY <1>2, ClientInv
<1>3. CASE handleTerminalSession \/ startProcess \/ WaitForTerminal
  BY <1>3, StageInv
<1>4. CASE checkShellCache
  BY <1>4, CheckInv
<1>5. CASE preCheckShell
  BY <1>5, PreCheckInv
<1>6. CASE CleanupShellCache
  BY <1>6, CleanupInv
<1>7. CASE Read
  BY <1>7, ReadInv
<1>8. CASE SendSize
  BY <1>8, SendSizeInv
<1>9. CASE NextSize
  BY <1>9, NextSizeInv
<1>10. CASE PassSize
  BY <1>10, PassSizeInv
<1>11. CASE Exit \/ Tick \/ UNCHANGED vars
  BY <1>11, ClockInv
<1>12. QED
  BY <1>1, <1>2, <1>3, <1>4, <1>5, <1>6, <1>7, <1>8, <1>9, <1>10, <1>11 DEF Next, ServerStep

------------------------------------------------------------------------------
(* What is on its way to the shell                                         *)

Upto(a, b) == [i \in 1..(b - a) |-> a + i]

LEMMA UptoType ==
    ASSUME NEW a \in Nat, NEW b \in Nat
    PROVE  Upto(a, b) \in Seq(Nat) /\ (a <= b => Len(Upto(a, b)) = b - a)
<1>1. CASE a <= b
  <2> DEFINE n == b - a
  <2>1. n \in Nat
    BY <1>1
  <2>2. Upto(a, b) = [i \in 1..n |-> a + i]
    BY DEF Upto
  <2> HIDE DEF n
  <2>3. Upto(a, b) \in Seq(Nat) /\ Len(Upto(a, b)) = n
    BY <2>1, <2>2
  <2>4. QED
    BY <2>3 DEF n
<1>2. CASE ~ (a <= b)
  <2>1. 1..(b - a) = 1..0
    BY <1>2
  <2>2. Upto(a, b) = [i \in 1..0 |-> a + i]
    BY <2>1 DEF Upto
  <2>3. QED
    BY <1>2, <2>2
<1>3. QED
  BY <1>1, <1>2

LEMMA UptoAppend ==
    ASSUME NEW a \in Nat, NEW b \in Nat, a <= b
    PROVE  Append(Upto(a, b), b + 1) = Upto(a, b + 1)
<1> DEFINE s == Append(Upto(a, b), b + 1)
           t == Upto(a, b + 1)
<1>1. /\ Upto(a, b) \in Seq(Nat) /\ Len(Upto(a, b)) = b - a
      /\ t \in Seq(Nat) /\ Len(t) = (b + 1) - a
  <2>1. b + 1 \in Nat /\ a <= b + 1
    OBVIOUS
  <2>2. QED
    BY <2>1, UptoType
<1>2. s \in Seq(Nat) /\ Len(s) = (b - a) + 1 /\ b - a \in Nat
  BY <1>1
<1>3. ASSUME NEW i \in 1..Len(s) PROVE s[i] = t[i]
  <2>1. t[i] = a + i
    BY <1>2 DEF Upto
  <2>2. CASE i <= b - a
    <3>1. s[i] = Upto(a, b)[i]
      BY <1>1, <1>2, <2>2
    <3>2. QED
      BY <1>2, <2>1, <2>2, <3>1 DEF Upto
  <2>3. CASE i = (b - a) + 1
    <3>1. s[i] = b + 1
      BY <1>1, <2>3
    <3>2. QED
      BY <2>1, <2>3, <3>1
  <2>4. QED
    BY <1>2, <2>2, <2>3
<1> HIDE DEF s, t
<1>4. Len(s) = Len(t)
  BY <1>1, <1>2
<1>5. s = t
  BY <1>1, <1>2, <1>3, <1>4, SeqEqual
<1>6. QED
  BY <1>5 DEF s, t

LEMMA UptoHead ==
    ASSUME NEW a \in Nat, NEW b \in Nat, a <= b, NEW x \in Nat, NEW r \in Seq(Nat),
           <<x>> \o r = Upto(a, b)
    PROVE  x = a + 1 /\ a + 1 <= b /\ r = Upto(a + 1, b)
<1> DEFINE s == <<x>> \o r
           t == Upto(a + 1, b)
<1>1. /\ s \in Seq(Nat) /\ Len(s) = Len(r) + 1 /\ s[1] = x /\ Len(r) \in Nat
      /\ \A i \in 1..Len(r) : s[i + 1] = r[i]
  OBVIOUS
<1>2. s = Upto(a, b) /\ Len(s) = b - a
  BY UptoType
<1>3. 1 \in 1..(b - a) /\ a + 1 <= b
  BY <1>1, <1>2
<1>4. x = a + 1
  BY <1>1, <1>2, <1>3 DEF Upto
<1>5. t \in Seq(Nat) /\ Len(t) = b - (a + 1)
  <2>1. a + 1 \in Nat
    OBVIOUS
  <2>2. QED
    BY <1>3, <2>1, UptoType
<1>6. ASSUME NEW i \in 1..Len(r) PROVE r[i] = t[i]
  <2>1. i + 1 \in 1..(b - a) /\ i \in 1..(b - (a + 1))
    BY <1>1, <1>2
  <2>2. s[i + 1] = a + (i + 1)
    BY <1>2, <2>1 DEF Upto
  <2>3. t[i] = (a + 1) + i
    BY <2>1 DEF Upto
  <2>4. QED
    BY <1>1, <2>2, <2>3
<1> HIDE DEF s, t
<1>7. Len(r) = Len(t)
  <2>1. Len(r) + 1 = b - a
    BY <1>1, <1>2
  <2>2. Len(r) = b - (a + 1)
    BY <1>1, <2>1
  <2>3. QED
    BY <1>5, <2>2
<1>8. r = t
  BY <1>5, <1>6, <1>7, SeqEqual
<1>9. QED
  BY <1>3, <1>4, <1>8 DEF t

\* Resizer, channel, reader and socket.
Pending(r, c, b, i) == Some(r) \o c \o Some(b) \o i

LEMMA SomeType ==
    /\ Some(Nil) = <<>>
    /\ \A x \in Nat : Some(x) = <<x>> /\ Some(x) \in Seq(Nat)
    /\ <<>> \in Seq(Nat)
BY Assumed DEF Some

LEMMA PendingType ==
    ASSUME NEW r \in Nat \cup {Nil}, NEW c \in Seq(Nat), NEW b \in Nat \cup {Nil}, NEW i \in Seq(Nat)
    PROVE  Pending(r, c, b, i) \in Seq(Nat)
<1>1. Some(r) \in Seq(Nat) /\ Some(b) \in Seq(Nat)
  BY SomeType
<1>2. QED
  BY <1>1 DEF Pending

\* A size more in the socket.
LEMMA PendingAppend ==
    ASSUME NEW r \in Nat \cup {Nil}, NEW c \in Seq(Nat), NEW b \in Nat \cup {Nil},
           NEW i \in Seq(Nat), NEW x \in Nat
    PROVE  Pending(r, c, b, Append(i, x)) = Append(Pending(r, c, b, i), x)
<1> DEFINE s == Some(r) \o c \o Some(b)
<1>1. Some(r) \in Seq(Nat) /\ Some(b) \in Seq(Nat)
  BY SomeType
<1>2. s \in Seq(Nat)
  BY <1>1
<1>3. Pending(r, c, b, Append(i, x)) = s \o Append(i, x) /\ Pending(r, c, b, i) = s \o i
  BY DEF Pending
<1> HIDE DEF s
<1>4. s \o Append(i, x) = Append(s \o i, x)
  BY <1>2
<1>5. QED
  BY <1>3, <1>4

\* The reader takes one from the socket.
LEMMA PendingRead ==
    ASSUME NEW r \in Nat \cup {Nil}, NEW c \in Seq(Nat), NEW i \in Seq(Nat), NEW x \in Nat
    PROVE  Pending(r, c, Nil, <<x>> \o i) = Pending(r, c, x, i)
<1> DEFINE s == Some(r) \o c
           h == <<x>>
<1>1. Some(r) \in Seq(Nat)
  BY SomeType
<1>2. s \in Seq(Nat) /\ h \in Seq(Nat)
  BY <1>1
<1>3. Pending(r, c, Nil, h \o i) = (s \o <<>>) \o (h \o i) /\ Pending(r, c, x, i) = (s \o h) \o i
  BY SomeType DEF Pending
<1> HIDE DEF s, h
<1>4. s \o <<>> = s
  BY <1>2, ConcatEmptySeq
<1>5. (s \o h) \o i = s \o (h \o i)
  BY <1>2, ConcatAssociative
<1>6. QED
  BY <1>3, <1>4, <1>5 DEF h

\* It puts it in the channel.
LEMMA PendingSend ==
    ASSUME NEW r \in Nat \cup {Nil}, NEW c \in Seq(Nat), NEW i \in Seq(Nat), NEW x \in Nat
    PROVE  Pending(r, Append(c, x), Nil, i) = Pending(r, c, x, i)
<1> DEFINE s == Some(r)
           h == <<x>>
<1>1. s \in Seq(Nat) /\ h \in Seq(Nat)
  BY SomeType
<1>2. /\ Pending(r, Append(c, x), Nil, i) = ((s \o Append(c, x)) \o <<>>) \o i
      /\ Pending(r, c, x, i) = ((s \o c) \o h) \o i
  BY SomeType DEF Pending
<1>3. Append(c, x) = c \o h
  OBVIOUS
<1> HIDE DEF s, h
<1>4. s \o (c \o h) \in Seq(Nat) /\ c \o h \in Seq(Nat)
  BY <1>1
<1>5. (s \o (c \o h)) \o <<>> = s \o (c \o h)
  BY <1>4, ConcatEmptySeq
<1>6. s \o (c \o h) = (s \o c) \o h
  BY <1>1, ConcatAssociative
<1>7. QED
  BY <1>2, <1>3, <1>5, <1>6

\* The resizing goroutine takes it.
LEMMA PendingNext ==
    ASSUME NEW c \in Seq(Nat), c # <<>>, NEW b \in Nat \cup {Nil}, NEW i \in Seq(Nat)
    PROVE  Pending(Head(c), Tail(c), b, i) = Pending(Nil, c, b, i)
<1>1. Head(c) \in Nat /\ Tail(c) \in Seq(Nat) /\ <<Head(c)>> \o Tail(c) = c
  OBVIOUS
<1>2. Some(Head(c)) = <<Head(c)>> /\ Some(Nil) = <<>>
  BY <1>1, SomeType
<1>3. <<>> \o c = c
  OBVIOUS
<1>4. Some(Head(c)) \o Tail(c) = Some(Nil) \o c
  BY <1>1, <1>2, <1>3
<1>5. QED
  BY <1>4 DEF Pending

\* And passes it on.
LEMMA PendingPass ==
    ASSUME NEW r \in Nat, NEW c \in Seq(Nat), NEW b \in Nat \cup {Nil}, NEW i \in Seq(Nat)
    PROVE  Pending(r, c, b, i) = <<r>> \o Pending(Nil, c, b, i)
<1> DEFINE h == <<r>>
           s == Some(b)
<1>1. h \in Seq(Nat) /\ s \in Seq(Nat)
  BY SomeType
<1>2. Pending(r, c, b, i) = ((h \o c) \o s) \o i /\ Pending(Nil, c, b, i) = ((<<>> \o c) \o s) \o i
  BY SomeType DEF Pending
<1> HIDE DEF h, s
<1>3. <<>> \o c = c
  BY ConcatEmptySeq
<1> DEFINE m == c \o s
<1>4. (h \o c) \o s = h \o m /\ m \in Seq(Nat)
  BY <1>1, ConcatAssociative
<1> HIDE DEF m
<1>5. (h \o m) \o i = h \o (m \o i)
  BY <1>1, <1>4, ConcatAssociative
<1>6. QED
  BY <1>2, <1>3, <1>4, <1>5 DEF h, m

\* The sizes in the socket.
LEMMA SizesType ==
    ASSUME NEW m \in Seq(Messages)
    PROVE  Sizes(m) \in Seq(Nat)
<1> DEFINE f == Filter(m, Resizes)
           U == Messages \cap Resizes
<1>1. f \in Seq(U)
  BY FilterType
<1>2. \A x \in U : x.size \in Nat
  BY Assumed DEF Resizes
<1>3. Sizes(m) = [i \in DOMAIN f |-> f[i].size]
  BY DEF Sizes
<1> HIDE DEF f, U
<1>4. Len(f) \in Nat /\ DOMAIN f = 1..Len(f) /\ \A i \in 1..Len(f) : f[i].size \in Nat
  BY <1>1, <1>2
<1>5. QED
  BY <1>3, <1>4

LEMMA SizesEmpty == Sizes(<<>>) = <<>>
<1>1. Filter(<<>>, Resizes) = <<>>
  BY FilterEmpty
<1>2. QED
  BY <1>1 DEF Sizes

LEMMA SizesAppend ==
    ASSUME NEW m \in Seq(Messages), NEW x \in Messages
    PROVE  Sizes(Append(m, x)) = IF x.op = "resize" THEN Append(Sizes(m), x.size) ELSE Sizes(m)
<1> DEFINE f == Filter(m, Resizes)
           g == Filter(Append(m, x), Resizes)
<1>1. x \in Resizes <=> x.op = "resize"
  BY DEF Messages, Resizes
<1>2. g = IF x \in Resizes THEN Append(f, x) ELSE f
  BY FilterAppend
<1>3. f \in Seq(Messages \cap Resizes)
  BY FilterType
<1>4. /\ Sizes(m) = [i \in DOMAIN f |-> f[i].size]
      /\ Sizes(Append(m, x)) = [i \in DOMAIN g |-> g[i].size]
  BY DEF Sizes
<1>5. Len(f) \in Nat /\ DOMAIN f = 1..Len(f)
  BY <1>3
<1>6. CASE x \in Resizes
  <2> DEFINE s == Append(Sizes(m), x.size)
             t == Sizes(Append(m, x))
  <2>1. x.size \in Nat
    BY <1>6, Assumed DEF Resizes
  <2>2. Sizes(m) \in Seq(Nat) /\ t \in Seq(Nat)
    <3>1. Append(m, x) \in Seq(Messages)
      OBVIOUS
    <3>2. QED
      BY <3>1, SizesType
  <2>3. /\ DOMAIN g = 1..(Len(f) + 1) /\ g[Len(f) + 1] = x
        /\ \A i \in 1..Len(f) : g[i] = f[i]
    BY <1>2, <1>3, <1>6
  <2> HIDE DEF f, g
  <2>4. /\ DOMAIN Sizes(m) = 1..Len(f) /\ DOMAIN t = 1..(Len(f) + 1)
        /\ \A i \in 1..Len(f) : Sizes(m)[i] = f[i].size /\ t[i] = f[i].size
        /\ t[Len(f) + 1] = x.size
    BY <1>4, <1>5, <2>3
  <2>5. Len(Sizes(m)) = Len(f) /\ Len(t) = Len(f) + 1
    BY <1>5, <2>2, <2>4
  <2>6. s \in Seq(Nat) /\ Len(s) = Len(f) + 1
    BY <2>1, <2>2, <2>5
  <2>7. ASSUME NEW i \in 1..Len(s) PROVE s[i] = t[i]
    <3>1. CASE i \in 1..Len(f)
      <4>1. s[i] = Sizes(m)[i]
        BY <1>5, <2>1, <2>2, <2>5, <3>1
      <4>2. QED
        BY <2>4, <3>1, <4>1
    <3>2. CASE i = Len(f) + 1
      BY <1>5, <2>1, <2>2, <2>4, <2>5, <3>2
    <3>3. QED
      BY <1>5, <2>6, <3>1, <3>2
  <2> HIDE DEF s, t
  <2>8. s = t
    BY <2>2, <2>5, <2>6, <2>7, SeqEqual
  <2>9. QED
    BY <1>1, <1>6, <2>8 DEF s, t
<1>7. CASE x \notin Resizes
  BY <1>1, <1>2, <1>4, <1>7
<1>8. QED
  BY <1>6, <1>7

LEMMA SizesTail ==
    ASSUME NEW m \in Seq(Messages), m # <<>>
    PROVE  Sizes(m) = IF Head(m).op = "resize" THEN <<Head(m).size>> \o Sizes(Tail(m))
                      ELSE Sizes(Tail(m))
<1> DEFINE x == Head(m)
           f == Filter(Tail(m), Resizes)
           g == Filter(m, Resizes)
<1>1. x \in Messages /\ Tail(m) \in Seq(Messages)
  OBVIOUS
<1>2. x \in Resizes <=> x.op = "resize"
  BY <1>1 DEF Messages, Resizes
<1>3. g = (IF x \in Resizes THEN <<x>> ELSE <<>>) \o f
  BY FilterTail
<1>4. f \in Seq(Messages \cap Resizes)
  BY <1>1, FilterType
<1>5. /\ Sizes(Tail(m)) = [i \in DOMAIN f |-> f[i].size]
      /\ Sizes(m) = [i \in DOMAIN g |-> g[i].size]
  BY DEF Sizes
<1>6. Len(f) \in Nat /\ DOMAIN f = 1..Len(f)
  BY <1>4
<1>7. Sizes(Tail(m)) \in Seq(Nat) /\ Sizes(m) \in Seq(Nat)
  BY <1>1, SizesType
<1>8. CASE x \in Resizes
  <2> DEFINE s == <<x.size>> \o Sizes(Tail(m))
             t == Sizes(m)
  <2>1. x.size \in Nat
    BY <1>8, Assumed DEF Resizes
  <2>2. /\ DOMAIN g = 1..(Len(f) + 1) /\ g[1] = x
        /\ \A i \in 1..Len(f) : g[i + 1] = f[i]
    <3>1. g = <<x>> \o f
      BY <1>3, <1>8
    <3> HIDE DEF f, g, x
    <3>2. QED
      BY <1>4, <3>1
  <2> HIDE DEF f, g, x
  <2>3. /\ DOMAIN Sizes(Tail(m)) = 1..Len(f) /\ DOMAIN t = 1..(Len(f) + 1)
        /\ \A i \in 1..Len(f) : Sizes(Tail(m))[i] = f[i].size
        /\ \A i \in 1..Len(f) : t[i + 1] = f[i].size
        /\ t[1] = x.size
    <3>1. 1 \in 1..(Len(f) + 1) /\ \A i \in 1..Len(f) : i + 1 \in 1..(Len(f) + 1)
      BY <1>6
    <3>2. QED
      BY <1>5, <1>6, <2>2, <3>1
  <2>4. Len(Sizes(Tail(m))) = Len(f) /\ Len(t) = Len(f) + 1
    BY <1>6, <1>7, <2>3
  <2>5. /\ s \in Seq(Nat) /\ Len(s) = Len(f) + 1 /\ s[1] = x.size
        /\ \A i \in 1..Len(f) : s[i + 1] = Sizes(Tail(m))[i]
    BY <1>6, <1>7, <2>1, <2>4
  <2>6. ASSUME NEW i \in 1..Len(s) PROVE s[i] = t[i]
    <3>1. CASE i = 1
      BY <2>3, <2>5, <3>1
    <3>2. CASE i # 1
      <4> DEFINE j == i - 1
      <4>1. j \in 1..Len(f) /\ i = j + 1
        BY <1>6, <2>5, <3>2
      <4> HIDE DEF j
      <4>2. QED
        BY <2>3, <2>5, <4>1
    <3>3. QED
      BY <3>1, <3>2
  <2> HIDE DEF s, t
  <2>7. t \in Seq(Nat)
    BY <1>7 DEF t
  <2>8. s = t
    BY <2>4, <2>5, <2>6, <2>7, SeqEqual
  <2>9. QED
    BY <1>2, <1>8, <2>8 DEF s, t, x
<1>9. CASE x \notin Resizes
  <2>1. g = f
    <3>1. g = <<>> \o f
      BY <1>3, <1>9
    <3> HIDE DEF f, g
    <3>2. QED
      BY <1>4, <3>1, ConcatEmptySeq
  <2>2. QED
    BY <1>2, <1>5, <1>9, <2>1
<1>10. QED
  BY <1>8, <1>9

\* The characters in the socket.
LEMMA TypedEmpty == Typed(<<>>) = 0
<1>1. [i \in DOMAIN <<>> |-> Characters(<<>>[i])] = <<>>
  OBVIOUS
<1>2. QED
  BY <1>1, TotalEmpty DEF Typed

LEMMA CharactersType == ASSUME NEW x \in Messages PROVE Characters(x) \in Nat
BY Assumed DEF Characters, Messages, Resizes

LEMMA TypedAppend ==
    ASSUME NEW m \in Seq(Messages), NEW x \in Messages
    PROVE  Typed(Append(m, x)) = Typed(m) + Characters(x)
<1> DEFINE f == [i \in DOMAIN m |-> Characters(m[i])]
           g == [i \in DOMAIN Append(m, x) |-> Characters(Append(m, x)[i])]
           c == Characters(x)
<1>1. c \in Nat /\ \A i \in DOMAIN m : Characters(m[i]) \in Nat
  BY CharactersType
<1>2. /\ f \in Seq(Nat) /\ Len(f) = Len(m) /\ Len(m) \in Nat
      /\ \A i \in 1..Len(m) : f[i] = Characters(m[i])
  BY <1>1
<1>3. /\ DOMAIN g = 1..(Len(m) + 1)
      /\ g[Len(m) + 1] = c
      /\ \A i \in 1..Len(m) : g[i] = Characters(m[i])
  <2>1. /\ DOMAIN Append(m, x) = 1..(Len(m) + 1) /\ Append(m, x)[Len(m) + 1] = x
        /\ \A i \in 1..Len(m) : Append(m, x)[i] = m[i]
    OBVIOUS
  <2>2. QED
    BY <1>2, <2>1
<1>4. Typed(m) = Total(f) /\ Typed(Append(m, x)) = Total(g)
  BY DEF Typed
<1>5. g = [i \in 1..(Len(m) + 1) |-> g[i]]
  BY <1>3
<1> HIDE DEF f, g, c
<1>6. g \in Seq(Nat) /\ Len(g) = Len(m) + 1
  <2>1. \A i \in 1..(Len(m) + 1) : g[i] \in Nat
    <3> SUFFICES ASSUME NEW i \in 1..(Len(m) + 1) PROVE g[i] \in Nat
      OBVIOUS
    <3>1. CASE i \in 1..Len(m)
      BY <1>2, <1>3, <3>1
    <3>2. CASE i = Len(m) + 1
      BY <1>1, <1>3, <3>2
    <3>3. QED
      BY <1>2, <3>1, <3>2
  <2>2. QED
    BY <1>2, <1>5, <2>1
<1> DEFINE s == Append(f, c)
<1>7. s \in Seq(Nat) /\ Len(s) = Len(g)
  BY <1>1, <1>2, <1>6
<1>8. ASSUME NEW i \in 1..Len(s) PROVE s[i] = g[i]
  <2>1. CASE i \in 1..Len(m)
    BY <1>1, <1>2, <1>3, <2>1
  <2>2. CASE i = Len(m) + 1
    BY <1>1, <1>2, <1>3, <2>2
  <2>3. QED
    BY <1>2, <1>6, <1>7, <2>1, <2>2
<1> HIDE DEF s
<1>9. s = g
  BY <1>6, <1>7, <1>8, SeqEqual
<1>10. Total(s) = Total(f) + c
  BY <1>1, <1>2, TotalAppend DEF s
<1>11. QED
  BY <1>4, <1>9, <1>10 DEF c

LEMMA TypedType == ASSUME NEW m \in Seq(Messages) PROVE Typed(m) \in Nat
<1> DEFINE f == [i \in DOMAIN m |-> Characters(m[i])]
<1>1. \A i \in DOMAIN m : Characters(m[i]) \in Nat
  BY CharactersType
<1>2. f \in Seq(Nat)
  BY <1>1
<1> HIDE DEF f
<1>3. Total(f) \in Nat
  BY <1>2, TotalType
<1>4. QED
  BY <1>3 DEF Typed, f

LEMMA TypedTail ==
    ASSUME NEW m \in Seq(Messages), m # <<>>
    PROVE  /\ Typed(m) = Characters(Head(m)) + Typed(Tail(m))
           /\ Typed(Tail(m)) \in Nat
<1> DEFINE f == [i \in DOMAIN m |-> Characters(m[i])]
           g == [i \in DOMAIN Tail(m) |-> Characters(Tail(m)[i])]
<1>1. \A i \in DOMAIN m : Characters(m[i]) \in Nat
  BY CharactersType
<1>2. /\ Tail(m) \in Seq(Messages) /\ Len(Tail(m)) = Len(m) - 1 /\ Head(m) = m[1]
      /\ Len(m) \in Nat /\ Len(m) # 0 /\ DOMAIN m = 1..Len(m)
      /\ \A i \in 1..Len(Tail(m)) : Tail(m)[i] = m[i + 1]
      /\ DOMAIN Tail(m) = 1..Len(Tail(m)) /\ Len(Tail(m)) \in Nat
  OBVIOUS
<1>3. f \in Seq(Nat) /\ Len(f) = Len(m) /\ f # <<>> /\ \A i \in 1..Len(m) : f[i] = Characters(m[i])
  BY <1>1, <1>2
<1>4. Typed(m) = Total(f) /\ Typed(Tail(m)) = Total(g)
  BY DEF Typed
<1>5. \A i \in 1..Len(Tail(m)) : g[i] = Characters(Tail(m)[i]) /\ g[i] \in Nat
  BY <1>2, CharactersType
<1>6. g \in Seq(Nat) /\ Len(g) = Len(Tail(m))
  BY <1>2, <1>5
<1> HIDE DEF f, g
<1>7. Head(f) = f[1] /\ Tail(f) \in Seq(Nat) /\ Len(Tail(f)) = Len(f) - 1
      /\ \A i \in 1..Len(Tail(f)) : Tail(f)[i] = f[i + 1]
  BY <1>3
<1>8. ASSUME NEW i \in 1..Len(g) PROVE g[i] = Tail(f)[i]
  <2>1. i \in 1..Len(Tail(m)) /\ i \in 1..Len(Tail(f)) /\ i + 1 \in 1..Len(m)
    BY <1>2, <1>3, <1>6, <1>7
  <2>2. Tail(f)[i] = Characters(m[i + 1])
    BY <1>3, <1>7, <2>1
  <2>3. g[i] = Characters(m[i + 1])
    BY <1>2, <1>5, <2>1
  <2>4. QED
    BY <2>2, <2>3
<1>9. g = Tail(f)
  <2>1. Len(g) = Len(Tail(f))
    BY <1>2, <1>3, <1>6, <1>7
  <2>2. QED
    BY <1>6, <1>7, <1>8, <2>1, SeqEqual
<1>10. Total(f) = Head(f) + Total(Tail(f)) /\ Total(Tail(f)) \in Nat
  BY <1>3, <1>7, TotalTail, TotalType
<1>11. Head(f) = Characters(Head(m))
  <2>1. 1 \in 1..Len(m)
    BY <1>2
  <2>2. QED
    BY <1>2, <1>3, <1>7, <2>1
<1>12. QED
  BY <1>4, <1>9, <1>10, <1>11

------------------------------------------------------------------------------
(* The order of sizes and the sum of the input                              *)

\* The shell is still to come, or takes input.
Open == process = "none" \/ (process = "running" /\ reader # "off")

Stages == stage \in {"binding", "checking", "probing", "starting"} => process = "none"

\* Nothing is left of an earlier session when one begins.
Quiet ==
    process = "none" =>
        reader = "off" /\ resizer = Nil /\ sizeChan = <<>> /\ size = 0 /\ received = 0

Waits == blocked # Nil => reader = "sending"

Order ==
    Open =>
        /\ size <= resized
        /\ Pending(resizer, sizeChan, blocked, Sizes(inbox)) = Upto(size, resized)

Whole == Open /\ (\A n \in Lengths : n <= Buffer) => received + Typed(inbox) = typed

Flow == Stages /\ Quiet /\ Waits /\ Order /\ Whole

\* What the sequences hold are numbers.
LEMMA Numbers ==
    ASSUME IInv
    PROVE  /\ sizeChan \in Seq(Nat) /\ inbox \in Seq(Messages) /\ Sizes(inbox) \in Seq(Nat)
           /\ {resizer, blocked} \subseteq Nat \cup {Nil}
           /\ {size, resized, typed, received} \subseteq Nat
<1>1. sizeChan \in Seq(Nat)
  <2>1. sizeChan \in Seq(1..MaxMessages)
    BY DEF IInv, TypeOK
  <2> DEFINE S == 1..MaxMessages
  <2>2. sizeChan \in Seq(S) /\ S \subseteq Nat
    BY <2>1, Assumed
  <2> HIDE DEF S
  <2>3. QED
    BY <2>2, SeqMonotonic
<1>2. inbox \in Seq(Messages)
  BY DEF IInv, TypeOK
<1>3. Sizes(inbox) \in Seq(Nat)
  BY <1>2, SizesType
<1>4. QED
  BY <1>1, <1>2, <1>3, Assumed DEF IInv, TypeOK

\* A session begins with nothing on its way.
LEMMA NothingPending == Pending(Nil, <<>>, Nil, Sizes(<<>>)) = Upto(0, 0)
<1>1. Upto(0, 0) \in Seq(Nat) /\ Len(Upto(0, 0)) = 0
  <2>1. 0 \in Nat /\ 0 <= 0 /\ 0 - 0 = 0
    OBVIOUS
  <2>2. QED
    BY <2>1, UptoType
<1>2. Upto(0, 0) = <<>>
  BY <1>1
<1>3. Some(Nil) = <<>> /\ Sizes(<<>>) = <<>>
  BY SomeType, SizesEmpty
<1>4. <<>> \o <<>> \o <<>> \o <<>> = <<>>
  OBVIOUS
<1>5. QED
  BY <1>2, <1>3, <1>4 DEF Pending

LEMMA InitFlow == Init => Flow
<1> SUFFICES ASSUME Init PROVE Flow
  OBVIOUS
<1>1. Stages /\ Quiet /\ Waits
  BY DEF Init, Stages, Quiet, Waits
<1>2. Order
  BY NothingPending DEF Init, Order
<1>3. Whole
  BY TypedEmpty DEF Init, Whole
<1>4. QED
  BY <1>1, <1>2, <1>3 DEF Flow

LEMMA ConnectFlow == ASSUME IInv, Flow, NEW c \in Containers, Connect(c) PROVE Flow'
<1>1. /\ reader = "off" /\ sizeChan = <<>> /\ resizer = Nil
      /\ process' = "none" /\ inbox' = <<>> /\ typed' = 0 /\ resized' = 0
      /\ received' = 0 /\ size' = 0
      /\ reader' = reader /\ blocked' = blocked /\ sizeChan' = sizeChan /\ resizer' = resizer
  BY DEF Connect, streams
<1>2. blocked = Nil
  BY <1>1 DEF Flow, Waits
<1>3. Stages' /\ Quiet' /\ Waits'
  BY <1>1, <1>2 DEF Stages, Quiet, Waits
<1>4. Order'
  BY <1>1, <1>2, NothingPending DEF Order
<1>5. Whole'
  BY <1>1, TypedEmpty DEF Whole
<1>6. QED
  BY <1>3, <1>4, <1>5 DEF Flow

\* What the client sends comes last.
LEMMA SendFlow ==
    ASSUME IInv, Flow, NEW m \in Messages, Send(m),
           IF m.op = "resize" THEN resized' = resized + 1 /\ m.size = resized + 1
                              ELSE UNCHANGED resized,
           typed' = typed + Characters(m)
    PROVE  Flow'
<1>1. /\ inbox' = Append(inbox, m)
      /\ UNCHANGED <<stage, reader, blocked, sizeChan, resizer, process, received, size>>
  BY DEF Send, streams, remote
<1>2. Stages' /\ Quiet' /\ Waits'
  BY <1>1 DEF Flow, Stages, Quiet, Waits
<1>3. Order'
  <2> SUFFICES ASSUME Open
               PROVE  /\ size <= resized'
                      /\ Pending(resizer, sizeChan, blocked, Sizes(inbox')) = Upto(size, resized')
    BY <1>1 DEF Order, Open
  <2>1. size <= resized /\ Pending(resizer, sizeChan, blocked, Sizes(inbox)) = Upto(size, resized)
    BY DEF Flow, Order
  <2>2. CASE m.op = "resize"
    <3>1. Sizes(inbox') = Append(Sizes(inbox), resized + 1) /\ resized' = resized + 1
      BY <1>1, <2>2, Numbers, SizesAppend
    <3>2. resized + 1 \in Nat /\ size <= resized + 1
      BY <2>1, Numbers
    <3>3. Pending(resizer, sizeChan, blocked, Append(Sizes(inbox), resized + 1))
              = Append(Pending(resizer, sizeChan, blocked, Sizes(inbox)), resized + 1)
      <4> DEFINE i == Sizes(inbox)
                 x == resized + 1
      <4>1. i \in Seq(Nat) /\ x \in Nat /\ sizeChan \in Seq(Nat)
        BY <3>2, Numbers
      <4>2. resizer \in Nat \cup {Nil} /\ blocked \in Nat \cup {Nil}
        BY Numbers
      <4> HIDE DEF i, x
      <4>3. Pending(resizer, sizeChan, blocked, Append(i, x))
                = Append(Pending(resizer, sizeChan, blocked, i), x)
        BY <4>1, <4>2, PendingAppend
      <4>4. QED
        BY <4>3 DEF i, x
    <3>4. Append(Upto(size, resized), resized + 1) = Upto(size, resized + 1)
      BY <2>1, Numbers, UptoAppend
    <3>5. QED
      BY <2>1, <3>1, <3>2, <3>3, <3>4
  <2>3. CASE m.op # "resize"
    <3>1. Sizes(inbox') = Sizes(inbox) /\ resized' = resized
      BY <1>1, <2>3, Numbers, SizesAppend
    <3>2. QED
      BY <2>1, <3>1
  <2>4. QED
    BY <2>2, <2>3
<1>4. Whole'
  <2> SUFFICES ASSUME Open, \A n \in Lengths : n <= Buffer
               PROVE  received + Typed(inbox') = typed'
    BY <1>1 DEF Whole, Open
  <2>1. received + Typed(inbox) = typed
    BY DEF Flow, Whole
  <2>2. Typed(inbox') = Typed(inbox) + Characters(m)
    BY <1>1, Numbers, TypedAppend
  <2>3. Typed(inbox) \in Nat /\ Characters(m) \in Nat
    BY Numbers, TypedType, CharactersType
  <2>4. QED
    BY <2>1, <2>2, <2>3, Numbers
<1>5. QED
  BY <1>2, <1>3, <1>4 DEF Flow

LEMMA ClientFlow ==
    ASSUME IInv, Flow, (\E n \in Lengths : Type(n)) \/ Resize \/ SendJunk \/ Disconnect
    PROVE  Flow'
<1>1. ASSUME NEW n \in Lengths, Type(n) PROVE Flow'
  <2> DEFINE m == [op |-> "stdin", length |-> n]
  <2>1. m \in Messages /\ m.op # "resize" /\ Characters(m) = n
    BY DEF Messages, Characters
  <2>2. Send(m) /\ typed' = typed + n /\ UNCHANGED resized
    BY <1>1 DEF Type
  <2> HIDE DEF m
  <2>3. QED
    BY <2>1, <2>2, SendFlow
<1>2. CASE Resize
  <2> DEFINE m == [op |-> "resize", size |-> resized + 1]
  <2>1. resized + 1 \in 1..MaxMessages
    BY <1>2, Assumed DEF Resize, IInv, TypeOK
  <2>2. m \in Messages /\ m.op = "resize" /\ m.size = resized + 1 /\ Characters(m) = 0
    BY <2>1 DEF Messages, Resizes, Characters
  <2>3. Send(m) /\ resized' = resized + 1 /\ UNCHANGED typed
    BY <1>2 DEF Resize
  <2> HIDE DEF m
  <2>4. typed' = typed + Characters(m)
    BY <2>2, <2>3, Numbers
  <2>5. QED
    BY <2>2, <2>3, <2>4, SendFlow
<1>3. CASE SendJunk
  <2> DEFINE m == [op |-> "junk"]
  <2>1. m \in Messages /\ m.op # "resize" /\ Characters(m) = 0
    BY DEF Messages, Characters
  <2>2. Send(m) /\ UNCHANGED <<typed, resized>>
    BY <1>3 DEF SendJunk
  <2> HIDE DEF m
  <2>3. typed' = typed + Characters(m)
    BY <2>1, <2>2, Numbers
  <2>4. QED
    BY <2>1, <2>2, <2>3, SendFlow
<1>4. CASE Disconnect
  BY <1>4 DEF Disconnect, Flow, Stages, Quiet, Waits, Order, Whole, Open, streams, remote
<1>5. QED
  BY <1>1, <1>2, <1>3, <1>4

\* Nothing moves before the shell has started, nor after it has ended.
LEMMA StageFlow ==
    ASSUME IInv, Flow,
           \/ handleTerminalSession \/ checkShellCache \/ preCheckShell \/ startProcess
           \/ WaitForTerminal \/ CleanupShellCache \/ Exit \/ Tick \/ UNCHANGED vars
    PROVE  Flow'
<1>1. UNCHANGED <<inbox, typed, resized, blocked, sizeChan, resizer, received, size>>
  BY DEF handleTerminalSession, checkShellCache, preCheckShell, startProcess, WaitForTerminal,
         CleanupShellCache, Exit, Tick, vars, client, streams, remote
<1>2. \/ UNCHANGED <<process, reader>>
      \/ process = "none" /\ process' = "running" /\ reader' = "reading" /\ stage' = "running"
      \/ process' = "exited" /\ process = "running" /\ UNCHANGED <<reader, stage>>
  BY DEF handleTerminalSession, checkShellCache, preCheckShell, startProcess, WaitForTerminal,
         CleanupShellCache, Exit, Tick, vars, client, streams, remote, Flow, Stages
<1>3. Stages'
  BY <1>2
  DEF handleTerminalSession, checkShellCache, preCheckShell, startProcess, WaitForTerminal,
      CleanupShellCache, Exit, Tick, vars, client, streams, remote, Flow, Stages
<1>4. Quiet'
  BY <1>1, <1>2 DEF Flow, Quiet
<1>5. Waits'
  BY <1>1, <1>2 DEF Flow, Waits, Quiet
<1>6. Open' => Open
  BY <1>2 DEF Open
<1>7. Order' /\ Whole'
  BY <1>1, <1>6 DEF Flow, Order, Whole
<1>8. QED
  BY <1>3, <1>4, <1>5, <1>7 DEF Flow

\* The reader passes on what comes first.
LEMMA ReadFlow == ASSUME IInv, Flow, Read PROVE Flow'
<1> DEFINE m == Head(inbox)
<1>1. /\ reader = "reading"
      /\ UNCHANGED <<stage, typed, resized, sizeChan, resizer, process, size>>
  BY DEF Read, ReaderEnds, streams, remote
<1>2. process # "none" /\ blocked = Nil
  BY <1>1 DEF Flow, Quiet, Waits
<1>3. Stages' /\ Quiet'
  BY <1>1, <1>2 DEF Flow, Stages, Quiet
<1>4. CASE reader' = "off"
  <2>1. UNCHANGED blocked /\ ~ Open'
    BY <1>1, <1>2, <1>4 DEF Read, ReaderEnds, streams, Open
  <2>2. QED
    BY <1>2, <1>3, <2>1 DEF Flow, Waits, Order, Whole
<1>5. CASE reader' # "off"
  <2>1. /\ inbox # <<>> /\ inbox' = Tail(inbox)
        /\ \/ /\ m.op = "stdin"
              /\ received' = received + Copied(m.length)
              /\ UNCHANGED <<reader, blocked>>
           \/ /\ m.op = "resize"
              /\ reader' = "sending"
              /\ blocked' = m.size
              /\ UNCHANGED received
    BY <1>5 DEF Read, ReaderEnds, streams, remote
  <2>2. m \in Messages /\ inbox' \in Seq(Messages)
    BY <2>1, Numbers
  <2>3. Open' => Open
    BY <1>1 DEF Open
  <2>4. Waits'
    BY <1>2, <2>1 DEF Waits
  <2>5. Order'
    <3> SUFFICES ASSUME Open
                 PROVE  Pending(resizer, sizeChan, blocked', Sizes(inbox'))
                            = Pending(resizer, sizeChan, blocked, Sizes(inbox))
      BY <1>1, <2>3 DEF Flow, Order
    <3>1. CASE m.op = "stdin" /\ UNCHANGED blocked
      <4>1. Sizes(inbox) = Sizes(inbox')
        BY <2>1, <3>1, Numbers, SizesTail
      <4>2. QED
        BY <3>1, <4>1
    <3>2. CASE m.op = "resize" /\ blocked' = m.size
      <4>1. Sizes(inbox) = <<m.size>> \o Sizes(inbox')
        BY <2>1, <3>2, Numbers, SizesTail
      <4>2. m.size \in Nat
        BY <2>2, <3>2, Assumed DEF Messages, Resizes
      <4>3. Sizes(inbox') \in Seq(Nat)
        BY <2>2, SizesType
      <4>4. Pending(resizer, sizeChan, Nil, <<m.size>> \o Sizes(inbox'))
                = Pending(resizer, sizeChan, m.size, Sizes(inbox'))
        BY <4>2, <4>3, Numbers, PendingRead
      <4>5. QED
        BY <1>2, <3>2, <4>1, <4>4
    <3>3. QED
      BY <2>1, <3>1, <3>2
  <2>6. Whole'
    <3> SUFFICES ASSUME Open, \A n \in Lengths : n <= Buffer
                 PROVE  received' + Typed(inbox') = typed
      BY <1>1, <2>3 DEF Whole
    <3>1. received + Typed(inbox) = typed
      BY DEF Flow, Whole
    <3>2. Typed(inbox) = Characters(m) + Typed(inbox') /\ Typed(inbox') \in Nat
      BY <2>1, Numbers, TypedTail
    <3>3. CASE m.op = "stdin" /\ received' = received + Copied(m.length)
      <4>1. m.length \in Lengths /\ Characters(m) = m.length
        BY <2>2, <3>3 DEF Messages, Resizes, Characters
      <4>2. Copied(m.length) = m.length /\ m.length \in Nat
        <5> DEFINE n == m.length
        <5>1. n \in Nat /\ n <= Buffer /\ Buffer \in Nat
          BY <4>1, Assumed
        <5> HIDE DEF n
        <5>2. Copied(n) = n
          BY <5>1 DEF Copied
        <5>3. QED
          BY <5>1, <5>2 DEF n
      <4>3. QED
        BY <3>1, <3>2, <3>3, <4>1, <4>2, Numbers
    <3>4. CASE m.op = "resize" /\ UNCHANGED received
      <4>1. Characters(m) = 0
        BY <3>4 DEF Characters
      <4>2. QED
        BY <3>1, <3>2, <3>4, <4>1, Numbers
    <3>5. QED
      BY <2>1, <3>3, <3>4
  <2>7. QED
    BY <1>3, <2>4, <2>5, <2>6 DEF Flow
<1>6. QED
  BY <1>4, <1>5

\* A size moves on to the channel, to the resizing goroutine and to the shell.
LEMMA SendSizeFlow == ASSUME IInv, Flow, SendSize PROVE Flow'
<1>1. /\ reader = "sending" /\ sizeChan' = Append(sizeChan, blocked)
      /\ blocked' = Nil /\ reader' = "reading"
      /\ UNCHANGED <<stage, inbox, typed, resized, resizer, process, received, size>>
  BY DEF SendSize, client, remote
<1>2. process # "none" /\ blocked \in Nat
  BY <1>1, Numbers DEF IInv, Sending, Flow, Quiet
<1>3. Stages' /\ Quiet' /\ Waits'
  BY <1>1, <1>2 DEF Flow, Stages, Quiet, Waits
<1>4. Open' => Open
  BY <1>1 DEF Open
<1>5. Pending(resizer, Append(sizeChan, blocked), Nil, Sizes(inbox))
          = Pending(resizer, sizeChan, blocked, Sizes(inbox))
  BY <1>2, Numbers, PendingSend
<1>6. Order' /\ Whole'
  BY <1>1, <1>4, <1>5 DEF Flow, Order, Whole
<1>7. QED
  BY <1>3, <1>6 DEF Flow

LEMMA NextSizeFlow == ASSUME IInv, Flow, NextSize PROVE Flow'
<1>1. /\ process # "none" /\ resizer = Nil /\ sizeChan # <<>>
      /\ resizer' = Head(sizeChan) /\ sizeChan' = Tail(sizeChan)
      /\ UNCHANGED <<stage, inbox, typed, resized, reader, blocked, process, received, size>>
  BY DEF NextSize, client, remote
<1>2. Stages' /\ Quiet' /\ Waits'
  BY <1>1 DEF Flow, Stages, Quiet, Waits
<1>3. Open' => Open
  BY <1>1 DEF Open
<1>4. Pending(Head(sizeChan), Tail(sizeChan), blocked, Sizes(inbox))
          = Pending(Nil, sizeChan, blocked, Sizes(inbox))
  BY <1>1, Numbers, PendingNext
<1>5. Order' /\ Whole'
  BY <1>1, <1>3, <1>4 DEF Flow, Order, Whole
<1>6. QED
  BY <1>2, <1>5 DEF Flow

LEMMA PassSizeFlow == ASSUME IInv, Flow, PassSize PROVE Flow'
<1>1. /\ resizer # Nil /\ resizer' = Nil
      /\ size' = IF process = "running" THEN resizer ELSE size
      /\ UNCHANGED <<stage, inbox, typed, resized, reader, blocked, sizeChan, process, received>>
  BY DEF PassSize, client
<1>2. process # "none" /\ resizer \in Nat
  BY <1>1, Numbers DEF Flow, Quiet
<1>3. Stages' /\ Quiet' /\ Waits'
  BY <1>1, <1>2 DEF Flow, Stages, Quiet, Waits
<1>4. Whole'
  BY <1>1 DEF Flow, Whole, Open
<1>5. Order'
  <2> SUFFICES ASSUME process = "running", Open
               PROVE  /\ resizer <= resized
                      /\ Pending(Nil, sizeChan, blocked, Sizes(inbox)) = Upto(resizer, resized)
    BY <1>1, <1>2 DEF Order, Open
  <2> DEFINE rest == Pending(Nil, sizeChan, blocked, Sizes(inbox))
  <2>1. size <= resized /\ Pending(resizer, sizeChan, blocked, Sizes(inbox)) = Upto(size, resized)
    BY DEF Flow, Order
  <2>2. Pending(resizer, sizeChan, blocked, Sizes(inbox)) = <<resizer>> \o rest
    BY <1>2, Numbers, PendingPass
  <2>3. rest \in Seq(Nat)
    BY Numbers, PendingType
  <2> HIDE DEF rest
  <2>4. <<resizer>> \o rest = Upto(size, resized)
    BY <2>1, <2>2
  <2>5. resizer = size + 1 /\ size + 1 <= resized /\ rest = Upto(size + 1, resized)
    BY <1>2, <2>1, <2>3, <2>4, Numbers, UptoHead
  <2>6. QED
    BY <2>5 DEF rest
<1>6. QED
  BY <1>3, <1>4, <1>5 DEF Flow

LEMMA StepFlow == ASSUME IInv, Flow, [Next]_vars PROVE Flow'
<1>1. ASSUME NEW c \in Containers, Connect(c) PROVE Flow'
  BY <1>1, ConnectFlow
<1>2. CASE (\E n \in Lengths : Type(n)) \/ Resize \/ SendJunk \/ Disconnect
  BY <1>2, ClientFlow
<1>3. CASE \/ handleTerminalSession \/ checkShellCache \/ preCheckShell \/ startProcess
           \/ WaitForTerminal \/ CleanupShellCache \/ Exit \/ Tick \/ UNCHANGED vars
  BY <1>3, StageFlow
<1>4. CASE Read
  BY <1>4, ReadFlow
<1>5. CASE SendSize
  BY <1>5, SendSizeFlow
<1>6. CASE NextSize
  BY <1>6, NextSizeFlow
<1>7. CASE PassSize
  BY <1>7, PassSizeFlow
<1>8. QED
  BY <1>1, <1>2, <1>3, <1>4, <1>5, <1>6, <1>7 DEF Next, ServerStep

------------------------------------------------------------------------------
(* Theorems                                                                *)

\* IInv is inductive.
THEOREM Invariance == Spec => []IInv
<1>1. Init => IInv
  BY InitInv
<1>2. IInv /\ [Next]_vars => IInv'
  BY StepInv
<1>3. QED
  BY <1>1, <1>2, PTL DEF Spec

\* Type correctness: what is cached was detected in a container there is, a size in
\* the channel is one that was sent, and the channel is never over its limit.
THEOREM TypeCorrect == Spec => []TypeOK
<1>1. IInv => TypeOK
  BY DEF IInv
<1>2. QED
  BY <1>1, Invariance, PTL

\* The shell that a session starts was looked for in its own container or in one of
\* the same key, whatever was cached and dropped in between (terminal.go:134-194).
THEOREM OwnShells == Spec => []OwnShell
<1>1. IInv => OwnShell
  BY DEF IInv, Bound, OwnShell, cacheKey
<1>2. QED
  BY <1>1, Invariance, PTL

\* What is on its way is inductive as well.
THEOREM FlowHolds == Spec => []Flow
<1>1. Init => Flow
  BY InitFlow
<1>2. IInv /\ Flow /\ [Next]_vars => Flow'
  BY StepFlow
<1>3. QED
  BY <1>1, <1>2, Invariance, PTL DEF Spec

\* While the shell runs and its input has not ended, every size that the client has
\* sent is with the shell or on its way, in the order it was sent, for any number of
\* them and any capacity of the channel (terminal.go:75-107).
THEOREM SizesKeepOrder == Spec => []SizesInOrder
<1>1. Flow => SizesInOrder
  BY DEF Flow, Order, Open, Pending, Upto, SizesInOrder
<1>2. QED
  BY <1>1, FlowHolds, PTL

\* Meanwhile what was typed has arrived or is on its way, once and whole, if no piece is
\* longer than the buffer, whatever sizes pass it (terminal.go:96-103).
THEOREM InputArrivesWhole == Spec => []InputWhole
<1>1. Flow => InputWhole
  BY DEF Flow, Whole, Open, InputWhole
<1>2. QED
  BY <1>1, FlowHolds, PTL

===============================================================================
