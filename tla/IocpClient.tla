------------------------------ MODULE IocpClient ------------------------------
(***************************************************************************)
(* The load client of chapter 5: it opens connections with ConnectEx,      *)
(* sends gSendCount buffers (or files) on each, shuts the connection down  *)
(* and reads until the server closes.  main handles the completions; with  *)
(* a rate limit the sends are posted again by SendThread.                  *)
(*                                                                         *)
(* The state is one record, and the functions of the program are functions *)
(* on it.  A completion that failed makes GetQueuedCompletionStatus return *)
(* 0: main prints it and takes the next, so a failed operation is gone     *)
(* without a trace and stays counted in OutstandingOps.                    *)
(***************************************************************************)
EXTENDS Integers, FiniteSets, SequencesExt

CONSTANTS gConnectionCount, gOverlappedCount, gSendCount,
          MaxFaults    \* bound: posts that fail, resets, refused connections

VARIABLE client

Conns == 1..gConnectionCount

NewSocket == [s |-> "none", connect |-> "none", bConnected |-> FALSE, bClosing |-> FALSE, shut |-> FALSE,
              OutstandingOps |-> 0, SendCount |-> gSendCount, Repost |-> 0, sending |-> FALSE,
              reads |-> 0, writes |-> 0, echo |-> FALSE, server |-> "open"]

(* Bound: with a rate limit and several sends under way nothing fails.     *)
FaultsUsed(tf, rate) == IF rate /\ ~tf THEN MaxFaults ELSE 0

Started(tf, rate) ==
  [gTransmitFile |-> tf, rateLimit |-> rate, main |-> "connecting", gCurrentConnections |-> 0,
   faults |-> FaultsUsed(tf, rate), upset |-> FALSE, port |-> <<>>, conn |-> [c \in Conns |-> NewSocket]]

ClientInit == \E tf, rate \in BOOLEAN : client = Started(tf, rate)

(* "Can only have one TransmitFile oustanding per connection!"             *)
Overlapped(k) == IF k.gTransmitFile THEN 1 ELSE gOverlappedCount

Running == client.main \in {"connecting", "handling"}
CanFail == client.faults < MaxFaults
-----------------------------------------------------------------------------
(* Operations are counted after they are started.                          *)
PostRecv(k, c) == [k EXCEPT !.conn[c].reads = @ + 1, !.conn[c].OutstandingOps = @ + 1]

PostSends(k, c, n) ==
  [k EXCEPT !.conn[c].writes = @ + n, !.conn[c].OutstandingOps = @ + n, !.conn[c].SendCount = @ - n]

(* The file is one send, whatever its size.                                *)
PostTransmitFile(k, c) == PostSends(k, c, 1)

Failed(k) == [k EXCEPT !.upset = TRUE, !.faults = @ + 1]

OneMoreToSend(k, c) == k.conn[c].SendCount >= 0
MoreToSend(k, c) == k.conn[c].SendCount > 0

(* The receives of a new connection, then its first sends; n of the calls  *)
(* succeed.                                                                *)
PostsWanted(k, c) ==
  LET sends == IF k.conn[c].SendCount < Overlapped(k) THEN k.conn[c].SendCount ELSE Overlapped(k)
  IN Overlapped(k) + sends

HandleConnect(k, c, n) ==
  LET recvs == IF n < Overlapped(k) THEN n ELSE Overlapped(k)
  IN PostSends([k EXCEPT !.gCurrentConnections = @ + 1, !.conn[c].bConnected = TRUE,
                         !.conn[c].reads = recvs, !.conn[c].OutstandingOps = @ + recvs],
               c, n - recvs)

HandleRead(k, c, zero, ok) ==
  IF zero \/ k.conn[c].bClosing THEN [k EXCEPT !.conn[c].bClosing = TRUE]
  ELSE IF ok THEN PostRecv(k, c) ELSE k

(* The buffer or the file is sent again, by this thread or by SendThread;  *)
(* after the last one the connection is shut down.                         *)
SentAgain(k, c, posted) ==
  CASE ~MoreToSend(k, c)                -> [k EXCEPT !.conn[c].shut = TRUE]
    [] MoreToSend(k, c) /\ k.rateLimit  -> [k EXCEPT !.conn[c].Repost = @ + 1]
    [] MoreToSend(k, c) /\ ~k.rateLimit -> posted

HandleWrite(k, c, ok) == SentAgain(k, c, IF ok THEN PostSends(k, c, 1) ELSE k)
HandleTransmit(k, c, ok) == SentAgain(k, c, IF ok THEN PostTransmitFile(k, c) ELSE k)

(* What is under way on a closed or a reset connection fails, and nobody   *)
(* is told.                                                                *)
Dropped(k, c, how) ==
  [k EXCEPT !.conn[c].server = how, !.conn[c].reads = 0, !.conn[c].writes = 0, !.conn[c].echo = FALSE]

(* The object stays in gConnectionList, because gTimeout is never -1.      *)
CleanupSocket(k, c) ==
  LET g == [Dropped(k, c, "closed") EXCEPT !.gCurrentConnections = @ - 1,
                                           !.conn[c].s = "closed", !.conn[c].Repost = 0]
  IN IF g.gCurrentConnections = 0 THEN [g EXCEPT !.main = "ended", !.port = <<>>] ELSE g

(* What every completion ends with.                                        *)
CountDown(k, c, cleanup) ==
  LET g == [k EXCEPT !.conn[c].OutstandingOps = @ - 1]
  IN IF cleanup \/ (g.conn[c].OutstandingOps = 0 /\ g.conn[c].bClosing) THEN CleanupSocket(g, c) ELSE g

(* Calls on a socket that is closed, shut down or reset fail, others may.  *)
Usable(k, c) == k.conn[c].s = "open" /\ k.conn[c].server # "reset"

HandleIo(k, e, ok) ==
  LET c == e.c
      posts == \/ e.operation = "OP_READ" /\ ~e.zero /\ ~k.conn[c].bClosing
               \/ e.operation = "OP_WRITE" /\ MoreToSend(k, c) /\ ~k.rateLimit
      lost == posts /\ ~ok
      g == IF lost THEN Failed(k) ELSE k
  IN IF e.operation = "OP_READ" THEN CountDown(HandleRead(g, c, e.zero, ok), c, lost)
     ELSE IF k.gTransmitFile THEN CountDown(HandleTransmit(g, c, ok), c, lost)
     ELSE CountDown(HandleWrite(g, c, ok), c, lost)
-----------------------------------------------------------------------------
(* main opens the next connection; a connect that cannot be posted is      *)
(* forgotten.                                                              *)
PostConnect(k, c) == [k EXCEPT !.conn[c].connect = "pending", !.conn[c].OutstandingOps = 1]

OpenConnection(c) ==
  /\ client.main = "connecting" /\ client.conn[c].s = "none"
  /\ \A d \in 1..(c - 1) : client.conn[d].s # "none"
  /\ LET k == [client EXCEPT !.conn[c].s = "open", !.main = IF c = gConnectionCount THEN "handling" ELSE @]
     IN \/ client' = PostConnect(k, c)
        \/ CanFail /\ client' = Failed(k)

(* The lock of the socket is SendThread's while it posts.                  *)
GetQueuedCompletionStatus ==
  /\ client.main = "handling" /\ client.port # <<>>
  /\ LET e == Head(client.port)
         k == [client EXCEPT !.port = Tail(@)]
         usable == Usable(client, e.c)
         wanted == PostsWanted(k, e.c)
     IN \/ /\ e.operation = "OP_CONNECT"
           /\ \E n \in 0..wanted :
                /\ n = wanted => usable
                /\ n < wanted => (n = 0 /\ ~usable) \/ CanFail
                /\ LET g == HandleConnect(IF n < wanted THEN Failed(k) ELSE k, e.c, n)
                   IN client' = CountDown(g, e.c, n < wanted)
        \/ /\ e.operation = "OP_READ"
           /\ \E ok \in BOOLEAN : /\ IF ok THEN usable ELSE ~usable \/ CanFail
                                  /\ client' = HandleIo(k, e, ok)
        \/ /\ e.operation = "OP_WRITE" /\ ~client.conn[e.c].sending
           /\ \E ok \in BOOLEAN : /\ IF ok THEN usable ELSE ~usable \/ CanFail
                                  /\ client' = HandleIo(k, e, ok)

(* SendThread walks the connections and posts one send on each that has    *)
(* one to post, without a look at SendCount.  The send is under way before *)
(* it is counted; one that fails is lost with its buffer.                  *)
SendThreadPosts(c) ==
  /\ client.main = "handling" /\ client.rateLimit
  /\ \A d \in Conns : ~client.conn[d].sending
  /\ client.conn[c].s = "open" /\ client.conn[c].Repost > 0
  /\ LET k == [client EXCEPT !.conn[c].Repost = @ - 1]
     IN \/ /\ Usable(client, c) /\ ~client.conn[c].shut
           /\ client' = [k EXCEPT !.conn[c].writes = @ + 1, !.conn[c].sending = TRUE]
        \/ /\ client.conn[c].shut
           /\ client' = k
        \/ /\ ~Usable(client, c) \/ CanFail
           /\ client' = Failed(k)

SendThreadCounts(c) ==
  /\ client.main = "handling" /\ client.conn[c].sending
  /\ client' = [client EXCEPT !.conn[c].sending = FALSE, !.conn[c].OutstandingOps = @ + 1,
                              !.conn[c].SendCount = @ - 1]
-----------------------------------------------------------------------------
(* The stack and the servers.  A connection that is refused or reset shows *)
(* as completions that fail.                                               *)
Queued(k, c, op, zero) == [k EXCEPT !.port = Append(@, [c |-> c, operation |-> op, zero |-> zero])]

ConnectCompletes(c) ==
  /\ Running /\ client.conn[c].connect = "pending"
  /\ LET k == [client EXCEPT !.conn[c].connect = "done"]
     IN \/ client' = Queued([k EXCEPT !.conn[c].echo = TRUE], c, "OP_CONNECT", FALSE)
        \/ CanFail /\ client' = Failed(Dropped(k, c, "reset"))

WriteCompletes(c) ==
  /\ Running /\ client.conn[c].writes > 0
  /\ client' = Queued([client EXCEPT !.conn[c].writes = @ - 1, !.conn[c].echo = TRUE], c, "OP_WRITE", FALSE)

ReadCompletes(c) ==
  /\ Running /\ client.conn[c].reads > 0
  /\ LET k == [client EXCEPT !.conn[c].reads = @ - 1]
     IN \/ client.conn[c].echo /\ client' = Queued([k EXCEPT !.conn[c].echo = FALSE], c, "OP_READ", FALSE)
        \/ /\ client.conn[c].server = "closed" /\ ~client.conn[c].echo
           /\ client' = Queued(k, c, "OP_READ", TRUE)

(* An echo server closes when the client has shut the connection down and  *)
(* everything is echoed; another one when it likes.                        *)
ServerCloses(c) ==
  /\ Running /\ client.conn[c].bConnected /\ client.conn[c].s = "open" /\ client.conn[c].server = "open"
  /\ \/ /\ client.conn[c].shut /\ client.conn[c].writes = 0
        /\ client' = [client EXCEPT !.conn[c].server = "closed"]
     \/ /\ CanFail
        /\ client' \in {Failed([client EXCEPT !.conn[c].server = "closed"]),
                        Failed(Dropped(client, c, "reset"))}

ClientNext ==
  \/ GetQueuedCompletionStatus
  \/ \E c \in Conns : \/ OpenConnection(c) \/ SendThreadPosts(c) \/ SendThreadCounts(c)
                      \/ ConnectCompletes(c) \/ WriteCompletes(c) \/ ReadCompletes(c) \/ ServerCloses(c)
-----------------------------------------------------------------------------
(* gCurrentConnections counts the connections main has seen established    *)
(* and not closed, and main ends when it has closed each of these and sent *)
(* all of its buffers, or up to those too many that other operations had   *)
(* in hand.  Connections whose completion main has not looked at are not   *)
(* counted: it may end without them (NoneRemainOpen).  Excepted are runs   *)
(* in which a call failed or a server hung up first: there a connection    *)
(* may be taken off gCurrentConnections twice.                             *)
Established == {c \in Conns : client.conn[c].bConnected}

FinishesWhatItCounts ==
  ~client.upset =>
    /\ client.gCurrentConnections = Cardinality({c \in Established : client.conn[c].s = "open"})
    /\ client.main = "ended" =>
         \A c \in Established : /\ client.conn[c].s = "closed"
                               /\ client.conn[c].SendCount \in (1 - Overlapped(client))..0

(* "Handle IO until 0 is returned -- this indicates that no more socket    *)
(* connections remain open" (iocpclient.cpp:1421).                         *)
NoneRemainOpen ==
  client.main = "ended" /\ ~client.upset => \A c \in Conns : client.conn[c].s # "open"
=============================================================================
