---------------------------- MODULE ThrottleServer ----------------------------
(***************************************************************************)
(* The completion-port echo server of chapter 6: one listening socket, a   *)
(* pool of completion threads (CompletionThread, HandleIo) and the main    *)
(* thread, which posts accepts and closes stale ones.                      *)
(*                                                                         *)
(* One buffer serves a connection all its life: the accept's data goes on  *)
(* the list of pending sends, a completed send becomes a receive, a        *)
(* completed receive goes on the list again.  Sends are posted by any      *)
(* thread while gOutstandingSends < gMaxSends.  The buffers are linked by  *)
(* their field next into the free list, the listening socket's pending     *)
(* accepts and the pending sends; the model keeps the pointers.  A socket  *)
(* object belongs to one connection here, the lookaside list hands it out  *)
(* again in the code.                                                      *)
(***************************************************************************)
EXTENDS Integers, FiniteSets, FiniteSetsExt

CONSTANTS NConns,       \* bound: connections, numbered as they arrive
          Workers,
          gInitialAccepts, gMaxAccepts, gMaxSends,   \* options -o, -oa, -os
          BURST_ACCEPT_COUNT,
          NBufs,        \* bound: buffers the heap can give
          MaxData,      \* bound: messages of the peers
          MaxFaults     \* bound: failures of the system and sweeps that find stale accepts

ASSUME ThrottleAssumption ==
  /\ IsFiniteSet(Workers) /\ Workers # {}
  /\ {gInitialAccepts, gMaxAccepts, gMaxSends, BURST_ACCEPT_COUNT} \subseteq Nat
  /\ {NConns, NBufs, MaxData, MaxFaults} \subseteq Nat

Null == 0
NoConn == 0
Conns == 1..NConns
Bufs == 1..NBufs

VARIABLES sock,     \* SOCKET_OBJ of each connection
          peer,     \* the other end of each connection, with the messages that
                    \* are to be read and those that are to be echoed
          buf,      \* BUFFER_OBJ
          mem,      \* next of every buffer and the heads of the lists
          worker,   \* the completion threads
          main,     \* the main thread
          count     \* the counters, events and the bounds' counters

vars == <<sock, peer, buf, mem, worker, main, count>>

Zero == [obj |-> "none", frees |-> 0,
         OutstandingRecv |-> 0, OutstandingSend |-> 0, bClosing |-> FALSE]

Idle == [pc |-> "idle", c |-> NoConn, b |-> Null, lock |-> NoConn, bCleanupSocket |-> FALSE]

Blank == [at |-> "heap", operation |-> "none", c |-> NoConn, data |-> 0, res |-> "none"]

Init ==
  /\ sock = [c \in Conns |-> Zero]
  /\ peer = [c \in Conns |-> [at |-> "away", unread |-> 0, owed |-> 0]]
  /\ buf = [b \in Bufs |-> Blank]
  /\ mem = [next |-> [b \in Bufs |-> Null], PendingAccepts |-> Null, gFreeBufferList |-> Null,
            gPendingSendList |-> Null, gPendingSendListEnd |-> Null]
  /\ worker = [w \in Workers |-> Idle]
  /\ main = [pc |-> "start", limit |-> 0]
  /\ count = [gOutstandingSends |-> 0, PendingAcceptCount |-> 0, RepostCount |-> 0,
              AcceptEvent |-> FALSE, RepostAccept |-> FALSE,
              sendErrors |-> 0, acceptErrors |-> 0, sent |-> 0, faults |-> MaxFaults]

-------------------------------------------------------------------------------
(* The lists.                                                              *)

(* The k-th entry of the list that starts at head, Null past its end.      *)
Entries(m, head) ==
  LET entry[k \in 0..NBufs] == IF k = 0 THEN head
                               ELSE IF entry[k-1] = Null THEN Null ELSE m.next[entry[k-1]]
  IN entry

Members(m, head) == {Entries(m, head)[k] : k \in 0..NBufs} \ {Null}
Endless(m, head) == Entries(m, head)[NBufs] # Null

EnqueuePendingOperation(m, b) ==
  LET n == [m.next EXCEPT ![b] = Null]
  IN IF m.gPendingSendListEnd = Null
     THEN [m EXCEPT !.next = n, !.gPendingSendList = b, !.gPendingSendListEnd = b]
     ELSE [m EXCEPT !.next = [n EXCEPT ![m.gPendingSendListEnd] = b], !.gPendingSendListEnd = b]

DequeueKeepsEnd(m) ==
  [m EXCEPT !.gPendingSendList = m.next[m.gPendingSendList], !.next[m.gPendingSendList] = Null]

DequeuePendingOperation(m) ==
  LET rest == m.next[m.gPendingSendList]
  IN [m EXCEPT !.gPendingSendList = rest,
               !.gPendingSendListEnd = IF rest = Null THEN Null ELSE @,
               !.next[m.gPendingSendList] = Null]

InsertPendingAccept(m, b) ==
  [m EXCEPT !.next[b] = m.PendingAccepts, !.PendingAccepts = b]

(* The entry before b, or the last one when b is not listed.               *)
Before(m, b) ==
  LET e == Entries(m, m.PendingAccepts)
      k == Min({i \in 0..NBufs : e[i] \in {b, Null}})
  IN IF k = 0 THEN Null ELSE e[k-1]

RemovePendingAccept(m, b) ==
  LET prev == Before(m, b)
  IN IF prev = Null THEN [m EXCEPT !.PendingAccepts = m.next[b]]
                    ELSE [m EXCEPT !.next[prev] = m.next[b]]

(* The loop of RemovePendingAccept never ends.                             *)
RemoveSpins(m, b) ==
  Endless(m, m.PendingAccepts) /\ b \notin Members(m, m.PendingAccepts)

(* The buffer GetBufferObj returns, Null when the heap has none.           *)
GetBufferObj(m, bs) ==
  LET heap == {b \in Bufs : bs[b].at = "heap"}
  IN IF m.gFreeBufferList # Null THEN m.gFreeBufferList
     ELSE IF heap = {} THEN Null ELSE Min(heap)

WithoutFirst(m) ==
  IF m.gFreeBufferList = Null THEN m
  ELSE [m EXCEPT !.gFreeBufferList = m.next[m.gFreeBufferList], !.next[m.gFreeBufferList] = Null]

FreeBufferObj(m, b) == [m EXCEPT !.next[b] = m.gFreeBufferList, !.gFreeBufferList = b]

Freed == [Blank EXCEPT !.at = "free"]

GetSocketObj(c) == [sock EXCEPT ![c].obj = "used"]

FreeSocketObj(s, c) == [s EXCEPT ![c] = [Zero EXCEPT !.obj = "freed", !.frees = s[c].frees + 1]]

-------------------------------------------------------------------------------
(* The peers and the network.                                              *)

Waiting == {b \in Bufs : buf[b].at = "posted" /\ buf[b].operation = "accept" /\ buf[b].c = NoConn}

(* A connection takes a posted accept; without one it waits, and FD_ACCEPT *)
(* is signalled.                                                           *)
Connect(c) ==
  /\ c = Min({d \in Conns : peer[d].at = "away"} \cup {NConns + 1}) /\ main.pc \notin {"start", "wild"}
  /\ IF Waiting # {}
     THEN /\ buf' = [buf EXCEPT ![Min(Waiting)].c = c]
          /\ peer' = [peer EXCEPT ![c].at = "connected"]
          /\ UNCHANGED count
     ELSE /\ peer' = [peer EXCEPT ![c].at = "backlog"]
          /\ count' = [count EXCEPT !.AcceptEvent = TRUE]
          /\ UNCHANGED buf
  /\ UNCHANGED <<sock, mem, worker, main>>

Send(c) ==
  /\ main.pc # "wild" /\ peer[c].at = "connected" /\ count.sent < MaxData
  /\ peer' = [peer EXCEPT ![c].unread = @ + 1, ![c].owed = @ + 1]
  /\ count' = [count EXCEPT !.sent = @ + 1]
  /\ UNCHANGED <<sock, buf, mem, worker, main>>

(* The peer closes when it has its answers.                                *)
Close(c) ==
  /\ main.pc # "wild" /\ peer[c].at = "connected" /\ peer[c].owed = 0
  /\ peer' = [peer EXCEPT ![c].at = "closed"]
  /\ UNCHANGED <<sock, buf, mem, worker, main, count>>

(* A posted operation completes when a thread can take its result: a send  *)
(* at once, AcceptEx and WSARecv when there is data or the connection is   *)
(* at its end; any may fail.  The sweep decides for the accepts it closes. *)
HasInput(c) == c # NoConn /\ (peer[c].unread > 0 \/ peer[c].at = "closed")

Succeeds(b) == /\ buf[b].at = "posted" /\ buf[b].res = "none"
               /\ buf[b].operation = "write" \/ HasInput(buf[b].c)

Fails(b) == /\ buf[b].at = "posted"
            /\ buf[b].res = "error" \/ (buf[b].res = "none" /\ count.faults > 0)

Spent(b) == IF buf[b].res = "none" THEN 1 ELSE 0

(* The message an input operation of c returns, and what is left.          *)
Input(c) == IF peer[c].unread > 0 THEN 1 ELSE 0
Read(c) == [peer EXCEPT ![c].unread = @ - Input(c)]

-------------------------------------------------------------------------------
(* HandleIo.  A completion is taken from the port and handled up to the    *)
(* first step that other threads can come before.                          *)

ListenFree == main.pc # "hung" /\ \A w \in Workers : worker[w].pc # "hung"

(* A completion wakes one of the threads that wait; which does not matter. *)
Ready(w) == worker[w].pc = "idle" /\ w = CHOOSE x \in Workers : worker[x].pc = "idle"

Goto(w, pc) == worker' = [worker EXCEPT ![w].pc = pc]
Return(w) == worker' = [worker EXCEPT ![w] = Idle]
At(w, pc, c) == worker' = [worker EXCEPT ![w] = [Idle EXCEPT !.pc = pc, !.c = c]]

(* An accept that failed: its buffer is freed, and stays listed.           *)
AcceptError(w, b) ==
  /\ Ready(w) /\ buf[b].operation = "accept" /\ Fails(b)
  /\ buf' = [buf EXCEPT ![b] = Freed]
  /\ mem' = FreeBufferObj(mem, b)
  /\ count' = [count EXCEPT !.faults = @ - Spent(b), !.acceptErrors = @ + 1]
  /\ UNCHANGED <<sock, peer, worker, main>>

Accepted(w, b) ==
  /\ Ready(w) /\ buf[b].operation = "accept" /\ ListenFree
  /\ Succeeds(b) \/ buf[b].res = "swept"

(* The accept is no longer pending.                                        *)
OneAcceptLess(fault) ==
  [count EXCEPT !.PendingAcceptCount = @ - 1, !.faults = @ - fault]

(* The main thread is to post another: InterlockedIncrement and SetEvent   *)
(* in one step (between them it would take the count of an event that is   *)
(* already set, and be woken once more for nothing).                       *)
Repost(n) == [n EXCEPT !.RepostCount = @ + 1, !.RepostAccept = TRUE]

HandleAccept(w, b) ==
  /\ Accepted(w, b) /\ buf[b].res # "swept"
  /\ IF RemoveSpins(mem, b)
     THEN Goto(w, "hung") /\ UNCHANGED <<sock, mem, buf, peer, count>>
     ELSE /\ sock' = GetSocketObj(buf[b].c)
          /\ mem' = EnqueuePendingOperation(RemovePendingAccept(mem, b), b)
          /\ buf' = [buf EXCEPT ![b].at = "queued", ![b].operation = "write", ![b].data = Input(buf[b].c)]
          /\ peer' = Read(buf[b].c)
          /\ count' = Repost(OneAcceptLess(0))
          /\ Goto(w, "test")
  /\ UNCHANGED main

(* CreateIoCompletionPort fails, as it does for a handle the sweep closed. *)
AcceptWithoutPort(w, b) ==
  /\ Accepted(w, b) /\ ~RemoveSpins(mem, b) /\ (buf[b].res = "swept" \/ count.faults > 0)
  /\ sock' = GetSocketObj(buf[b].c)
  /\ mem' = RemovePendingAccept(mem, b)
  /\ buf' = [buf EXCEPT ![b] = [Blank EXCEPT !.at = "lost"]]
  /\ peer' = Read(buf[b].c)
  /\ count' = OneAcceptLess(Spent(b))
  /\ UNCHANGED <<worker, main>>

AcceptWithoutObject(w, b) ==
  /\ Accepted(w, b) /\ ~RemoveSpins(mem, b) /\ count.faults > 0
  /\ mem' = FreeBufferObj(RemovePendingAccept(mem, b), b)
  /\ buf' = [buf EXCEPT ![b] = Freed]
  /\ peer' = Read(buf[b].c)
  /\ count' = Repost(OneAcceptLess(1))
  /\ Goto(w, "test")
  /\ UNCHANGED <<sock, main>>

OneReceiveLess(c) == [sock EXCEPT ![c].OutstandingRecv = @ - 1]
OneSendLessNot(c) == sock
OneSendLess(c) == [sock EXCEPT ![c].OutstandingSend = @ - 1]

NoOperation(s, c) == s[c].OutstandingRecv = 0 /\ s[c].OutstandingSend = 0

(* A failed receive or send frees its buffer, and the socket object when   *)
(* nothing is outstanding.  gOutstandingSends keeps a failed send.         *)
ReadOrWriteError(w, b) ==
  LET c == buf[b].c
      send == buf[b].operation = "write"
      s == IF send THEN OneSendLess(c) ELSE OneReceiveLess(c)
  IN /\ Ready(w) /\ buf[b].operation # "accept" /\ Fails(b)
     /\ sock' = IF NoOperation(s, c) THEN FreeSocketObj(s, c) ELSE s
     /\ count' = [count EXCEPT !.faults = @ - 1, !.sendErrors = @ + (IF send THEN 1 ELSE 0)]
     /\ mem' = FreeBufferObj(mem, b)
     /\ buf' = [buf EXCEPT ![b] = Freed]
     /\ UNCHANGED <<peer, worker, main>>

HandleRead(w, b) ==
  LET c == buf[b].c
  IN /\ Ready(w) /\ buf[b].operation = "read" /\ Succeeds(b) /\ Input(c) > 0
     /\ sock' = OneReceiveLess(c)
     /\ mem' = EnqueuePendingOperation(mem, b)
     /\ buf' = [buf EXCEPT ![b].at = "queued", ![b].operation = "write", ![b].data = 1]
     /\ peer' = Read(c)
     /\ At(w, "test", c)
     /\ UNCHANGED <<main, count>>

HandleEnd(w, b) ==
  LET c == buf[b].c
  IN /\ Ready(w) /\ buf[b].operation = "read" /\ Succeeds(b) /\ Input(c) = 0
     /\ sock' = [OneReceiveLess(c) EXCEPT ![c].bClosing = TRUE]
     /\ mem' = FreeBufferObj(mem, b)
     /\ buf' = [buf EXCEPT ![b] = Freed]
     /\ At(w, "end", c)
     /\ UNCHANGED <<peer, main, count>>

(* Nobody holds SockCritSec of c.                                          *)
Unlocked(c) == \A w \in Workers : worker[w].lock # c

(* WSARecv or WSASend is posted, the counters are next.                    *)
Posted(w, pc, c) == worker' = [worker EXCEPT ![w].pc = pc, ![w].lock = c, ![w].b = Null]

Counted(w) == worker' = [worker EXCEPT ![w].pc = "test", ![w].lock = NoConn]

TestEnd(w) ==
  /\ worker[w].pc = "end" /\ Unlocked(worker[w].c)
  /\ worker' = [worker EXCEPT ![w].pc = "test",
                              ![w].bCleanupSocket = NoOperation(sock, worker[w].c)]
  /\ UNCHANGED <<sock, peer, buf, mem, main, count>>

HandleWrite(w, b) ==
  /\ Ready(w) /\ buf[b].operation = "write" /\ Succeeds(b)
  /\ sock' = OneSendLess(buf[b].c)
  /\ count' = [count EXCEPT !.gOutstandingSends = @ - 1]
  /\ IF sock[buf[b].c].bClosing
     THEN /\ buf' = [buf EXCEPT ![b] = [Blank EXCEPT !.at = "lost"]]
          /\ At(w, "test", buf[b].c)
     ELSE /\ buf' = [buf EXCEPT ![b].at = "held"]
          /\ worker' = [worker EXCEPT ![w] = [Idle EXCEPT !.pc = "receive", !.c = buf[b].c, !.b = b]]
  /\ UNCHANGED <<peer, mem, main>>

(* WSARecv, with SockCritSec held until the operation is counted.          *)
PostRecv(w) ==
  LET b == worker[w].b
  IN /\ worker[w].pc = "receive" /\ Unlocked(worker[w].c)
     /\ buf' = [buf EXCEPT ![b].at = "posted", ![b].operation = "read", ![b].data = 0]
     /\ Posted(w, "received", worker[w].c)
     /\ UNCHANGED <<sock, peer, mem, main, count>>

(* HandleIo does not look at the result: the buffer is lost.               *)
PostRecvFails(w) ==
  /\ worker[w].pc = "receive" /\ Unlocked(worker[w].c) /\ count.faults > 0
  /\ buf' = [buf EXCEPT ![worker[w].b] = [Blank EXCEPT !.at = "lost"]]
  /\ count' = [count EXCEPT !.faults = @ - 1]
  /\ worker' = [worker EXCEPT ![w].pc = "test", ![w].b = Null]
  /\ UNCHANGED <<sock, peer, mem, main>>

ReceivePosted(w) ==
  /\ worker[w].pc = "received"
  /\ sock' = [sock EXCEPT ![worker[w].lock].OutstandingRecv = @ + 1]
  /\ Counted(w)
  /\ UNCHANGED <<peer, buf, mem, main, count>>

-------------------------------------------------------------------------------
(* ProcessPendingOperations, at the end of HandleIo: the test, the dequeue *)
(* and the send are steps of their own.                                    *)

(* On to the end of HandleIo, where the socket object is looked at.        *)
Processed(w) ==
  worker' = [worker EXCEPT ![w] = IF @.c = NoConn THEN Idle ELSE [@ EXCEPT !.pc = "close"]]

ProcessWithoutTest(w) ==
  /\ worker[w].pc = "test"
  /\ Goto(w, "dequeue")
  /\ UNCHANGED <<sock, peer, buf, mem, main, count>>

ProcessPendingOperations(w) ==
  /\ worker[w].pc = "test"
  /\ IF count.gOutstandingSends < gMaxSends THEN Goto(w, "dequeue") ELSE Processed(w)
  /\ UNCHANGED <<sock, peer, buf, mem, main, count>>

NothingPending(w) ==
  /\ worker[w].pc = "dequeue" /\ mem.gPendingSendList = Null
  /\ Processed(w)
  /\ UNCHANGED <<sock, peer, buf, mem, main, count>>

(* The first pending send, once SockCritSec of its socket can be entered.  *)
Dequeues(w, b) ==
  /\ worker[w].pc = "dequeue" /\ b = mem.gPendingSendList /\ Unlocked(buf[b].c)

PostSend(w, b) ==
  /\ Dequeues(w, b)
  /\ mem' = DequeuePendingOperation(mem)
  /\ buf' = [buf EXCEPT ![b].at = "posted", ![b].data = 0]
  /\ peer' = [peer EXCEPT ![buf[b].c].owed = @ - buf[b].data]
  /\ Posted(w, "sent", buf[b].c)
  /\ UNCHANGED <<sock, main, count>>

PostSendFails(w, b) ==
  /\ Dequeues(w, b) /\ count.faults > 0
  /\ mem' = FreeBufferObj(DequeuePendingOperation(mem), b)
  /\ buf' = [buf EXCEPT ![b] = Freed]
  /\ count' = [count EXCEPT !.faults = @ - 1]
  /\ Processed(w)
  /\ UNCHANGED <<sock, peer, main>>

SendPosted(w) ==
  /\ worker[w].pc = "sent"
  /\ sock' = [sock EXCEPT ![worker[w].lock].OutstandingSend = @ + 1]
  /\ count' = [count EXCEPT !.gOutstandingSends = @ + 1]
  /\ Counted(w)
  /\ UNCHANGED <<peer, buf, mem, main>>

TestClosing(w) ==
  LET c == worker[w].c
      cleanup == worker[w].bCleanupSocket \/ (NoOperation(sock, c) /\ sock[c].bClosing)
  IN /\ worker[w].pc = "close"
     /\ IF cleanup THEN Goto(w, "free") ELSE Return(w)
     /\ UNCHANGED <<sock, peer, buf, mem, main, count>>

CleanupSocket(w) ==
  /\ worker[w].pc = "free"
  /\ sock' = FreeSocketObj(sock, worker[w].c)
  /\ Return(w)
  /\ UNCHANGED <<peer, buf, mem, main, count>>

-------------------------------------------------------------------------------
(* The main thread.                                                        *)

State == [buf |-> buf, mem |-> mem, peer |-> peer, count |-> count, wild |-> FALSE]

(* One turn of the loop: GetBufferObj, InsertPendingAccept, PostAccept; a  *)
(* connection of the backlog is taken at once.  When PostAccept fails the  *)
(* buffer stays listed.  A buffer that is handed out while it is in use:   *)
(* nothing is said of what follows.                                        *)
PostAccept(t, fails) ==
  LET b == GetBufferObj(t.mem, t.buf)
      waiting == {c \in Conns : t.peer[c].at = "backlog"}
      c == IF waiting = {} THEN NoConn ELSE Min(waiting)
      m == InsertPendingAccept(WithoutFirst(t.mem), b)
  IN IF b = Null THEN t
     ELSE IF t.buf[b].at \notin {"heap", "free"} THEN [t EXCEPT !.wild = TRUE]
     ELSE IF fails THEN [t EXCEPT !.mem = m, !.buf[b] = [Blank EXCEPT !.at = "lost"],
                                  !.count.faults = @ - 1]
     ELSE [t EXCEPT !.mem = m,
                    !.buf[b] = [Blank EXCEPT !.at = "posted", !.operation = "accept", !.c = c],
                    !.peer = IF c = NoConn THEN @ ELSE [@ EXCEPT ![c].at = "connected"],
                    !.count.PendingAcceptCount = @ + 1]

(* The loop, at most limit turns and while accepts are short; turn number  *)
(* bad fails.                                                              *)
PostAccepts(limit, unlimited, bad) ==
  LET turn[k \in 0..limit] ==
        IF k = 0 THEN State
        ELSE IF unlimited \/ turn[k-1].count.PendingAcceptCount < gMaxAccepts
             THEN PostAccept(turn[k-1], k = bad) ELSE turn[k-1]
  IN turn[limit]

(* What the main thread does when an event is signalled.                   *)
Posting(limit, unlimited, n) ==
  \E bad \in IF count.faults > 0 THEN 0..limit ELSE {0} :
  \E t \in {PostAccepts(limit, unlimited, bad)} :
    /\ buf' = t.buf /\ mem' = t.mem /\ peer' = t.peer
    /\ count' = [n EXCEPT !.PendingAcceptCount = t.count.PendingAcceptCount,
                          !.faults = t.count.faults]
    /\ main' = [pc |-> IF t.wild THEN "wild" ELSE "wait", limit |-> 0]
    /\ worker' = IF t.wild THEN [w \in Workers |-> [Idle EXCEPT !.pc = "stopped"]] ELSE worker
    /\ UNCHANGED sock

Start == main.pc = "start" /\ Posting(gInitialAccepts, TRUE, count)

(* FD_ACCEPT: a burst of accepts.                                          *)
OnAcceptEvent ==
  /\ main.pc = "wait" /\ count.AcceptEvent /\ ListenFree
  /\ Posting(BURST_ACCEPT_COUNT, FALSE, [count EXCEPT !.AcceptEvent = FALSE])

(* A signalled event is handled in the order of the wait array or, when it *)
(* is set while the other is handled, in the other order.                  *)
OnRepostAccept ==
  /\ main.pc = "wait" /\ count.RepostAccept
  /\ main' = [pc |-> "reset", limit |-> count.RepostCount]
  /\ count' = [count EXCEPT !.RepostCount = 0]
  /\ UNCHANGED <<sock, peer, buf, mem, worker>>

ResetRepostAccept ==
  /\ main.pc = "reset" /\ ListenFree
  /\ Posting(main.limit, FALSE, [count EXCEPT !.RepostAccept = FALSE])

(* The 36th timeout of the wait: the accepts that have been connected for  *)
(* more than five minutes are closed; a completed one that no thread has   *)
(* removed from the list yet is closed as well.                            *)
Sweep(stale) ==
  /\ main.pc = "wait" /\ ~count.AcceptEvent /\ ~count.RepostAccept /\ ListenFree
  /\ IF Endless(mem, mem.PendingAccepts)
     THEN main' = [pc |-> "hung", limit |-> 0] /\ UNCHANGED <<buf, count>>
     ELSE /\ stale # {} /\ count.faults > 0
          /\ \A b \in stale : /\ b \in Members(mem, mem.PendingAccepts)
                              /\ buf[b].operation = "accept" /\ buf[b].c # NoConn
          /\ \E completed \in SUBSET {b \in stale : HasInput(buf[b].c)} :
               buf' = [b \in Bufs |-> IF b \notin stale THEN buf[b] ELSE
                         [buf[b] EXCEPT !.res = IF b \in completed THEN "swept" ELSE "error"]]
          /\ count' = [count EXCEPT !.faults = @ - 1]
          /\ UNCHANGED main
  /\ UNCHANGED <<sock, peer, mem, worker>>

-------------------------------------------------------------------------------
HandleIo(w) ==
  \/ \E b \in Bufs : \/ AcceptError(w, b) \/ HandleAccept(w, b)
                     \/ AcceptWithoutPort(w, b) \/ AcceptWithoutObject(w, b)
                     \/ ReadOrWriteError(w, b) \/ HandleRead(w, b) \/ HandleEnd(w, b)
                     \/ HandleWrite(w, b) \/ PostSend(w, b) \/ PostSendFails(w, b)
  \/ TestEnd(w)
  \/ PostRecv(w) \/ PostRecvFails(w) \/ ReceivePosted(w)
  \/ ProcessPendingOperations(w) \/ NothingPending(w) \/ SendPosted(w)
  \/ TestClosing(w) \/ CleanupSocket(w)

MainThread ==
  \/ Start \/ OnAcceptEvent \/ OnRepostAccept \/ ResetRepostAccept

Peers == \E c \in Conns : Connect(c) \/ Send(c) \/ Close(c)

Next == \/ \E w \in Workers : HandleIo(w)
        \/ MainThread
        \/ \E stale \in SUBSET Bufs : Sweep(stale)
        \/ Peers

(* Every thread is scheduled.                                              *)
Fairness ==
  /\ \A w \in Workers : WF_vars(HandleIo(w))
  /\ WF_vars(MainThread)

Spec == Init /\ [][Next]_vars /\ Fairness

-------------------------------------------------------------------------------
InFlight(operation, c) ==
  {b \in Bufs : buf[b].at = "posted" /\ buf[b].operation = operation /\ buf[b].c = c}

Uncounted(pc, c) == {w \in Workers : worker[w].pc = pc /\ worker[w].lock = c}

(***************************************************************************)
(* The throttle: no interleaving of the threads' tests and sends lets      *)
(* gOutstandingSends, with the sends that are past the test, exceed        *)
(* gMaxSends by more than the other threads, whatever fails.               *)
(***************************************************************************)
SendsThrottled ==
  count.gOutstandingSends + Cardinality({w \in Workers : worker[w].pc \in {"dequeue", "sent"}})
    <= gMaxSends + Cardinality(Workers) - 1

(***************************************************************************)
(* Counters and operations agree at every step, although a completion may  *)
(* be handled before its operation is counted; the only difference is the  *)
(* slot of the throttle that every failed send keeps.  An accept that      *)
(* fails ends this: its buffer is on two lists from then on.               *)
(***************************************************************************)
OperationsCounted ==
  count.acceptErrors = 0 =>
    /\ \A c \in Conns : sock[c].obj = "used" =>
         /\ sock[c].OutstandingRecv
              = Cardinality(InFlight("read", c)) - Cardinality(Uncounted("received", c))
         /\ sock[c].OutstandingSend
              = Cardinality(InFlight("write", c)) - Cardinality(Uncounted("sent", c))
    /\ count.gOutstandingSends
         = count.sendErrors + Cardinality({b \in Bufs : buf[b].at = "posted" /\ buf[b].operation = "write"})
             - Cardinality({w \in Workers : worker[w].pc = "sent"})

(* Every thread waits and no completion or event will wake one.            *)
Settled ==
  /\ \A w \in Workers : worker[w].pc = "idle"
  /\ main.pc = "wait" /\ ~count.AcceptEvent /\ ~count.RepostAccept
  /\ \A b \in Bufs : ~Succeeds(b) /\ buf[b].res = "none"

(***************************************************************************)
(* Nothing is left behind when the threads come to rest, unless something  *)
(* failed or a stale accept was closed: no send waits behind the throttle, *)
(* what was sent is echoed, the objects of the connections that ended are  *)
(* freed, and a connection waits for an accept only while silent ones hold *)
(* all of them, when a repost was lost between InterlockedExchange and     *)
(* ResetEvent, when more connections wait than a burst has accepts, or     *)
(* when the heap was exhausted.                                            *)
(***************************************************************************)
NothingLeftBehind ==
  Settled /\ count.faults = MaxFaults /\ gMaxSends > 0 =>
    /\ mem.gPendingSendList = Null
    /\ \A c \in Conns :
         /\ peer[c].owed = 0
         /\ peer[c].at = "closed" => sock[c].obj = "freed"
         /\ peer[c].at = "backlog" => \/ count.PendingAcceptCount >= gMaxAccepts
                                      \/ count.RepostCount > 0 \/ NConns > BURST_ACCEPT_COUNT
                                      \/ NBufs < NConns + gMaxAccepts
===============================================================================
