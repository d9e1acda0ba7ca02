------------------------------ MODULE OverServer ------------------------------
(***************************************************************************)
(* The echo server of chapter 5 that waits for overlapped I/O on events.   *)
(* Every operation has a buffer, every buffer an event and a thread; a     *)
(* thread waits for its events in an array (Handles, EventCount) that it   *)
(* rebuilds from its list of buffers when its own event is set.            *)
(*                                                                         *)
(* The state is one record, and the functions of the program are functions *)
(* on it.  A thread's steps are the wait, its return and the handling of   *)
(* one signalled event; main posts the first operations one at a time.     *)
(* Event handles and buffers are not used again after they are freed.      *)
(***************************************************************************)
EXTENDS Integers, SequencesExt

CONSTANTS NConns,              \* bound: connections, numbered as they arrive
          NBufs, NThreads,     \* bounds of the heap
          MAXIMUM_WAIT_OBJECTS,
          gOverlappedCount,
          MaxFaults            \* bound: failures

VARIABLE over

Conns == 1..NConns
Bufs == 1..NBufs
IoThreads == 1..NThreads
Bound == 0      \* the listening socket, or the UDP socket
NoThread == 0
MainThread == -1

Unused == [at |-> "none", sock |-> Bound, operation |-> "none", conn |-> Bound, io |-> "idle",
           hEvent |-> FALSE, thread |-> NoThread]

NoSocket == [obj |-> "none", s |-> "closed", bClosing |-> FALSE, OutstandingOps |-> 0]
GetSocketObj == [NoSocket EXCEPT !.obj = "live", !.s = "open"]

NotStarted == [pc |-> "none", BufferList |-> <<>>, Handles |-> <<>>, EventCount |-> 1, Event |-> FALSE,
               waits |-> {}, i |-> 0, count |-> 0]
GetThreadObj == [NotStarted EXCEPT !.pc = "start"]

(* main has bound the socket and, over TCP, listens.                       *)
Starting(proto) ==
  [gProtocol |-> proto, main |-> "posting", posted |-> 0, faults |-> 0, acceptFailed |-> FALSE, echoFailed |-> FALSE,
   SockCritSec |-> NoThread,                  \* who has left that of the listening socket locked
   buf |-> [b \in Bufs |-> Unused],
   sock |-> [s \in {Bound} \cup Conns |-> IF s = Bound THEN GetSocketObj ELSE NoSocket],
   thread |-> [t \in IoThreads |-> NotStarted],
   gChildThreads |-> <<>>,
   peer |-> [c \in Conns |-> [at |-> "away", unread |-> FALSE, fin |-> FALSE, reset |-> FALSE]]]

OverInit == \E proto \in {"TCP", "UDP"} : over = Starting(proto)
-----------------------------------------------------------------------------
Free(g) == {b \in Bufs : g.buf[b].at = "none"}
GetBufferObj(g) == CHOOSE b \in Free(g) : \A a \in Free(g) : b <= a

(* The event of a freed buffer is closed.                                  *)
FreeBufferObj(g, b) == [g EXCEPT !.buf[b] = [Unused EXCEPT !.at = "freed"]]

FreeAlways(g, s) == [g EXCEPT !.sock[s] = [NoSocket EXCEPT !.obj = "freed"]]
FreeSocketObj(g, s) ==
  IF g.sock[s].OutstandingOps # 0 THEN g
  ELSE [g EXCEPT !.sock[s] = [NoSocket EXCEPT !.obj = "freed"]]

HasRoom(th) == th.EventCount < MAXIMUM_WAIT_OBJECTS - 1

(* Bound: the heap has a buffer and, when all threads are full, a thread.  *)
HeapLasts(g) ==
  /\ Free(g) # {}
  /\ \/ Len(g.gChildThreads) < NThreads
     \/ \E k \in DOMAIN g.gChildThreads : HasRoom(g.thread[g.gChildThreads[k]])

InsertBufferObj(list, b) == Append(list, b)
RemoveBufferObj(list, b) == RemoveAt(list, CHOOSE k \in DOMAIN list : list[k] = b)

(* The handle goes to the place EventCount of the array, whatever is there.*)
InsertBufferObjToThread(th, b) ==
  [th EXCEPT !.BufferList = InsertBufferObj(@, b), !.EventCount = @ + 1,
             !.Handles = SubSeq(@, 1, th.EventCount - 1) \o <<b>>
                           \o SubSeq(@, th.EventCount + 1, Len(@))]

RenumberEvents(th) ==
  [th EXCEPT !.Handles = th.BufferList, !.EventCount = Len(th.BufferList) + 1]

SignalNobody(th) == th
Signal(th) == [th EXCEPT !.Event = TRUE]

(* The first thread with room takes the operation; without one there is a  *)
(* new thread, which goes to the front of the list.                        *)
AssignIoToThread(g, b) ==
  LET room == {k \in DOMAIN g.gChildThreads : HasRoom(g.thread[g.gChildThreads[k]])}
      n == Len(g.gChildThreads) + 1
      t == IF room = {} THEN n ELSE g.gChildThreads[CHOOSE k \in room : \A j \in room : k <= j]
      th == IF room = {} THEN GetThreadObj ELSE g.thread[t]
  IN [g EXCEPT !.gChildThreads = IF room = {} THEN <<n>> \o @ ELSE @,
               !.thread[t] = Signal(InsertBufferObjToThread(th, b)),
               !.buf[b].thread = t]

(* The array is not touched: the thread finds the change when it rebuilds. *)
RemoveBufferFromThread(g, b) ==
  [g EXCEPT !.thread[g.buf[b].thread] =
     Signal([@ EXCEPT !.BufferList = RemoveBufferObj(@, b), !.EventCount = @ - 1])]

(* An operation is counted whether or not it could be started; the event   *)
(* is reset when it is.                                                    *)
Post(g, b, op, ok) ==
  [g EXCEPT !.buf[b].operation = op, !.buf[b].io = IF ok THEN "posted" ELSE "idle", !.buf[b].hEvent = FALSE,
            !.sock[g.buf[b].sock].OutstandingOps = @ + 1,
            !.faults = IF ok THEN @ ELSE @ + 1]

(* SockCritSec is left locked when there is no socket for the client, and  *)
(* nothing is counted.  A critical section lets its owner in again; others *)
(* come no further.                                                        *)
LockedOut(g, t) == g.SockCritSec \notin {NoThread, t}
Stuck(g, t) == IF t = MainThread THEN [g EXCEPT !.main = "stuck"] ELSE [g EXCEPT !.thread[t].pc = "stuck"]

PostAccept(g, b, t, how) ==
  CASE LockedOut(g, t)   -> Stuck([g EXCEPT !.buf[b].operation = "OP_ACCEPT", !.buf[b].io = "idle"], t)
    [] how = "no socket" -> [g EXCEPT !.buf[b].operation = "OP_ACCEPT", !.buf[b].io = "idle",
                                      !.SockCritSec = t, !.faults = @ + 1]
    [] OTHER             -> Post(g, b, "OP_ACCEPT", how = "started")

PostRecv(g, b, ok) == Post(g, b, "OP_READ", ok)
PostSend(g, b, ok) == Post(g, b, "OP_WRITE", ok)

Close(g, s) == [g EXCEPT !.sock[s].s = "closed"]
-----------------------------------------------------------------------------
(* HandleIo, by the operation that completed.  An error of a TCP operation *)
(* takes the operation off the count a second time.                        *)
HandleError(g, b) ==
  LET s == g.buf[b].sock
      freed == FreeBufferObj(RemoveBufferFromThread(g, b), b)
      counted == [freed EXCEPT !.sock[s].OutstandingOps = @ - 1,
                               !.acceptFailed = @ \/ g.buf[b].operation = "OP_ACCEPT"]
  IN IF counted.sock[s].OutstandingOps = 0 THEN FreeSocketObj(counted, s) ELSE counted

(* The data that came with the connection is echoed from a buffer of its   *)
(* own, the accept is posted again.                                        *)
HandleAccept(g, b, t, sends, accepts) ==
  LET c == g.buf[b].conn
      n == GetBufferObj(g)
      client == [g EXCEPT !.sock[c] = GetSocketObj,
                          !.buf[n] = [Unused EXCEPT !.at = "live", !.sock = c, !.conn = c]]
      sent == PostSend(AssignIoToThread(client, n), n, sends)
      echo == IF sends THEN sent
              ELSE [FreeSocketObj(Close(FreeBufferObj(RemoveBufferFromThread(sent, n), n), c), c)
                      EXCEPT !.echoFailed = TRUE]
  IN PostAccept([echo EXCEPT !.buf[b].conn = Bound], b, t, accepts)

(* The buffer goes back as it came.  Without bytes the peer has closed.    *)
HandleRead(g, b, sends) ==
  LET s == g.buf[b].sock
      gone(x) == FreeBufferObj(RemoveBufferFromThread(x, b), b)
      closing == gone([g EXCEPT !.sock[s].bClosing = TRUE])
  IN IF g.buf[b].io = "ok" \/ g.gProtocol = "UDP"
     THEN IF sends THEN PostSend(g, b, TRUE)
          ELSE FreeSocketObj(Close(gone(PostSend(g, b, FALSE)), s), s)
     ELSE IF closing.sock[s].OutstandingOps = 0 THEN FreeSocketObj(Close(closing, s), s) ELSE closing

HandleWrite(g, b, receives) ==
  LET s == g.buf[b].sock
  IN IF g.sock[s].bClosing /\ g.sock[s].OutstandingOps = 0
     THEN FreeSocketObj(FreeBufferObj(Close(RemoveBufferFromThread(g, b), s), b), s)
     ELSE PostRecv(g, b, receives)

HandleIo(h, b, t, first, accepts) ==
  LET g == [h EXCEPT !.sock[h.buf[b].sock].OutstandingOps = @ - 1, !.buf[b].hEvent = FALSE]
      op == g.buf[b].operation
  IN CASE g.buf[b].io = "error" /\ g.gProtocol = "TCP"   -> HandleError(g, b)
       [] op = "OP_ACCEPT"                               -> HandleAccept(g, b, t, first, accepts)
       [] op = "OP_READ" /\ g.buf[b].io # "error"        -> HandleRead(g, b, first)
       [] op = "OP_READ" /\ g.buf[b].io = "error"        -> PostRecv(g, b, first)
       [] op = "OP_WRITE"                                -> HandleWrite(g, b, first)
-----------------------------------------------------------------------------
Running == over.main \in {"posting", "sleeping", "stuck"}

CanFail == over.faults < MaxFaults

(* Whether AcceptEx finds a client that has sent something.                *)
Ready(c) == over.peer[c].at = "waiting" /\ (over.peer[c].unread \/ over.peer[c].fin)

Took(g, b, c) ==
  [g EXCEPT !.buf[b].io = IF g.peer[c].unread \/ g.buf[b].operation = "OP_ACCEPT" THEN "ok" ELSE "zero",
            !.buf[b].hEvent = TRUE, !.buf[b].conn = c,
            !.peer[c].unread = FALSE, !.peer[c].at = "served"]

(* main posts the next of its operations.  An accept that is pending makes *)
(* it leave ("if (PostAccept(acceptobj) == NO_ERROR)"); it goes on with    *)
(* one that has completed at once or has failed.                           *)
PostFirst ==
  /\ over.main = "posting" /\ over.posted < gOverlappedCount /\ HeapLasts(over)
  /\ LET b == GetBufferObj(over)
         g == AssignIoToThread([over EXCEPT !.buf[b] = [Unused EXCEPT !.at = "live"], !.posted = @ + 1], b)
     IN IF over.gProtocol = "UDP" THEN over' = PostRecv(g, b, TRUE)
        ELSE IF LockedOut(g, MainThread) THEN over' = PostAccept(g, b, MainThread, "started")
        ELSE \/ \E c \in Conns : Ready(c) /\ over' = Took(PostAccept(g, b, MainThread, "started"), b, c)
             \/ /\ ~\E c \in Conns : Ready(c)
                /\ over' = [over EXCEPT !.main = "left"]
             \/ CanFail /\ over' \in {PostAccept(g, b, MainThread, how) : how \in {"refused", "no socket"}}

StartsSleeping ==
  /\ over.main = "posting" /\ over.posted = gOverlappedCount
  /\ over' = [over EXCEPT !.main = "sleeping"]

(* Every minute main closes the sockets of accepts whose clients have been *)
(* silent too long; the accept fails.                                      *)
Sweep(b, c) ==
  /\ over.main = "sleeping"
  /\ over.buf[b].operation = "OP_ACCEPT" /\ over.buf[b].io = "posted"
  /\ over.peer[c].at = "waiting" /\ ~over.peer[c].unread
  /\ over' = [over EXCEPT !.buf[b].io = "error", !.buf[b].hEvent = TRUE,
                          !.peer[c].at = "gone"]

Waited(th) == {th.Handles[k] : k \in 1..(th.EventCount - 1)}

(* IoThread.  A wait for a closed event fails and the array is rebuilt.    *)
IoThreadWaits(t) ==
  /\ Running /\ over.thread[t].pc \in {"start", "top"}
  /\ LET th == IF over.thread[t].pc = "start" THEN RenumberEvents(over.thread[t]) ELSE over.thread[t]
     IN over' = [over EXCEPT !.thread[t] =
                   IF \E b \in Waited(th) : over.buf[b].at = "freed" THEN [RenumberEvents(th) EXCEPT !.pc = "top"]
                   ELSE [th EXCEPT !.pc = "blocked", !.waits = Waited(th)]]

Signalled(b) == over.buf[b].hEvent \/ over.buf[b].at = "freed"

(* The first event is the thread's own.                                    *)
IoThreadWakes(t) ==
  /\ Running /\ over.thread[t].pc = "blocked"
  /\ over.thread[t].Event \/ \E b \in over.thread[t].waits : over.buf[b].hEvent
  /\ over' = [over EXCEPT !.thread[t] =
        IF @.Event THEN [RenumberEvents(@) EXCEPT !.Event = FALSE, !.pc = "top", !.waits = {}]
        ELSE [@ EXCEPT !.pc = "scan", !.waits = {}, !.i = 1, !.count = over.thread[t].EventCount]]

(* The places of the array that the loop has not passed and finds set; a   *)
(* closed event looks like one.                                            *)
Found(th) == {k \in 1..(th.count - 1) : k >= th.i /\ Signalled(th.Handles[k])}

FindBufferObj(th, b) == b \in Range(th.BufferList)

ScanHandles(t) ==
  /\ Running /\ over.thread[t].pc = "scan"
  /\ \E k \in Found(over.thread[t]) :
       LET b == over.thread[t].Handles[k]
           g == [over EXCEPT !.thread[t].i = k + 1]
       IN IF ~FindBufferObj(over.thread[t], b)
          THEN over' = [over EXCEPT !.main = "crashed"]       \* HandleIo(NULL)
          ELSE /\ over.buf[b].operation = "OP_ACCEPT" => HeapLasts(over)
               /\ \/ over' = HandleIo(g, b, t, TRUE, "started")
                  \/ CanFail /\ over' = HandleIo(g, b, t, FALSE, "started")
                  \/ CanFail /\ over' \in {HandleIo(g, b, t, TRUE, how) : how \in {"refused", "no socket"}}

ScanEnds(t) ==
  /\ Running /\ over.thread[t].pc = "scan"
  /\ Found(over.thread[t]) = {}
  /\ over' = [over EXCEPT !.thread[t] = [@ EXCEPT !.pc = "top", !.i = 0, !.count = 0]]
-----------------------------------------------------------------------------
(* The peers and the stack.                                                *)
Connect(c) ==
  /\ Running /\ over.peer[c].at = "away" /\ \A d \in 1..(c - 1) : over.peer[d].at # "away"
  /\ over' = [over EXCEPT !.peer[c].at = IF over.gProtocol = "TCP" THEN "waiting" ELSE "served"]

PeerSends(c) ==
  /\ Running /\ over.peer[c].at \in {"waiting", "served"} /\ ~over.peer[c].unread
  /\ ~over.peer[c].fin /\ ~over.peer[c].reset
  /\ over' = [over EXCEPT !.peer[c].unread = TRUE]

PeerCloses(c) ==
  /\ Running /\ over.gProtocol = "TCP" /\ over.peer[c].at \in {"waiting", "served"}
  /\ ~over.peer[c].fin /\ ~over.peer[c].reset
  /\ \/ over' = [over EXCEPT !.peer[c].fin = TRUE]
     \/ over.peer[c].at = "served" /\ CanFail
        /\ over' = [over EXCEPT !.peer[c].reset = TRUE, !.faults = @ + 1]

Completes(b) ==
  /\ Running /\ over.buf[b].io = "posted"
  /\ LET c == over.buf[b].conn
     IN \/ /\ over.buf[b].operation = "OP_ACCEPT"
           /\ \E d \in Conns : Ready(d) /\ over' = Took(over, b, d)
        \/ /\ over.buf[b].operation = "OP_READ"
           /\ \E d \in Conns : /\ c \in {d, Bound} /\ over.peer[d].at = "served"
                               /\ over.peer[d].unread \/ over.peer[d].fin
                               /\ ~over.peer[d].reset
                               /\ over' = [Took(over, b, d) EXCEPT !.buf[b].conn = IF over.gProtocol = "UDP" THEN Bound ELSE d]
        \/ /\ over.buf[b].operation = "OP_WRITE"
           /\ c # Bound => ~over.peer[c].reset
           /\ over' = [over EXCEPT !.buf[b].io = "ok", !.buf[b].hEvent = TRUE]
        \/ /\ over.buf[b].operation # "OP_ACCEPT"
           /\ IF c = Bound THEN over.gProtocol = "UDP" /\ CanFail ELSE over.peer[c].reset
           /\ over' = [over EXCEPT !.buf[b].io = "error", !.buf[b].hEvent = TRUE,
                                   !.faults = IF c = Bound THEN @ + 1 ELSE @]

OverNext ==
  \/ PostFirst \/ StartsSleeping
  \/ \E t \in IoThreads : IoThreadWaits(t) \/ IoThreadWakes(t) \/ ScanHandles(t) \/ ScanEnds(t)
  \/ \E b \in Bufs : Completes(b) \/ \E c \in Conns : Sweep(b, c)
  \/ \E c \in Conns : Connect(c) \/ PeerSends(c) \/ PeerCloses(c)
-----------------------------------------------------------------------------
(* A thread that waits does not sleep through a completion of its own: the *)
(* event is among those it waits for, or its own event is set and it will  *)
(* rebuild the array, whatever other threads have added to its list and    *)
(* removed from it (AssignIoToThread, RemoveBufferFromThread).  A thread   *)
(* that is stuck in PostAccept sees nothing any more.                      *)
CompletionsAreSeen ==
  Running => \A t \in IoThreads : over.thread[t].pc = "blocked" =>
    \A b \in Range(over.thread[t].BufferList) :
      over.buf[b].hEvent => over.thread[t].Event \/ b \in over.thread[t].waits

(* The object of a socket is there as long as one of its operations is     *)
(* outstanding, and every completion finds its buffer (FreeSocketObj,      *)
(* FindBufferObj).  Excepted is an accept that fails, whose error counts   *)
(* twice; and for the second part an echo that cannot be started: its      *)
(* event is closed and may stay in a part of the array that a thread has   *)
(* still to look at.                                                       *)
ObjectsOutliveOps ==
  ~over.acceptFailed =>
    /\ over.main = "crashed" => over.echoFailed
    /\ \A b \in Bufs : over.buf[b].io \in {"posted", "ok", "zero", "error"} =>
         over.sock[over.buf[b].sock].obj = "live"

(* "When the operation completes, the worker thread must get the           *)
(* BUFFER_OBJ corresponded to the signaled event" (FindBufferObj).         *)
BufferIsFound == over.main # "crashed"
=============================================================================
