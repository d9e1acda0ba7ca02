----------------------------- MODULE IocpAccepts -----------------------------
(***************************************************************************)
(* The listening socket of the completion-port echo server of chapter 5    *)
(* (iocpserver.cpp); what becomes of a connection is in IocpEcho.  main    *)
(* posts gOverlappedCount accepts, each with a buffer that it remembers in *)
(* PendingAccepts, and every minute closes those sockets of the buffers    *)
(* that have been connected for five minutes: their peers send nothing.    *)
(* Completion threads serve an accept that has got data and post it again. *)
(*                                                                         *)
(* The state is one record.  A step is what happens between two points     *)
(* where another thread can interfere; only HandleIo of a good accept      *)
(* holds SockCritSec, main never does.  A socket handle is a number.       *)
(***************************************************************************)
EXTENDS Integers, Sequences, FiniteSets

CONSTANTS NConns,            \* bound: clients
          NThreads,          \* completion threads
          gOverlappedCount,
          MaxFaults          \* bound: failures of calls

VARIABLE accepts

Slots == 1..gOverlappedCount
Workers == 1..NThreads
NoThread == 0
INVALID_SOCKET == 0
NoSlot == 0

(* A worker is idle, has a failed accept ("drop", "free"), or is in the    *)
(* handler of a good one ("associate", "repost", "count", "leave").        *)
AcceptsInit ==
  accepts = [main |-> "post", i |-> 1,
             op |-> [b \in Slots |-> "none"],       \* what the buffer is used for
             sclient |-> [b \in Slots |-> INVALID_SOCKET],
             sockets |-> <<>>,                      \* "open", "silent", "old" or "closed"
             OutstandingOps |-> 0, SockCritSec |-> NoThread, freed |-> FALSE,
             at |-> [w \in Workers |-> "idle"], slot |-> [w \in Workers |-> NoSlot],
             clients |-> 0, faults |-> 0,
             early |-> FALSE, disturbed |-> FALSE, ub |-> FALSE]

CanFail == accepts.faults < MaxFaults
Fault(a) == [a EXCEPT !.faults = @ + 1, !.disturbed = TRUE]

(* PostAccept up to the increment: a new socket in buf->sclient, and the   *)
(* AcceptEx, each of which may fail.                                       *)
NewSocket(a, b) ==
  [a EXCEPT !.sockets = Append(@, "open"), !.sclient[b] = Len(a.sockets) + 1]

SocketFails(a, b) == Fault([a EXCEPT !.sclient[b] = INVALID_SOCKET, !.op[b] = "unused"])
AcceptExFails(a, b) == Fault([NewSocket(a, b) EXCEPT !.op[b] = "unused"])
AcceptEx(a, b) == [NewSocket(a, b) EXCEPT !.op[b] = "pending"]

NotPosted(a, b) == IF CanFail THEN {SocketFails(a, b), AcceptExFails(a, b)} ELSE {}

(* A freed SOCKET_OBJ is used.                                             *)
Touch(a) == [a EXCEPT !.ub = @ \/ a.freed]

(* A slip: an accept that is pending returns before the increment.         *)
CountForgets(a) == Touch(a)

CountOperation(a) == Touch([a EXCEPT !.OutstandingOps = @ + 1])
-----------------------------------------------------------------------------
(* main posts the accepts and then waits.                                  *)
NextPost(a) == IF a.i = gOverlappedCount THEN [a EXCEPT !.main = "wait"]
               ELSE [a EXCEPT !.main = "post", !.i = @ + 1]

PostFirst ==
  /\ accepts.main = "post"
  /\ \/ accepts' = [Touch(AcceptEx(accepts, accepts.i)) EXCEPT !.main = "count"]
     \/ \E a \in NotPosted(accepts, accepts.i) : accepts' = NextPost(Touch(a))

CountFirst ==
  /\ accepts.main = "count"
  /\ accepts' = NextPost(CountOperation(accepts))

(* Twelve time-outs of five seconds.                                       *)
OneMinute ==
  /\ accepts.main = "wait"
  /\ accepts' = [accepts EXCEPT !.main = "reap", !.i = 1]

NextSlot(a) == IF a.i = gOverlappedCount THEN [a EXCEPT !.main = "wait"]
               ELSE [a EXCEPT !.main = "reap", !.i = @ + 1]

Socket(a, b) == IF a.sclient[b] = INVALID_SOCKET THEN "closed" ELSE a.sockets[a.sclient[b]]

(* getsockopt(SO_CONNECT_TIME): when it fails, main returns and the        *)
(* process ends.                                                           *)
Reap ==
  LET b == accepts.i
  IN /\ accepts.main = "reap"
     /\ accepts' =
          IF accepts.op[b] = "freed" \/ accepts.freed THEN [accepts EXCEPT !.ub = TRUE]
          ELSE IF Socket(accepts, b) = "closed" THEN [accepts EXCEPT !.main = "ended"]
          ELSE IF Socket(accepts, b) = "old" THEN [accepts EXCEPT !.main = "close"]
          ELSE NextSlot(accepts)

(* Whatever socket the buffer has by now.  A pending accept fails; one     *)
(* that has completed loses its connection.                                *)
CloseOld ==
  LET b == accepts.i
      closed == [accepts EXCEPT !.sockets[accepts.sclient[b]] = "closed", !.disturbed = TRUE,
                                !.op[b] = IF @ = "pending" THEN "error" ELSE @]
  IN /\ accepts.main = "close"
     /\ accepts' = IF accepts.op[b] = "freed" \/ accepts.freed THEN [accepts EXCEPT !.ub = TRUE]
                   ELSE NextSlot(IF accepts.sclient[b] = INVALID_SOCKET THEN accepts ELSE closed)
-----------------------------------------------------------------------------
Goto(a, w, place) == [a EXCEPT !.at[w] = place]

GetQueuedCompletionStatus(w) ==
  /\ accepts.at[w] = "idle"
  /\ \E b \in Slots :
       /\ accepts.op[b] \in {"ok", "error"}
       /\ accepts' = [accepts EXCEPT !.op[b] = "taken", !.slot[w] = b,
                                     !.at[w] = IF accepts.op[b] = "ok" THEN "enter" ELSE "drop"]

(* An accept that failed is not posted again; the last one takes the       *)
(* listening socket with it, unless another operation has been counted.    *)
DropFailed(w) ==
  LET a == Touch([accepts EXCEPT !.op[accepts.slot[w]] = "freed", !.OutstandingOps = @ - 1])
  IN /\ accepts.at[w] = "drop"
     /\ accepts' = IF a.OutstandingOps = 0 THEN Goto(a, w, "free") ELSE Goto(a, w, "idle")

Abandoned(a) == [b \in Slots |-> IF a.op[b] = "pending" THEN "error" ELSE a.op[b]]

(* main has not posted all accepts, or a handler counts the one it posted. *)
StillUsed(a) == a.main \in {"post", "count"} \/ \E w \in Workers : a.at[w] = "count"

FreeSocketObj(w) ==
  /\ accepts.at[w] = "free"
  /\ accepts' = Goto(IF accepts.OutstandingOps # 0 \/ accepts.freed THEN Touch(accepts)
                     ELSE [accepts EXCEPT !.freed = TRUE, !.op = Abandoned(accepts),
                                          !.early = StillUsed(accepts)], w, "idle")

EnterCriticalSection(w) ==
  /\ accepts.at[w] = "enter" /\ accepts.SockCritSec \in {NoThread, w}
  /\ accepts' = Goto(Touch([accepts EXCEPT !.SockCritSec = w]), w, "associate")

(* The connection gets an object of its own.  When the port does not take  *)
(* the handle HandleIo returns as it is, in the critical section.          *)
Associate(w) ==
  LET b == accepts.slot[w]
  IN /\ accepts.at[w] = "associate"
     /\ \/ /\ Socket(accepts, b) # "closed"
           /\ accepts' = Goto(accepts, w, "repost")
        \/ /\ Socket(accepts, b) = "closed" \/ CanFail
           /\ accepts' = Goto(IF Socket(accepts, b) = "closed" THEN [accepts EXCEPT !.op[b] = "lost"]
                              ELSE Fault([accepts EXCEPT !.op[b] = "lost"]), w, "idle")

(* PostAccept of the same buffer, once the first operations of the         *)
(* connection are posted.                                                  *)
Repost(w) ==
  /\ accepts.at[w] = "repost"
  /\ \/ accepts' = Goto(Touch(AcceptEx(accepts, accepts.slot[w])), w, "count")
     \/ \E a \in NotPosted(accepts, accepts.slot[w]) : accepts' = Goto(Touch(a), w, "leave")

CountRepost(w) ==
  /\ accepts.at[w] = "count"
  /\ accepts' = Goto(CountOperation(accepts), w, "leave")

(* bClosing of the listening socket is never set.                          *)
LeaveCriticalSection(w) ==
  /\ accepts.at[w] = "leave"
  /\ accepts' = Goto(Touch([accepts EXCEPT !.OutstandingOps = @ - 1, !.SockCritSec = NoThread]), w, "idle")
-----------------------------------------------------------------------------
(* External: clients connect, send or go, and time passes.                 *)
Connect(b) ==
  /\ accepts.op[b] = "pending" /\ Socket(accepts, b) = "open" /\ accepts.clients < NConns
  /\ accepts' = [accepts EXCEPT !.sockets[accepts.sclient[b]] = "silent", !.clients = @ + 1]

Completes(b) ==
  /\ accepts.op[b] = "pending" /\ Socket(accepts, b) \in {"silent", "old"}
  /\ \/ accepts' = [accepts EXCEPT !.op[b] = "ok"]
     \/ accepts' = [accepts EXCEPT !.op[b] = "error", !.disturbed = TRUE]

FiveMinutes(b) ==
  /\ Socket(accepts, b) = "silent"
  /\ accepts' = [accepts EXCEPT !.sockets[accepts.sclient[b]] = "old"]

(* The accepted connection has operations of its own by now: a thread that *)
(* handles the last of them closes the socket that the buffer still names. *)
ConnectionEnds(w) ==
  LET s == accepts.sclient[accepts.slot[w]]
  IN /\ accepts.at[w] = "repost" /\ accepts.sockets[s] # "closed"
     /\ accepts' = [accepts EXCEPT !.sockets[s] = "closed", !.disturbed = TRUE]

AcceptsNext ==
  /\ ~accepts.ub /\ accepts.main # "ended"
  /\ \/ PostFirst \/ CountFirst \/ OneMinute \/ Reap \/ CloseOld
     \/ \E w \in Workers :
          \/ GetQueuedCompletionStatus(w) \/ DropFailed(w) \/ FreeSocketObj(w)
          \/ EnterCriticalSection(w) \/ Associate(w) \/ Repost(w) \/ CountRepost(w)
          \/ LeaveCriticalSection(w) \/ ConnectionEnds(w)
     \/ \E b \in Slots : Connect(b) \/ Completes(b) \/ FiveMinutes(b)
-----------------------------------------------------------------------------
Counts == {"pending", "ok", "error", "taken", "lost"}

(* OutstandingOps is the number of accepts that are out, but for one that  *)
(* a thread has posted and not yet counted or is about to give up: whoever *)
(* finds it zero may free the object, unless a thread is in between.  And  *)
(* as long as no call or accept has failed and no socket has been closed   *)
(* for its age or before its accept was posted again, every buffer of the  *)
(* pool that main has posted is out or in the hands of one worker, with an *)
(* open socket that no other buffer has, and who holds the critical        *)
(* section is in the handler.                                              *)
AcceptsAccounted ==
  LET Out == {b \in Slots : accepts.op[b] \in Counts}
      Leaving == {w \in Workers : accepts.at[w] = "leave"}
      Uncounted == IF accepts.main = "count" THEN 1 ELSE 0
      Begun == {b \in Slots : accepts.main = "post" => b < accepts.i}
      HandlerAt == {"associate", "repost", "count", "leave"}
      Holders(b) == {w \in Workers : accepts.slot[w] = b /\ accepts.at[w] \in {"enter", "associate", "repost"}}
  IN /\ ~accepts.freed =>
          accepts.OutstandingOps = Cardinality(Out) + Cardinality(Leaving) - Uncounted
     /\ accepts.freed /\ ~accepts.early => Out = {}
     /\ ~accepts.disturbed =>
          /\ ~accepts.ub /\ ~accepts.freed /\ accepts.main # "ended"
          /\ \A b \in Begun : (accepts.main = "count" => b <= accepts.i) =>
               /\ accepts.op[b] \in {"pending", "ok", "taken"}
               /\ Socket(accepts, b) # "closed"
               /\ \A c \in Slots \ {b} : accepts.sclient[c] # accepts.sclient[b]
               /\ accepts.op[b] = "taken" <=> Cardinality(Holders(b)) = 1
               /\ Cardinality(Holders(b)) <= 1
          /\ \A w \in Workers : accepts.at[w] \in HandlerAt <=> accepts.SockCritSec = w

(* "see if any of the client sockets have been connected but haven't       *)
(* received any data. If so, close them": the accept that loses its socket *)
(* is still outstanding.                                                   *)
ClosesOnlySilent == [][CloseOld => accepts.op[accepts.i] = "pending"]_accepts
=============================================================================
