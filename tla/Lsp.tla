--------------------------------- MODULE Lsp ---------------------------------
(***************************************************************************)
(* The layered service provider of chapter 12 at work: the SPI functions   *)
(* (spi.cpp), the overlapped manager (overlap.cpp), the extension          *)
(* functions (extension.cpp) and the hidden window (asyncselect.cpp).      *)
(*                                                                         *)
(* Application threads call the SPI; worker threads take completions from  *)
(* the port (or, without completion ports, execute the queued operations); *)
(* the provider below answers.  A step is what a critical section makes    *)
(* atomic, or one call into the provider below.  Between two steps of a    *)
(* call a thread holds references: ctx for the socket of the call, acc for *)
(* the accept socket, inner for the lookups of the completion code.        *)
(***************************************************************************)
EXTENDS Integers, LspSockets

CONSTANTS Apps, Workers, Ols, Requests, NoOl, NoRequest,
          MaxCalls,     \* bound: SPI calls the application makes
          MaxFaults,    \* bound: failures of the system
          PoolCount     \* DEFAULT_POOL_COUNT

ASSUME LspAssumption ==
  /\ Apps \cap Workers = {} /\ NoThread \notin Apps \cup Workers
  /\ NoOl \notin Ols /\ NoRequest \notin Requests
  /\ IsFiniteSet(Apps) /\ IsFiniteSet(Workers) /\ IsFiniteSet(Ols)
  /\ MaxCalls \in Nat /\ MaxFaults \in Nat /\ PoolCount \in 1..Cardinality(Ols)

VARIABLES lsp,      \* the globals of the DLL, and the bounds' counters
          thread,   \* what every thread is doing
          ol,       \* the WSAOVERLAPPEDPLUS structures
          pool,     \* FreePool, head first
          pending,  \* PendingStart..PendingEnd, where there is no port
          lower,    \* structures the provider below works on
          port,     \* completions, and the packets that end a worker
          lost,     \* structures whose completion nobody will report
          user      \* the application's OVERLAPPED of each request

structures == <<ol, pool, pending, lower, port, lost>>
vars == <<lsp, thread, structures, user, sockets>>

Threads == Apps \cup Workers

Idle == [pc |-> "idle", s |-> NoHandle, ctx |-> NoInfo, acc |-> NoInfo,
         a |-> NoHandle, inner |-> NoInfo, ol |-> NoOl, req |-> NoRequest, op |-> "none", n |-> 0]

Unused == [SockInfo |-> NoInfo, CallerSocket |-> NoHandle, sAcceptSocket |-> NoHandle,
           Operation |-> "none", req |-> NoRequest]

Unallocated == [Unused EXCEPT !.Operation = "absent"]

(***************************************************************************)
(* What the completion code does with a structure: it counts a send, a     *)
(* receive and TransmitFile ("transfer"), counts AcceptEx for the accepted *)
(* socket, and falls through to the default for the rest ("other":         *)
(* ConnectEx, TransmitPackets, DisconnectEx, the I/O controls; WSARecvMsg  *)
(* differs when it is executed, the PNP query is not executed at all).     *)
(* The two counters of a socket are one here.                              *)
(***************************************************************************)
Init == /\ lsp = [health |-> "ok", gEntryCount |-> 0, gBaseInfo |-> FALSE, ghIocp |-> FALSE,
                  window |-> "none", proc |-> NoInfo,
                  global |-> NoThread, calls |-> MaxCalls, faults |-> MaxFaults,
                  leaked |-> [c \in Infos |-> 0],
                  kept |-> {}]     \* history: structures whose handle would not close
        /\ thread = [t \in Threads |-> Idle]
        /\ ol = [o \in Ols |-> Unallocated]
        /\ pool = <<>> /\ pending = <<>> /\ lower = {} /\ port = <<>> /\ lost = {}
        /\ user = [r \in Requests |-> [status |-> "idle", ctx |-> NoInfo]]
        /\ SocketsInit

-------------------------------------------------------------------------------
(* Common parts of the steps.                                              *)

Goto(t, pc) == thread' = [thread EXCEPT ![t].pc = pc]
Return(t) == thread' = [thread EXCEPT ![t] = Idle]

(* Only the references of a call are left to give back.                    *)
Leaving(t) == [Idle EXCEPT !.pc = "leave", !.ctx = thread[t].ctx, !.acc = thread[t].acc]
Exit(t) == thread' = [thread EXCEPT ![t] = Leaving(t)]

(* Nothing is said of what follows: freed memory was used ("wild"), or the *)
(* process is gone.                                                        *)
Over(health) ==
  /\ lsp' = [lsp EXCEPT !.health = health, !.gBaseInfo = FALSE]
  /\ thread' = [t \in Threads |-> Idle]
  /\ ol' = [o \in Ols |-> Unallocated]
  /\ pool' = <<>> /\ pending' = <<>> /\ lower' = {} /\ port' = <<>> /\ lost' = {}
  /\ user' = [r \in Requests |-> [status |-> "idle", ctx |-> NoInfo]]
  /\ info' = [c \in Infos |-> Blank] /\ list' = <<>> /\ handle' = [s \in Handles |-> NoInfo]

Wild == Over("wild")
Crash == Over("crashed")

Global(t) == lsp.global \in {NoThread, t}      \* gCriticalSection can be entered

(* A step of a thread; one that has a structure needs the heap it is on.   *)
At(t, pc) == /\ lsp.health = "ok" /\ thread[t].pc = pc
             /\ thread[t].ol # NoOl => lsp.gBaseInfo

StructureGone(t) == /\ lsp.health = "ok" /\ thread[t].ol # NoOl /\ ~lsp.gBaseInfo
                    /\ Wild

(* gOverlappedCS, which StopOverlappedManager holds while it waits.        *)
OverlappedFree == \A t \in Apps : thread[t].pc # "stopping"

Fault == [lsp EXCEPT !.faults = @ - 1]
MayFail == lsp.faults > 0

(* WPUCloseSocketHandle may fail; no caller of it can help that.           *)
HandleCloses == {TRUE} \cup (IF MayFail THEN {FALSE} ELSE {})
Kept(c) == [Fault EXCEPT !.kept = @ \cup {c}]

Unlock(c) == \E closes \in (IF LastReference(c) THEN HandleCloses ELSE {TRUE}) :
               /\ UnlockSocketContext(c, closes)
               /\ lsp' = IF closes THEN lsp ELSE Kept(c)

Calling(t) == /\ At(t, "idle") /\ t \in Apps
              /\ lsp.gEntryCount > 0 /\ lsp.gBaseInfo
              /\ lsp.calls > 0 /\ Global(t)

(* A call on a handle that ws2_32 knows: one reference, and on to pc.      *)
Enter(t, s, pc, op, r) ==
  /\ Calling(t) /\ Known(s)
  /\ info' = FindAndLockSocketContext(s)
  /\ thread' = [thread EXCEPT ![t] = [Idle EXCEPT !.pc = pc, !.ctx = handle[s], !.op = op, !.req = r,
                                         !.s = IF pc = "leave" THEN NoHandle ELSE s]]
  /\ lsp' = [lsp EXCEPT !.calls = @ - 1]
  /\ UNCHANGED <<structures, user, list, handle>>

(* The lookup of any call, when the structure was freed under its handle.  *)
(* Nothing is done after it, so it is not one of the calls that are bound. *)
LookupFreed(t, s) == /\ At(t, "idle") /\ t \in Apps /\ Global(t)
                     /\ lsp.gEntryCount > 0 /\ lsp.gBaseInfo
                     /\ Dangling(s) /\ Wild

(* The end of a call: the socket's reference, then the accept socket's.    *)
Leave(t) ==
  /\ At(t, "leave") /\ Global(t)
  /\ IF ~UnlockSafe(thread[t].ctx) THEN Wild
     ELSE /\ Unlock(thread[t].ctx)
          /\ thread' = [thread EXCEPT ![t] = IF thread[t].acc = NoInfo THEN Idle
                          ELSE [Idle EXCEPT !.pc = "leave", !.ctx = thread[t].acc]]
          /\ UNCHANGED <<structures, user>>

-------------------------------------------------------------------------------
(***************************************************************************)
(* Calls that only translate the handle: the provider below is called with *)
(* the reference held and changes nothing the layer keeps.                 *)
(***************************************************************************)
Forward(t, s) == Enter(t, s, "leave", "none", NoRequest)

WSPBind(t, s) == Forward(t, s)
WSPConnect(t, s) == Forward(t, s)
WSPDuplicateSocket(t, s) == Forward(t, s)
WSPEnumNetworkEvents(t, s) == Forward(t, s)
WSPEventSelect(t, s) == Forward(t, s)
WSPGetPeerName(t, s) == Forward(t, s)
WSPGetSockName(t, s) == Forward(t, s)
WSPGetSockOpt(t, s) == Forward(t, s)
WSPGetQOSByName(t, s) == Forward(t, s)
WSPListen(t, s) == Forward(t, s)
WSPRecvDisconnect(t, s) == Forward(t, s)
WSPSendDisconnect(t, s) == Forward(t, s)
WSPShutdown(t, s) == Forward(t, s)

(***************************************************************************)
(* SO_UPDATE_ACCEPT_CONTEXT looks the listening socket up, unlocks it and  *)
(* then reads its lower handle; when the lookup fails the reference on the *)
(* socket of the call is never given back.                                 *)
(***************************************************************************)
WSPSetSockOpt(t, s, listener) ==
  /\ Calling(t) /\ Known(s) /\ (listener # NoHandle => ~Dangling(listener))
  /\ LET c == handle[s]
         d == IF listener = NoHandle THEN c ELSE handle[listener]
     IN  IF d = NoInfo
         THEN /\ info' = FindAndLockSocketContext(s)
              /\ lsp' = [lsp EXCEPT !.calls = @ - 1, !.leaked[c] = @ + 1]
              /\ UNCHANGED thread
         ELSE /\ info' = FindAndLockSocketContext(s)
              /\ lsp' = [lsp EXCEPT !.calls = @ - 1]
              /\ thread' = [thread EXCEPT ![t] = [Idle EXCEPT !.pc = "setsockopt",
                                                    !.ctx = c, !.acc = d]]
  /\ UNCHANGED <<structures, user, list, handle>>

UpdateAcceptContext(t) ==
  /\ At(t, "setsockopt")
  /\ IF ~Live(thread[t].acc) THEN Wild
     ELSE /\ thread' = [thread EXCEPT ![t] = [Leaving(t) EXCEPT !.acc = NoInfo]]
          /\ UNCHANGED <<lsp, structures, user, sockets>>

(***************************************************************************)
(* WSPSelect locks and unlocks every socket in turn, calls the provider of *)
(* the last one through the structure it no longer holds, and translates   *)
(* the answer back.                                                        *)
(***************************************************************************)
WSPSelect(t, s) ==
  /\ Calling(t) /\ Known(s)
  /\ thread' = [thread EXCEPT ![t] = [Idle EXCEPT !.pc = "select", !.acc = handle[s]]]
  /\ lsp' = [lsp EXCEPT !.calls = @ - 1]
  /\ UNCHANGED <<structures, user, sockets>>

SelectLower(t) ==
  /\ At(t, "select")
  /\ IF ~Live(thread[t].acc) THEN Wild
     ELSE Return(t) /\ UNCHANGED <<lsp, structures, user, sockets>>

(***************************************************************************)
(* WSPCancelBlockingCall tests the pointer the wrong way round: outside a  *)
(* blocking call it calls through NULL.                                    *)
(***************************************************************************)
WSPCancelBlockingCall(t) == Calling(t) /\ Crash

-------------------------------------------------------------------------------
(***************************************************************************)
(* Creating sockets.  WSPSocket frees a structure whose handle could not   *)
(* be created and then writes to it; WSPJoinLeaf frees it and leaves it on *)
(* the list; WSPAccept keeps it without a handle.  WSPJoinLeaf takes any   *)
(* answer but the socket itself for a new socket, INVALID_SOCKET included. *)
(***************************************************************************)
Unborn == {c \in Infos : info[c].state = "none"}
FreeHandles == {s \in Handles : handle[s] = NoInfo}

(* HeapAlloc and WPUCreateSocketHandle pick, the caller does not.          *)
Fresh(c, s) == /\ Unborn # {} /\ c = CHOOSE d \in Unborn : TRUE
               /\ s # NoHandle => FreeHandles # {} /\ s = CHOOSE h \in FreeHandles : TRUE

Linked(c, s, new) ==
  /\ info' = [info EXCEPT ![c] = new]
  /\ list' = InsertSocketInfo(list, c)
  /\ handle' = [h \in Handles |-> IF h = s THEN c ELSE handle[h]]

HeadFreed == \E d \in InsertTouches(list) : ~Live(d)

WSPSocket(t, c, s) ==
  /\ Calling(t) /\ Fresh(c, s)
  /\ IF HeadFreed THEN Wild
     ELSE /\ Linked(c, s, CreateSockInfo("open", s, FALSE))
          /\ lsp' = [lsp EXCEPT !.calls = @ - 1]
          /\ UNCHANGED <<thread, structures, user>>

WSPSocketNoHandle(t, c) == Calling(t) /\ Fresh(c, NoHandle) /\ MayFail /\ Wild

WSPAccept(t, s) == Enter(t, s, "accept", "none", NoRequest)

WSPJoinLeaf(t, s) == Enter(t, s, "joinleaf", "none", NoRequest)

NewSocket(t, c, s) ==
  /\ lsp.health = "ok" /\ thread[t].pc \in {"accept", "joinleaf"}
  /\ Fresh(c, s) /\ (s = NoHandle => MayFail)
  /\ LET ctx == thread[t].ctx
         joined == thread[t].pc = "joinleaf"
     IN  IF ~Live(ctx) \/ HeadFreed THEN Wild
         ELSE /\ \E provider \in (IF joined THEN {"open", "invalid"} ELSE {"open"}) :
                  Linked(c, s, IF s = NoHandle /\ joined THEN Remains(c)
                               ELSE CreateSockInfo(provider, s, info[ctx].hWnd))
              /\ lsp' = IF s = NoHandle THEN Fault ELSE lsp
              /\ Exit(t)
              /\ UNCHANGED <<structures, user>>

(* The provider below accepts nothing, or joins on the socket itself.      *)
NoNewSocket(t) == /\ lsp.health = "ok" /\ thread[t].pc \in {"accept", "joinleaf"}
                  /\ Exit(t)
                  /\ UNCHANGED <<lsp, structures, user, sockets>>

-------------------------------------------------------------------------------
(***************************************************************************)
(* WSPCloseSocket takes the socket's lock first.  With I/O outstanding or  *)
(* another thread inside, it marks the socket, closes the lower socket and *)
(* drops its reference; it does not release the lock.  Otherwise it closes *)
(* the lower socket, leaves the list, closes the handle and frees the      *)
(* structure; when the handle does not close it releases the lock and goes *)
(* without UnlockSocketContext.  An application closes a socket once,      *)
(* unless the close failed; a lower socket that is none closes no more.    *)
(***************************************************************************)
WSPCloseSocket(t, s) ==
  /\ handle[s] # NoInfo => /\ \/ info[handle[s]].ProviderSocket = "open"
                              \/ handle[s] \in lsp.kept
                           /\ \A u \in Apps : thread[u].s = s => thread[u].pc \notin {"close", "closed"}
  /\ Enter(t, s, "close", "none", NoRequest)

Busy(c) == info[c].dwOutstandingAsync # 0 \/ info[c].RefCount # 1

LowerFails(c) == IF info[c].ProviderSocket # "open" THEN {TRUE}
                 ELSE {FALSE} \cup (IF MayFail THEN {TRUE} ELSE {})

CloseProvider(t) ==
  /\ At(t, "close")
  /\ LET c == thread[t].ctx IN
     IF ~Live(c) THEN Wild
     ELSE /\ CanLock(t, c)
          /\ \E failed \in LowerFails(c) :
             /\ info' = [info EXCEPT ![c].owner = t, ![c].bClosing = @ \/ Busy(c),
                                     ![c].ProviderSocket = IF failed THEN @ ELSE "invalid"]
             /\ IF Busy(c) \/ failed THEN Exit(t)
                ELSE thread' = [thread EXCEPT ![t].pc = "closed",
                                  ![t].n = IF info[c].owner = t THEN 1 ELSE 0]    \* locked again
             /\ lsp' = IF failed /\ info[c].ProviderSocket = "open" THEN Fault ELSE lsp
          /\ UNCHANGED <<structures, user, list, handle>>

(* RemoveSocketInfo, WPUCloseSocketHandle, HeapFree.                       *)
Freed(c) == [info EXCEPT ![c] = Remains(c)]
Unmapped(s) == [handle EXCEPT ![s] = NoInfo]

CloseLayered(t) ==
  /\ At(t, "closed")
  /\ LET c == thread[t].ctx IN
     IF ~(Live(c) /\ RemoveSafe(c)) THEN Wild
     ELSE /\ \/ info' = Freed(c) /\ handle' = Unmapped(thread[t].s) /\ UNCHANGED lsp
             \/ /\ MayFail /\ lsp' = [Kept(c) EXCEPT !.leaked[c] = @ + 1]
                /\ info' = [info EXCEPT ![c].owner = IF thread[t].n = 0 THEN NoThread ELSE t]
                /\ UNCHANGED handle
          /\ list' = RemoveSocketInfo(list, c)
          /\ Return(t)
          /\ UNCHANGED <<structures, user>>

-------------------------------------------------------------------------------
(***************************************************************************)
(* Blocking transfers: the count is read and written outside every lock.   *)
(***************************************************************************)
Transfer(t) ==
  /\ At(t, "transfer")
  /\ LET c == thread[t].ctx
     IN  IF ~Live(c) THEN Wild
         ELSE \/ /\ Exit(t) /\ UNCHANGED <<lsp, structures, user, sockets>>
              \/ /\ info[c].ProviderSocket = "open"
                 /\ info' = [info EXCEPT ![c].moved = @ + 1]
                 /\ thread' = [thread EXCEPT ![t].pc = "count", ![t].n = info[c].Bytes + 1]
                 /\ UNCHANGED <<lsp, structures, user, list, handle>>

Count(t) ==
  /\ At(t, "count")
  /\ LET c == thread[t].ctx IN
     IF ~Live(c) THEN Wild
     ELSE /\ info' = [info EXCEPT ![c].Bytes = thread[t].n]
          /\ Exit(t)
          /\ UNCHANGED <<lsp, structures, user, list, handle>>

Blocking(t, s) == Enter(t, s, "transfer", "none", NoRequest)

IdleRequests == {r \in Requests : user[r].status = "idle" /\ \A t \in Threads : thread[t].req # r}

(* The application passes an OVERLAPPED it does not use.                   *)
UnusedRequest(r) == IdleRequests # {} /\ r = CHOOSE q \in IdleRequests : TRUE
Overlapped(t, s, op, r) == UnusedRequest(r) /\ Enter(t, s, "get", op, r)

WSPRecv(t, s, r) == Blocking(t, s) \/ Overlapped(t, s, "transfer", r)
WSPRecvFrom(t, s, r) == Blocking(t, s) \/ Overlapped(t, s, "transfer", r)
WSPSend(t, s, r) == Blocking(t, s) \/ Overlapped(t, s, "transfer", r)
WSPSendTo(t, s, r) == Blocking(t, s) \/ Overlapped(t, s, "transfer", r)

(***************************************************************************)
(* WSPIoctl: an extension function's pointer is fetched and kept with the  *)
(* provider, the PNP handle is answered on the spot through the completion *)
(* code, every other code goes down.                                       *)
(***************************************************************************)
WSPIoctlExtension(t, s) == Forward(t, s)

WSPIoctlPnpHandle(t, s, r) == Overlapped(t, s, "pnp", r) \/ Forward(t, s)

WSPIoctl(t, s, r) == Overlapped(t, s, "other", r) \/ Forward(t, s)

(***************************************************************************)
(* The extension functions: the call is refused until the pointer has been *)
(* fetched (which of the two it is stays open here).                       *)
(***************************************************************************)
Extension(t, s, op, r) == Overlapped(t, s, op, r) \/ Forward(t, s)

ExtTransmitFile(t, s, r) == Extension(t, s, "transfer", r)
ExtConnectEx(t, s, r) == Extension(t, s, "other", r)
ExtTransmitPackets(t, s, r) == Extension(t, s, "other", r)
ExtDisconnectEx(t, s, r) == Extension(t, s, "other", r)
ExtWSARecvMsg(t, s, r) == Extension(t, s, "recvmsg", r)

ExtAcceptEx(t, s, a, r) ==
  /\ Calling(t) /\ UnusedRequest(r)
  /\ s # a /\ Known(s) /\ Known(a)
  /\ info' = [info EXCEPT ![handle[s]].RefCount = @ + 1, ![handle[a]].RefCount = @ + 1]
  /\ thread' = [thread EXCEPT ![t] = [Idle EXCEPT !.pc = "get", !.s = s, !.ctx = handle[s],
                                        !.a = a, !.acc = handle[a], !.op = "acceptex", !.req = r]]
  /\ lsp' = [lsp EXCEPT !.calls = @ - 1]
  /\ UNCHANGED <<structures, user, list, handle>>

-------------------------------------------------------------------------------
(***************************************************************************)
(* GetOverlappedStructure counts the request on the socket before it knows *)
(* whether there is a structure for it, and takes the head of the pool; an *)
(* empty pool is refilled once, or the call fails.                         *)
(***************************************************************************)
Absent == {o \in Ols : ol[o].Operation = "absent"}

AllocateFreePool == SetToSeq(CHOOSE B \in SUBSET Absent : Cardinality(B) = PoolCount)

Allocated(got) == [o \in Ols |-> IF o \in Absent /\ Contains(got, o) THEN Unused ELSE ol[o]]

(* The pool as the caller finds it; the block of a refill may be refused.  *)
Refill == IF pool # <<>> THEN {pool}
          ELSE (IF Cardinality(Absent) < PoolCount THEN {} ELSE {AllocateFreePool})
               \cup (IF MayFail THEN {<<>>} ELSE {})

GetOverlappedStructure(t) ==
  /\ At(t, "get")
  /\ LET c == thread[t].ctx
         op == thread[t].op
     IN  IF ~Live(c) \/ (thread[t].acc # NoInfo /\ ~Live(thread[t].acc)) THEN Wild
         ELSE /\ CanLock(t, c) /\ OverlappedFree
              /\ info' = [info EXCEPT ![c].dwOutstandingAsync = @ + 1]
              /\ \E got \in Refill : IF got = <<>>
                 THEN Exit(t) /\ lsp' = Fault /\ UNCHANGED <<ol, pool>>
                 ELSE /\ pool' = Tail(got)
                      /\ ol' = [Allocated(got) EXCEPT ![Head(got)] =
                           [SockInfo |-> c, CallerSocket |-> thread[t].s, Operation |-> op,
                            sAcceptSocket |-> thread[t].a, req |-> thread[t].req]]
                      /\ thread' = [thread EXCEPT ![t].ol = Head(got),
                                      ![t].pc = IF op = "pnp" THEN "complete" ELSE "queue"]
                      /\ UNCHANGED lsp
              /\ UNCHANGED <<pending, lower, port, lost, user, list, handle>>

(***************************************************************************)
(* ExecuteOverlappedOperation: the provider below pends, finishes or       *)
(* refuses.  Finished and pended operations are both completed through the *)
(* port, if the lower socket is associated with it.  A refusal is reported *)
(* by the return value and undone.  WSARecvMsg returns zero for success    *)
(* where the other extensions return TRUE, and is read like them: success  *)
(* is undone while the provider below works on the structure, refusal is   *)
(* taken for pending.  No one tells the application when a worker is       *)
(* refused.                                                                *)
(***************************************************************************)
Answers(o) == IF info[ol[o].SockInfo].ProviderSocket = "open" THEN {"pending", "done", "failed"}
              ELSE {"failed"}

Refused(o, a) == IF ol[o].Operation = "recvmsg" THEN a = "done" ELSE a = "failed"

ExecuteOverlappedOperation(t, o, associated, a) ==
  LET r == ol[o].req
      below == a # "failed" /\ associated
  IN  IF Refused(o, a)
      THEN /\ thread' = [thread EXCEPT ![t].pc = "check", ![t].ol = o]
           /\ user' = [user EXCEPT ![r] = [status |-> IF t \in Apps THEN "idle" ELSE "unreported",
                                           ctx |-> NoInfo]]
           /\ lsp' = [lsp EXCEPT !.health = IF a = "done" THEN "wild" ELSE @]
           /\ UNCHANGED <<lower, lost>>
      ELSE /\ thread' = [thread EXCEPT ![t] = IF t \in Apps THEN Leaving(t) ELSE Idle]
           /\ user' = [user EXCEPT ![r] = [status |-> IF below THEN "pending" ELSE "lost",
                                           ctx |-> IF below THEN ol[o].SockInfo ELSE NoInfo]]
           /\ lower' = IF below THEN lower \cup {o} ELSE lower
           /\ lost' = IF below THEN lost ELSE lost \cup {o}
           /\ lsp' = IF associated THEN lsp ELSE Fault

(***************************************************************************)
(* QueueOverlappedOperation: with a port the caller's thread associates    *)
(* the lower socket and executes; without one a worker will.               *)
(***************************************************************************)
QueueOverlappedOperation(t) ==
  /\ At(t, "queue") /\ lsp.ghIocp
  /\ LET c == thread[t].ctx
         o == thread[t].ol
     IN  IF ~Live(c) THEN Wild
         ELSE /\ CanLock(t, c)
              /\ \E associated \in {TRUE} \cup (IF MayFail /\ ~info[c].hIocp THEN {FALSE} ELSE {}),
                    a \in Answers(o) :
                 /\ info' = [info EXCEPT ![c].hIocp = associated]
                 /\ ExecuteOverlappedOperation(t, o, associated, a)
              /\ UNCHANGED <<ol, pool, pending, port, list, handle>>

EnqueueOverlappedOperation(t) ==
  /\ At(t, "queue") /\ ~lsp.ghIocp
  /\ LET o == thread[t].ol IN
     /\ pending' = Append(pending, o)
     /\ user' = [user EXCEPT ![ol[o].req] = [status |-> "pending", ctx |-> ol[o].SockInfo]]
     /\ Exit(t)
     /\ UNCHANGED <<lsp, ol, pool, lower, port, lost, sockets>>

DequeueOverlappedOperation(w) ==
  /\ At(w, "idle") /\ w \in Workers /\ pending # <<>>
  /\ \E a \in Answers(Head(pending)) :
        ExecuteOverlappedOperation(w, Head(pending), TRUE, a)
  /\ pending' = Tail(pending)
  /\ UNCHANGED <<ol, pool, port, sockets>>

(***************************************************************************)
(* The provider below finishes; on a socket it has closed, with an error.  *)
(***************************************************************************)
Beneficiary(o) == IF ol[o].Operation # "acceptex" THEN ol[o].SockInfo
                  ELSE IF Known(ol[o].sAcceptSocket) THEN handle[ol[o].sAcceptSocket] ELSE NoInfo

LowerCompletes(o) ==
  /\ lsp.health = "ok" /\ o \in lower
  /\ \/ /\ info[ol[o].SockInfo].ProviderSocket = "open"
        /\ info' = IF Beneficiary(o) = NoInfo THEN info
                   ELSE [info EXCEPT ![Beneficiary(o)].moved = @ + 1]
        /\ ol' = [ol EXCEPT ![o].Operation = IF @ = "recvmsg" THEN "other" ELSE @]
     \/ /\ ol' = [ol EXCEPT ![o].Operation = "error"]
        /\ UNCHANGED info
  /\ lower' = lower \ {o} /\ port' = Append(port, o)
  /\ UNCHANGED <<lsp, thread, pool, pending, lost, user, list, handle>>

-------------------------------------------------------------------------------
(***************************************************************************)
(* A worker takes a completion, or the packet that ends it, and runs       *)
(* IntermediateCompletionRoutine: look the socket up again, count, unlock, *)
(* tell the application, give back the count and the structure.            *)
(***************************************************************************)
OverlappedManagerThread(w) ==
  /\ At(w, "idle") /\ w \in Workers /\ port # <<>>
  /\ port' = Tail(port)
  /\ thread' = [thread EXCEPT ![w] = IF Head(port) = NoOl THEN [Idle EXCEPT !.pc = "exited"]
                  ELSE [Idle EXCEPT !.pc = "complete", !.ol = Head(port)]]
  /\ UNCHANGED <<lsp, ol, pool, pending, lower, lost, user, sockets>>

(* A lookup of the structure's socket: found, on to pc; else put it back.  *)
Lookup(t, pc) ==
  LET s == ol[thread[t].ol].CallerSocket IN
  /\ Global(t)
  /\ IF Dangling(s) THEN Wild
     ELSE /\ IF handle[s] = NoInfo
             THEN Goto(t, "putback") /\ UNCHANGED info
             ELSE /\ info' = FindAndLockSocketContext(s)
                  /\ thread' = [thread EXCEPT ![t].pc = pc, ![t].inner = handle[s]]
          /\ UNCHANGED <<lsp, structures, user, list, handle>>

CompleteFind(t) == At(t, "complete") /\ Lookup(t, "account")

(* A slip: a completion that failed is counted like one that moved data.   *)
AccountsErrors(t) ==
  /\ At(t, "account")
  /\ LET c == thread[t].inner IN
     IF ~Live(c) THEN Wild
     ELSE /\ CanLock(t, c)
          /\ info' = [info EXCEPT ![c].Bytes = @ + 1]
          /\ Goto(t, "release")
          /\ UNCHANGED <<lsp, structures, user, list, handle>>

(* Count what was moved under the socket's lock.                           *)
Account(t) ==
  /\ At(t, "account")
  /\ LET o == thread[t].ol
         op == ol[o].Operation
         c == thread[t].inner
         d == IF op = "acceptex" THEN handle[ol[o].sAcceptSocket] ELSE c
     IN  IF ~Live(c) \/ (d # NoInfo /\ ~Live(d)) THEN Wild
         ELSE /\ op # "error" => CanLock(t, c)
              /\ IF d = NoInfo THEN Crash
                 ELSE /\ info' = IF op \in {"transfer", "acceptex"}
                                 THEN [info EXCEPT ![d].Bytes = @ + 1] ELSE info
                      /\ ol' = [ol EXCEPT ![o].Operation = "other", ![o].sAcceptSocket = NoHandle]
                      /\ Goto(t, "release")
                      /\ UNCHANGED <<lsp, pool, pending, lower, port, lost, user, list, handle>>

(* A slip: a completion with an error returns without its unlock.          *)
ReleaseForgets(t) ==
  /\ At(t, "release") /\ Global(t)
  /\ thread' = [thread EXCEPT ![t].inner = NoInfo, ![t].pc = "notify"]
  /\ UNCHANGED <<lsp, structures, user, sockets>>

Release(t) ==
  /\ At(t, "release") /\ Global(t)
  /\ IF ~UnlockSafe(thread[t].inner) THEN Wild
     ELSE /\ Unlock(thread[t].inner)
          /\ thread' = [thread EXCEPT ![t].inner = NoInfo, ![t].pc = "notify"]
          /\ UNCHANGED <<structures, user>>

(* A slip: the application is told of operations that were executed only.  *)
NotifySkips(t) ==
  /\ At(t, "notify") /\ Goto(t, "check")
  /\ user' = IF t \in Apps THEN [user EXCEPT ![ol[thread[t].ol].req].status = "done"] ELSE user
  /\ UNCHANGED <<lsp, structures, sockets>>

(* WPUCompleteOverlappedRequest needs a handle that is still open.         *)
Notify(t) ==
  /\ At(t, "notify")
  /\ LET o == ol[thread[t].ol] IN
     user' = IF handle[o.CallerSocket] = NoInfo THEN user
             ELSE [user EXCEPT ![o.req] = [status |-> "done", ctx |-> NoInfo]]
  /\ Goto(t, "check")
  /\ UNCHANGED <<lsp, structures, sockets>>

(***************************************************************************)
(* CheckForContextCleanup: one request less; the last one of a closing     *)
(* socket that nobody else references closes the handle and frees.  That   *)
(* branch is never taken: who closed the socket still has its lock, and a  *)
(* structure that its handle outlived has a reference left.                *)
(***************************************************************************)
CleanupFind(t) == At(t, "check") /\ Lookup(t, "decrement")

LastRequest(c) ==
  info[c].bClosing /\ info[c].dwOutstandingAsync = 1 /\ info[c].RefCount = 1

Decrement(t) ==
  /\ At(t, "decrement")
  /\ LET c == ol[thread[t].ol].SockInfo
         last == LastRequest(c)
     IN  IF ~Live(c) \/ (last /\ ~RemoveSafe(c)) THEN Wild
         ELSE /\ CanLock(t, c)
              /\ info' = IF last THEN Freed(c) ELSE [info EXCEPT ![c].dwOutstandingAsync = @ - 1]
              /\ handle' = IF last THEN Unmapped(ol[thread[t].ol].CallerSocket) ELSE handle
              /\ list' = IF last THEN RemoveSocketInfo(list, c) ELSE list
              /\ thread' = [thread EXCEPT ![t].pc = IF last THEN "putback" ELSE "unlock",
                                          ![t].inner = IF last THEN NoInfo ELSE @]
              /\ UNCHANGED <<lsp, structures, user>>

CleanupUnlock(t) ==
  /\ At(t, "unlock") /\ Global(t)
  /\ IF ~UnlockSafe(thread[t].inner) THEN Wild
     ELSE /\ Unlock(thread[t].inner)
          /\ thread' = [thread EXCEPT ![t].inner = NoInfo, ![t].pc = "putback"]
          /\ UNCHANGED <<structures, user>>

(* A slip: the structure is cleared and not linked back into the pool.     *)
PutbackForgets(t) ==
  /\ At(t, "putback") /\ OverlappedFree
  /\ ol' = [ol EXCEPT ![thread[t].ol] = Unused]
  /\ thread' = [thread EXCEPT ![t] = IF t \in Apps THEN Leaving(t) ELSE Idle]
  /\ UNCHANGED <<lsp, pool, pending, lower, port, lost, user, sockets>>

PutbackOverlappedStructure(t) ==
  /\ At(t, "putback") /\ OverlappedFree
  /\ pool' = <<thread[t].ol>> \o pool
  /\ ol' = [ol EXCEPT ![thread[t].ol] = Unused]
  /\ thread' = [thread EXCEPT ![t] = IF t \in Apps THEN Leaving(t) ELSE Idle]
  /\ UNCHANGED <<lsp, pending, lower, port, lost, user, sockets>>

(* WSPGetOverlappedResult: the application learns that a request is over.  *)
WSPGetOverlappedResult(r) ==
  /\ lsp.health = "ok" /\ user[r].status = "done"
  /\ user' = [user EXCEPT ![r].status = "idle"]
  /\ UNCHANGED <<lsp, thread, structures, sockets>>

-------------------------------------------------------------------------------
(***************************************************************************)
(* WSPAsyncSelect redirects the socket's messages to a hidden window.      *)
(* GetWorkerWindow creates its thread once, and waits for the window with  *)
(* gCriticalSection held: for ever, if the window cannot be created.       *)
(***************************************************************************)
WSPAsyncSelect(t, s) ==
  /\ Calling(t) /\ Known(s)
  /\ info' = [FindAndLockSocketContext(s) EXCEPT ![handle[s]].hWnd = TRUE]
  /\ thread' = [thread EXCEPT ![t] = [Idle EXCEPT !.pc = "window", !.ctx = handle[s]]]
  /\ lsp' = [lsp EXCEPT !.calls = @ - 1]
  /\ UNCHANGED <<structures, user, list, handle>>

GetWorkerWindow(t) ==
  /\ At(t, "window") /\ Global(t) /\ lsp.window = "none"
  /\ \/ /\ lsp' = [lsp EXCEPT !.window = "up"]
        /\ UNCHANGED thread
     \/ /\ MayFail /\ lsp' = Fault          \* CreateThread
        /\ Exit(t)
     \/ /\ MayFail /\ lsp' = [Fault EXCEPT !.global = t]    \* CreateWindow
        /\ Goto(t, "spin")
  /\ UNCHANGED <<structures, user, sockets>>

AsyncSelectLower(t) ==
  /\ At(t, "window") /\ Global(t) /\ lsp.window # "none"
  /\ LET c == thread[t].ctx IN
     IF ~Live(c) THEN Wild
     ELSE /\ info' = [info EXCEPT ![c].selected = lsp.window = "up"]
          /\ Exit(t)
          /\ UNCHANGED <<lsp, structures, user, list, handle>>

(***************************************************************************)
(* The provider below reports an event to the hidden window.  AsyncWndProc *)
(* finds the structure by its lower handle and uses it later, with neither *)
(* lock nor reference.  The walk reads the listed structures.              *)
(***************************************************************************)
AsyncWndProc(c) ==
  /\ lsp.health = "ok" /\ lsp.window = "up" /\ lsp.proc = NoInfo
  /\ info[c].selected /\ info[c].ProviderSocket = "open"
  /\ IF \E i \in DOMAIN list : ~Live(list[i]) THEN Wild
     ELSE /\ lsp' = [lsp EXCEPT !.proc = GetCallerSocket(c)]
          /\ UNCHANGED <<thread, structures, user, sockets>>

AsyncWndProcPost ==
  /\ lsp.health = "ok" /\ lsp.proc # NoInfo
  /\ IF ~Live(lsp.proc) THEN Wild
     ELSE /\ lsp' = [lsp EXCEPT !.proc = NoInfo]
          /\ UNCHANGED <<thread, structures, user, sockets>>

-------------------------------------------------------------------------------
(***************************************************************************)
(* WSPStartup loads the providers below and starts the overlapped manager  *)
(* once; a later call only counts.  A failure leaves gEntryCount at one,   *)
(* so that no later call loads anything, and the one that finds a bad      *)
(* procedure table leaves gCriticalSection locked.                         *)
(***************************************************************************)
InitOverlappedManager ==
  /\ \E iocp \in BOOLEAN :      \* NT, or a system without completion ports
       lsp' = [lsp EXCEPT !.gEntryCount = 1, !.gBaseInfo = TRUE, !.ghIocp = iocp]
  /\ pool' = AllocateFreePool
  /\ ol' = Allocated(AllocateFreePool)

WSPStartup(t) ==
  /\ At(t, "idle") /\ t \in Apps /\ Global(t) /\ lsp.calls > 0
  /\ IF lsp.gEntryCount = 0 /\ Absent = Ols
     THEN \/ InitOverlappedManager
          \/ /\ MayFail
             /\ \E g \in {NoThread, t} :
                  lsp' = [Fault EXCEPT !.gEntryCount = 1, !.global = g]
             /\ UNCHANGED <<pool, ol>>
     ELSE /\ lsp.gEntryCount > 0
          /\ lsp' = [lsp EXCEPT !.gEntryCount = @ + 1, !.calls = @ - 1]
          /\ UNCHANGED <<pool, ol>>
  /\ UNCHANGED <<thread, pending, lower, port, lost, user, sockets>>

(***************************************************************************)
(* WSPCleanup, the last one: the window is destroyed, the workers are told *)
(* to end, and the caller waits for them four seconds with both global     *)
(* locks held; then every listed socket goes with its handle, and the heap *)
(* with every structure.  The application makes no other call meanwhile.   *)
(***************************************************************************)
WSPCleanup(t) ==
  /\ At(t, "idle") /\ t \in Apps /\ Global(t)
  /\ lsp.gEntryCount > 0 /\ lsp.gBaseInfo
  /\ \A u \in Apps : thread[u].pc = "idle"
  /\ IF lsp.gEntryCount > 1
     THEN /\ lsp' = [lsp EXCEPT !.gEntryCount = @ - 1]
          /\ UNCHANGED <<thread, port>>
     ELSE /\ lsp' = [lsp EXCEPT !.gEntryCount = 0, !.global = t,
                                !.window = IF @ = "up" THEN "stopped" ELSE @]
          /\ port' = IF lsp.ghIocp THEN port \o [i \in 1..Cardinality(Workers) |-> NoOl] ELSE port
          /\ Goto(t, IF lsp.ghIocp THEN "stopping" ELSE "freeing")
  /\ UNCHANGED <<ol, pool, pending, lower, lost, user, sockets>>

Ended == \A w \in Workers : thread[w].pc = "exited"

(* All workers have ended, or the four seconds are over.                   *)
StopOverlappedManager(t) ==
  /\ At(t, "stopping")
  /\ Ended \/ \E w \in Workers : thread[w].pc \notin {"idle", "exited"}
  /\ Goto(t, "freeing")
  /\ UNCHANGED <<lsp, structures, user, sockets>>

CloseAndFreeSocketInfo == [c \in Infos |-> IF Live(c) THEN Remains(c) ELSE info[c]]

FreeSocketsAndMemory(t) ==
  /\ At(t, "freeing")
  /\ IF \E i \in DOMAIN list : ~Live(list[i]) THEN Wild
     ELSE /\ info' = CloseAndFreeSocketInfo
          /\ handle' = [s \in Handles |-> IF handle[s] \in lsp.kept THEN handle[s] ELSE NoInfo]
          /\ list' = <<>>
          /\ lsp' = [lsp EXCEPT !.gBaseInfo = FALSE, !.ghIocp = FALSE, !.global = NoThread]
          /\ Return(t)
          /\ pool' = <<>> /\ pending' = <<>> /\ lower' = {} /\ port' = <<>> /\ lost' = {}
          /\ UNCHANGED <<ol, user>>

(* The process ends with the DLL loaded: its threads are gone.             *)
DllMain ==
  /\ lsp.health = "ok" /\ lsp.calls = 0
  /\ \A t \in Threads : thread[t].pc \in {"idle", "exited"}
  /\ Over("detached")

-------------------------------------------------------------------------------
NameCall(t, s) ==
  \/ WSPBind(t, s) \/ WSPConnect(t, s) \/ WSPDuplicateSocket(t, s)
  \/ WSPEnumNetworkEvents(t, s) \/ WSPEventSelect(t, s) \/ WSPGetPeerName(t, s)
  \/ WSPGetSockName(t, s) \/ WSPGetSockOpt(t, s) \/ WSPGetQOSByName(t, s)
  \/ WSPListen(t, s) \/ WSPRecvDisconnect(t, s) \/ WSPSendDisconnect(t, s)
  \/ WSPShutdown(t, s)

SocketCall(t, s) ==
  \/ WSPSelect(t, s) \/ WSPAsyncSelect(t, s) \/ WSPAccept(t, s) \/ WSPJoinLeaf(t, s)
  \/ WSPCloseSocket(t, s) \/ WSPIoctlExtension(t, s) \/ LookupFreed(t, s)
  \/ \E l \in Handles \cup {NoHandle} : WSPSetSockOpt(t, s, l)

TransferCall(t, s, r) ==
  \/ WSPRecv(t, s, r) \/ WSPRecvFrom(t, s, r) \/ WSPSend(t, s, r) \/ WSPSendTo(t, s, r)
  \/ WSPIoctl(t, s, r) \/ WSPIoctlPnpHandle(t, s, r)
  \/ ExtTransmitFile(t, s, r) \/ ExtConnectEx(t, s, r) \/ ExtTransmitPackets(t, s, r)
  \/ ExtDisconnectEx(t, s, r) \/ ExtWSARecvMsg(t, s, r)
  \/ \E a \in Handles : ExtAcceptEx(t, s, a, r)

(* What a thread does inside a call, or a worker with a structure.         *)
InCall(t) ==
  \/ UpdateAcceptContext(t) \/ SelectLower(t) \/ CloseProvider(t) \/ CloseLayered(t)
  \/ NoNewSocket(t) \/ Transfer(t) \/ Count(t)
  \/ GetWorkerWindow(t) \/ AsyncSelectLower(t)
  \/ GetOverlappedStructure(t) \/ QueueOverlappedOperation(t) \/ EnqueueOverlappedOperation(t)
  \/ CompleteFind(t) \/ Account(t) \/ Release(t) \/ Notify(t)
  \/ CleanupFind(t) \/ Decrement(t) \/ CleanupUnlock(t)
  \/ PutbackOverlappedStructure(t) \/ Leave(t) \/ StructureGone(t)
  \/ StopOverlappedManager(t) \/ FreeSocketsAndMemory(t)

WorkerWait(w) == OverlappedManagerThread(w) \/ DequeueOverlappedOperation(w)

Next ==
  \/ \E t \in Apps :
       \/ WSPStartup(t) \/ WSPCleanup(t) \/ WSPCancelBlockingCall(t)
       \/ \E s \in Handles : NameCall(t, s) \/ SocketCall(t, s)
       \/ \E s \in Handles, r \in Requests : TransferCall(t, s, r)
       \/ \E c \in Infos, s \in Handles : WSPSocket(t, c, s)
       \/ \E c \in Infos : WSPSocketNoHandle(t, c)
       \/ \E c \in Infos, s \in Handles \cup {NoHandle} : NewSocket(t, c, s)
  \/ \E t \in Threads : InCall(t)
  \/ \E w \in Workers : WorkerWait(w)
  \/ \E o \in Ols : LowerCompletes(o)
  \/ \E c \in Infos : AsyncWndProc(c)
  \/ \E r \in Requests : WSPGetOverlappedResult(r)
  \/ AsyncWndProcPost \/ DllMain

(***************************************************************************)
(* Threads inside a call and workers are scheduled; the provider below     *)
(* finishes what it has accepted.  Nobody is obliged to call.              *)
(***************************************************************************)
Fairness == /\ \A t \in Threads : WF_vars(InCall(t))
            /\ \A w \in Workers : WF_vars(WorkerWait(w))
            /\ \A o \in Ols : WF_vars(LowerCompletes(o))

Spec == Init /\ [][Next]_vars /\ Fairness

-------------------------------------------------------------------------------
Up == lsp.health = "ok" /\ lsp.gBaseInfo

(***************************************************************************)
(* A WSAOVERLAPPEDPLUS is in one place at a time: in FreePool, in the      *)
(* pending list, with the provider below, in the completion port, with the *)
(* thread that works on it, or lost because its socket could not be        *)
(* associated.  None is handed out twice and none disappears on the many   *)
(* ways out of QueueOverlappedOperation, ExecuteOverlappedOperation and    *)
(* IntermediateCompletionRoutine.                                          *)
(***************************************************************************)
Copies(s, x) == Cardinality({i \in DOMAIN s : s[i] = x})

Places(o) == Copies(pool, o) + Copies(pending, o) + Copies(port, o)
             + Cardinality({t \in Threads : thread[t].ol = o})
             + (IF o \in lower THEN 1 ELSE 0) + (IF o \in lost THEN 1 ELSE 0)

StructuresConserved ==
  Up => \A o \in Ols : Places(o) = IF ol[o].Operation = "absent" THEN 0 ELSE 1

(***************************************************************************)
(* RefCount is the number of threads between FindAndLockSocketContext and  *)
(* UnlockSocketContext, one for each lookup, plus the references that      *)
(* WSPSetSockOpt forgets and the one WSPCloseSocket leaves when the handle *)
(* does not close: every other return path of the SPI functions and of the *)
(* completion code gives back what it took, so a socket that is being      *)
(* closed is freed when the last of them leaves.                           *)
(***************************************************************************)
Holders(c) == Cardinality({t \in Threads : thread[t].ctx = c})
              + Cardinality({t \in Threads : thread[t].inner = c})
              + Cardinality({t \in Threads : thread[t].acc = c /\ thread[t].pc \notin {"select", "setsockopt"}})

RefsBalanced ==
  Up => \A c \in Infos : Live(c) => info[c].RefCount = lsp.leaked[c] + Holders(c)

(***************************************************************************)
(* The list of a provider, the handles ws2_32 knows and the heap agree: a  *)
(* handle leads to a structure that is allocated, on the list once and     *)
(* knows the handle; one that WPUCloseSocketHandle could not close leads   *)
(* to what is off the list, and may be freed.  The only listed structure   *)
(* that is not allocated is the one whose handle WSPJoinLeaf could not     *)
(* create.                                                                 *)
(***************************************************************************)
ContextsAgree ==
  Up => /\ \A s \in Handles : handle[s] # NoInfo =>
             /\ Live(handle[s]) => info[handle[s]].LayeredSocket = s
             /\ IF handle[s] \in lsp.kept THEN Copies(list, handle[s]) = 0
                ELSE Live(handle[s]) /\ Copies(list, handle[s]) = 1
        /\ lsp.faults = MaxFaults => \A i \in DOMAIN list : Live(list[i])

(***************************************************************************)
(* Both: whatever the interleaving of calls, closes and completions, a     *)
(* context leaves the table once, with the last of its users (spi.cpp,     *)
(* UnlockSocketContext, WSPCloseSocket).                                   *)
(***************************************************************************)
ContextsConsistent == RefsBalanced /\ ContextsAgree

(***************************************************************************)
(* The byte counters the provider exists for never exceed what was moved:  *)
(* the unlocked updates of the blocking paths and the operations nobody    *)
(* counts can only lose bytes.  That is so for a socket whose handle was   *)
(* never another's: IntermediateCompletionRoutine looks the handle up      *)
(* again, and a completion that comes after its socket has been closed is  *)
(* counted for the next socket that is given the handle.                   *)
(***************************************************************************)
FirstOfHandle(c) == \A d \in Infos : info[d].state = "freed" => info[d].given # info[c].given

NeverOvercounted ==
  Up => \A c \in Infos : Live(c) /\ FirstOfHandle(c) => info[c].Bytes <= info[c].moved

(***************************************************************************)
(* A pended request of an open socket is reported to the application, by a *)
(* worker that completes it, unless the socket is closed or its lock was   *)
(* left behind by a close, the provider is shut down, or the completion    *)
(* went astray (a lower socket that could not be associated with the port, *)
(* a refusal inside a worker).                                             *)
(***************************************************************************)
Stuck == lsp.health # "ok" \/ ~lsp.gBaseInfo \/ lsp.global # NoThread

Abandoned(r) == /\ user[r].ctx # NoInfo
                /\ \/ ~Live(user[r].ctx) \/ info[user[r].ctx].ProviderSocket # "open"
                   \/ info[user[r].ctx].owner # NoThread

RequestsReported ==
  \A r \in Requests :
    user[r].status = "pending" ~> \/ user[r].status \in {"done", "idle", "lost", "unreported"}
                                 \/ Abandoned(r) \/ Stuck

(***************************************************************************)
(* "Only when all the IO requests complete (with error) will we then close *)
(* the app socket" (WSPCloseSocket): the structure of a socket is freed    *)
(* with no request outstanding.                                            *)
(***************************************************************************)
ClosedAfterLastRequest ==
  [][\A c \in Infos : Live(c) /\ info'[c].state = "freed" /\ lsp'.gBaseInfo
       => \A r \in Requests : user[r].status = "pending" => user[r].ctx # c]_vars

(***************************************************************************)
(* FindAndLockSocketContext takes what WPUQuerySocketHandleContext answers *)
(* for a context: every handle that ws2_32 knows leads to one that is      *)
(* allocated and on the list.  It is not so when WPUCloseSocketHandle has  *)
(* failed: UnlockSocketContext frees the context all the same, and         *)
(* WSPCloseSocket leaves it off the list with a reference too many.        *)
(***************************************************************************)
HandlesLead == Up => \A s \in Handles : handle[s] # NoInfo => Live(handle[s]) /\ Contains(list, handle[s])
===============================================================================
