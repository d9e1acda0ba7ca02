---------------------------- MODULE EventServer ----------------------------
(***************************************************************************)
(* eventserver.cpp: an echo server on WSAEventSelect.  The main thread     *)
(* accepts connections and gives each to a child thread, which waits for   *)
(* the events of its sockets and finds a socket by the index of its event: *)
(* the array of events and the list of sockets must agree.  A UDP socket   *)
(* is served by the main thread.                                           *)
(***************************************************************************)
EXTENDS EchoSockets

CONSTANTS
    Main,       \* the main thread
    Threads,    \* the child threads that may be created, in this order: 1..n
    MaxEvents   \* values of MAXIMUM_WAIT_OBJECTS - 1 to check

VARIABLES
    thread,         \* [threads -> THREAD_OBJ and the place in its code]
    limit,          \* MAXIMUM_WAIT_OBJECTS - 1
    gChildThreads,  \* sequence of the threads created, latest first
    newsock,        \* the socket that main has accepted
    target          \* the thread that AssignToFreeThread has chosen
                    \* (UdpSock and Main when there is none)

eventVars == <<thread, limit, gChildThreads, newsock, target>>

(* GetThreadObj: an empty list and the event of the thread itself. *)
GetThreadObj(sockets) ==
    [pc |-> "none",
     SocketList |-> sockets,
     Handles |-> sockets,    \* whose event is in Handles[i]; Handles[0] is Event
     Event |-> FALSE,
     index |-> 0,            \* loop variable of ChildThread
     waitset |-> {}]         \* the handles of the wait it is in

EventInit ==
    /\ limit \in MaxEvents
    /\ thread = [t \in Threads \union {Main} |->
           IF t = Main
           THEN [GetThreadObj(IF gProtocol = "UDP" THEN <<UdpSock>> ELSE <<>>) EXCEPT !.pc = "wait"]
           ELSE GetThreadObj(<<>>)]
    /\ gChildThreads = <<>>
    /\ newsock = UdpSock
    /\ target = Main

SocketCount(t) == Len(thread[t].SocketList)

SetThread(t, r) == thread' = [thread EXCEPT ![t] = r]

----------------------------------------------------------------------------
(* HandleIo: from WSAEnumNetworkEvents to the removal of the socket. *)

ReceivePendingData(r) == ReceivePending(r)

SendPendingData(r) == SendPending(r)

(* The error codes that WSAEnumNetworkEvents reports. *)
ErrorCode(r) == r.peer = "down"

(* The sequel of an event: nothing more if the socket is to be removed. *)
Then(e, Handler(_)) == Apply(LAMBDA x : IF x.ret = "failed" THEN x ELSE Handler(x.r), e)

Ok(r) == [r |-> r, ret |-> "ok"]

HandleRead(r) ==
    IF ErrorCode(r) THEN [r |-> r, ret |-> "failed"]
    ELSE Then(ReceivePendingData(r), SendPendingData)

HandleWrite(r) ==
    IF ErrorCode(r) THEN [r |-> r, ret |-> "returned"] ELSE SendPendingData(r)

(* FD_CLOSE: receive until ReceivePendingData returns zero, then send. *)
ReceiveAll(r) ==
    FoldLeft(LAMBDA x, m : Then(x, ReceivePendingData), Ok(r), r.inbound \o <<0>>)

HandleClose(r) ==
    IF ErrorCode(r) THEN [r |-> r, ret |-> "failed"]
    ELSE Then(ReceiveAll(r), SendPendingData)

HandleAbort(r) == [r |-> r, ret |-> "failed"]

HandleIo(r) ==
    LET On(e, Handler(_), before) ==
            Apply(LAMBDA x : IF e \notin r.fd \/ x.ret \in {"failed", "returned"}
                             THEN x ELSE Handler(x.r), before)
        read  == On("READ", HandleRead, Ok([r EXCEPT !.fd = {}]))
        write == On("WRITE", HandleWrite, read)
        close == On("CLOSE", HandleClose, write)
    IN  On("ABORT", HandleAbort, close)

(* RemoveSocketObj: off the list, and the thread's event tells it to rebuild the array. *)
RemoveSocketObj(t, s) ==
    [thread[t] EXCEPT !.SocketList = SelectSeq(@, LAMBDA x : x # s), !.Event = TRUE]

FreeSocketObj(r) == [CloseSocket(r) EXCEPT !.object = "freed", !.pending = <<>>]

FindSocketObj(t, i) == thread[t].SocketList[i]

(* HandleIo on socket s by thread t, which goes on at place pc; a socket that has   *)
(* failed is removed, and the caller still has to renumber the array.               *)
ServeSocket(t, s, pc, index) ==
    \E x \in {HandleIo(sock[s])} :
        IF x.ret = "failed"
        THEN /\ Set(s, FreeSocketObj(x.r))
             /\ SetThread(t, [RemoveSocketObj(t, s) EXCEPT !.pc = "renumber", !.index = index])
        ELSE /\ Set(s, x.r)
             /\ SetThread(t, [thread[t] EXCEPT !.pc = pc, !.index = index])

(* mutant: the array is left as it was after a socket has been removed *)
NoRenumber(t) ==
    /\ thread[t].pc = "renumber"
    /\ SetThread(t, [thread[t] EXCEPT !.pc = IF t = Main THEN "wait" ELSE "scan"])
    /\ UNCHANGED <<socketVars, limit, gChildThreads, newsock, target>>

RenumberThreadArray(t) ==
    /\ thread[t].pc = "renumber"
    /\ SetThread(t, [thread[t] EXCEPT !.Handles = thread[t].SocketList,
                                      !.pc = IF t = Main THEN "wait" ELSE "scan"])
    /\ UNCHANGED <<socketVars, limit, gChildThreads, newsock, target>>

----------------------------------------------------------------------------
(* ChildThread *)

Signaled(s) == sock[s].fd # {}

EventClosed(s) == sock[s].object # "listed"

(* WaitForMultipleObjects begins, on the handles that the array holds now; a closed *)
(* one makes it fail, and the thread ends.                                           *)
WaitForEvents(t) ==
    LET handles == {thread[t].Handles[i] : i \in 1..SocketCount(t)}
    IN  SetThread(t, [thread[t] EXCEPT
            !.index = 0,
            !.waitset = handles,
            !.pc = IF \E s \in handles : EventClosed(s) THEN "none" ELSE "waiting"])

FirstWait(t) ==
    /\ thread[t].pc = "wait" /\ t # Main
    /\ WaitForEvents(t)
    /\ UNCHANGED <<socketVars, limit, gChildThreads, newsock, target>>

(* The wait returns.  The first event looked at is the thread's own: if it is set, *)
(* rebuild the array and go on with index 2.                                       *)
WaitReturns(t) ==
    /\ thread[t].pc = "waiting"
    /\ thread[t].Event \/ \E s \in thread[t].waitset : Signaled(s)
    /\ SetThread(t, [thread[t] EXCEPT
           !.pc = "scan",
           !.waitset = {},
           !.Event = FALSE,
           !.Handles = IF thread[t].Event THEN thread[t].SocketList ELSE @,
           !.index = IF thread[t].Event THEN 2 ELSE 1])
    /\ UNCHANGED <<socketVars, limit, gChildThreads, newsock, target>>

(* The loop goes on at index i: an event that is set, one of a freed object, or the *)
(* end, where the thread waits again.                                               *)
ScanEvents(t) ==
    LET i == thread[t].index
    IN  /\ thread[t].pc = "scan"
        /\ \/ i > SocketCount(t) /\ WaitForEvents(t) /\ UNCHANGED sock
           \/ /\ i <= SocketCount(t) /\ EventClosed(thread[t].Handles[i])
              /\ SetThread(t, [thread[t] EXCEPT !.pc = "none"])
              /\ UNCHANGED sock
           \/ /\ i <= SocketCount(t) /\ ~EventClosed(thread[t].Handles[i])
              /\ IF Signaled(thread[t].Handles[i])
                 THEN ServeSocket(t, FindSocketObj(t, i), "scan", i + 1)
                 ELSE SetThread(t, [thread[t] EXCEPT !.index = i + 1]) /\ UNCHANGED sock
        /\ UNCHANGED <<gProtocol, accepting, fault, limit, gChildThreads, newsock, target>>

ChildThread(t) == FirstWait(t) \/ WaitReturns(t) \/ ScanEvents(t) \/ RenumberThreadArray(t)

----------------------------------------------------------------------------
(* The main thread: accept until it would block; assign each socket to a thread. *)

MainAt(pc) == thread[Main].pc = pc

MainGoes(pc, T) == thread' = [T EXCEPT ![Main].pc = pc]

WaitForAccept ==
    /\ MainAt("wait") /\ gProtocol = "TCP" /\ accepting
    /\ accepting' = FALSE
    /\ MainGoes("accept", thread)
    /\ UNCHANGED <<gProtocol, sock, fault, limit, gChildThreads, newsock, target>>

HasRoom(t) == SocketCount(t) < limit

FreeThreads == SelectSeq(gChildThreads, HasRoom)

InsertSocketObj(t, s) ==
    [thread EXCEPT ![t].SocketList = Append(@, s),
                   ![t].Handles = SubSeq(@, 1, SocketCount(t)) \o <<s>>]

(* accept; AssignToFreeThread inserts the socket into the first thread with room, or *)
(* creates a thread, which runs at once.                                             *)
Accept(s) ==
    /\ MainAt("accept") /\ s \in Backlog
    /\ accepting' = (Backlog # {s})
    /\ IF AcceptFails(s)
       THEN /\ Set(s, CloseSocket(sock[s]))
            /\ MainGoes("wait", thread)
            /\ UNCHANGED <<gChildThreads, newsock, target>>
       ELSE /\ Set(s, Register(sock[s]))
            /\ newsock' = s
            /\ IF FreeThreads # <<>>
               THEN /\ target' = Head(FreeThreads)
                    /\ MainGoes("signal", InsertSocketObj(target', s))
                    /\ UNCHANGED gChildThreads
               ELSE /\ target' = Len(gChildThreads) + 1
                    /\ MainGoes("insert", [thread EXCEPT ![target'].pc = "wait"])
                    /\ gChildThreads' = <<target'>> \o gChildThreads
    /\ UNCHANGED <<gProtocol, fault, limit>>

InsertIntoNewThread ==
    /\ MainAt("insert")
    /\ MainGoes("signal", InsertSocketObj(target, newsock))
    /\ UNCHANGED <<socketVars, limit, gChildThreads, newsock, target>>

(* mutant: the thread is not told of its new socket *)
SignalNobody ==
    /\ MainAt("signal")
    /\ MainGoes("accept", thread)
    /\ newsock' = UdpSock /\ target' = Main
    /\ UNCHANGED <<socketVars, limit, gChildThreads>>

SignalThread ==
    /\ MainAt("signal")
    /\ MainGoes("accept", [thread EXCEPT ![target].Event = TRUE])
    /\ newsock' = UdpSock /\ target' = Main
    /\ UNCHANGED <<socketVars, limit, gChildThreads>>

AcceptWouldBlock ==
    /\ MainAt("accept") /\ Backlog = {}
    /\ accepting' = FALSE
    /\ MainGoes("wait", thread)
    /\ UNCHANGED <<gProtocol, sock, fault, limit, gChildThreads, newsock, target>>

(* UDP: the main thread handles its socket; after its removal the thread's event *)
(* selects no socket, and the server ends there.                                 *)
WaitForDatagram ==
    /\ MainAt("wait") /\ gProtocol = "UDP"
    /\ \/ /\ ~thread[Main].Event /\ Signaled(UdpSock)
          /\ ServeSocket(Main, UdpSock, "wait", 0)
       \/ /\ thread[Main].Event
          /\ MainGoes("none", thread)
          /\ UNCHANGED sock
    /\ UNCHANGED <<gProtocol, accepting, fault, limit, gChildThreads, newsock, target>>

MainThread ==
    \/ WaitForAccept \/ AcceptWouldBlock \/ InsertIntoNewThread \/ SignalThread \/ WaitForDatagram
    \/ RenumberThreadArray(Main)
    \/ \E s \in Socks : Accept(s)

----------------------------------------------------------------------------
(* The event at an index and the socket at that index belong together whenever a   *)
(* thread looks at them, so that no thread serves or waits for a socket that it    *)
(* has freed (ChildThread, FindSocketObj, RenumberThreadArray).                    *)
HandlesAgree ==
    \A t \in Threads : thread[t].pc \in {"scan", "wait"} =>
        /\ SocketCount(t) <= limit
        /\ \A i \in 1..SocketCount(t) :
               /\ thread[t].Handles[i] = thread[t].SocketList[i]
               /\ ~EventClosed(thread[t].SocketList[i])
=============================================================================
