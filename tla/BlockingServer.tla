---------------------------- MODULE BlockingServer ----------------------------
(***************************************************************************)
(* bserver.cpp: an echo server with blocking calls.  A listening thread    *)
(* accepts; each connection has a receive thread, which queues what it     *)
(* receives and releases a semaphore, and a send thread, which waits for   *)
(* the semaphore, sends, and closes and frees the connection at the end.   *)
(***************************************************************************)
EXTENDS EchoSockets

VARIABLES
    listener,  \* "accept" or "done": ServerListenThread
    conn       \* [Socks -> the two threads and the semaphore of the connection]

blockingVars == <<listener, conn>>

NoConnection == [recv |-> "none", send |-> "none", hRecvSema |-> 0]

GetConnectionObj == [recv |-> "recv", send |-> "wait", hRecvSema |-> 0]

BlockingInit ==
    /\ listener = IF gProtocol = "TCP" THEN "accept" ELSE "done"
    /\ conn = [s \in Socks |-> IF gProtocol = "UDP" /\ s = UdpSock THEN GetConnectionObj
                                                                   ELSE NoConnection]

(* What recv has returned is queued in the same way: the data, no bytes or an error. *)
ErrorBuffer == <<0>>

Entry(r) ==
    CASE RecvReturns(r) = "data" -> Units(Head(r.inbound))
      [] RecvReturns(r) = "zero" -> <<>>
      [] OTHER                   -> ErrorBuffer

(* accept, and a thread to receive and one to send; when it fails the listener ends. *)
ServerListenThread(s) ==
    /\ listener = "accept" /\ s \in Backlog
    /\ accepting' = (Backlog # {s})
    /\ IF AcceptFails(s)
       THEN /\ Set(s, CloseSocket(sock[s]))
            /\ listener' = "done"
            /\ UNCHANGED conn
       ELSE /\ Set(s, [sock[s] EXCEPT !.st = "open", !.object = "listed"])
            /\ conn' = [conn EXCEPT ![s] = GetConnectionObj]
            /\ UNCHANGED listener
    /\ UNCHANGED <<gProtocol, fault>>

(* recv returns and the buffer is queued. *)
ReceiveThread(s) ==
    /\ conn[s].recv = "recv" /\ sock[s].object = "listed"
    /\ RecvReturns(sock[s]) # "wouldblock"
    /\ Set(s, EnqueueBufferObj([Recv(sock[s]) EXCEPT !.fd = {}, !.enabled = {}], Entry(sock[s])))
    /\ conn' = [conn EXCEPT ![s].recv =
           IF RecvReturns(sock[s]) = "zero" \/ (gProtocol = "TCP" /\ RecvReturns(sock[s]) = "error")
           THEN "last" ELSE "release"]
    /\ UNCHANGED <<gProtocol, accepting, fault, listener>>

(* ReleaseSemaphore; after the last buffer the thread ends and uses nothing more. *)
ReleaseSemaphore(s) ==
    /\ conn[s].recv \in {"release", "last"} /\ sock[s].object = "listed"
    /\ conn' = [conn EXCEPT ![s].hRecvSema = @ + 1,
                            ![s].recv = IF @ = "last" THEN "done" ELSE "recv"]
    /\ UNCHANGED <<socketVars, listener>>

DequeueBufferObj(r) == [r EXCEPT !.pending = Tail(@)]

FreeConnectionObj(r) == [r EXCEPT !.object = "freed", !.pending = <<>>]

(* closesocket and FreeConnectionObj at the end of SendThread. *)
EndConnection(s, r) ==
    /\ Set(s, FreeConnectionObj(CloseSocket(r)))
    /\ conn' = [conn EXCEPT ![s].send = "done", ![s].hRecvSema = @ - 1]

(* One round of SendThread: the end of the connection, or a send that waits until the *)
(* stack has taken the buffer; a send of an error buffer fails.                       *)
SendThread(s) ==
    LET u == Head(sock[s].pending)
        r == DequeueBufferObj(sock[s])
    IN  /\ conn[s].send = "wait" /\ conn[s].hRecvSema > 0 /\ sock[s].object = "listed"
        /\ \/ /\ u \in {<<>>, ErrorBuffer} \/ SendFails(sock[s])
              /\ EndConnection(s, r)
           \/ /\ u \notin {<<>>, ErrorBuffer} /\ ~SendFails(sock[s])
              /\ SendTakes(sock[s], u) = Len(u)
              /\ Set(s, SendUnits(r, u))
              /\ conn' = [conn EXCEPT ![s].hRecvSema = @ - 1]
        /\ UNCHANGED <<gProtocol, accepting, fault, listener>>

----------------------------------------------------------------------------
(* The send thread frees the connection only when the receive thread has ended, and *)
(* the semaphore counts the buffers that it may take (bserver.cpp).                 *)
FreedAfterLastUse ==
    \A s \in Socks :
        IF sock[s].object = "freed" THEN fault = {} => conn[s].recv = "done"
                                    ELSE conn[s].hRecvSema <= Len(sock[s].pending)
=============================================================================
