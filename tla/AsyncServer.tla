---------------------------- MODULE AsyncServer ----------------------------
(***************************************************************************)
(* asyncserver.cpp: an echo server on WSAAsyncSelect.  Every network event *)
(* is a WM_SOCKET message to a hidden window, and WindowProc handles one   *)
(* message at a time; it also posts messages to itself.                    *)
(***************************************************************************)
EXTENDS EchoSockets

VARIABLE queue  \* sequence of messages [s, e]; e is FD_ACCEPT or a network event

Message(s, e) == [s |-> s, e |-> e]

AsyncInit == queue = IF gProtocol = "UDP" THEN <<Message(UdpSock, "WRITE")>> ELSE <<>>

(* The stack posts a message for each event it records on s, and marks one with an *)
(* error ("down" or ABORT) as such.                                                *)
Post(s, old, new) ==
    LET events == SelectSeq(<<"READ", "WRITE", "CLOSE", "ABORT">>, LAMBDA e : e \in new.fd \ old)
    IN  [i \in DOMAIN events |-> Message(s, IF new.peer = "down" THEN "ABORT" ELSE events[i])]

PostAccept(now) == IF now THEN <<Message(UdpSock, "ACCEPT")>> ELSE <<>>

(* A step of the peer of s, seen from this server. *)
Posted(s) == queue' = queue \o Post(s, sock[s].fd, sock'[s]) \o PostAccept(accepting' /\ ~accepting)

----------------------------------------------------------------------------
ReceivePendingData(r) == ReceivePending(r)

SendPendingData(r) == SendPending(r)

(* RemoveSocketObj: off the list.  The object is not freed, and after a failed send *)
(* the socket is not closed.                                                        *)
RemoveSocketObj(r) == [r EXCEPT !.object = "dropped", !.fd = {}]

RemoveSocketObjByHandle(r) == RemoveSocketObj(r)

FindSocketObj(s) == sock[s].object = "listed"

(* The rest of a case: update the socket, and post again what WindowProc posts itself. *)
Finish(s, r, again) ==
    /\ Set(s, r)
    /\ queue' = Tail(queue) \o Post(s, sock[s].fd \ {Head(queue).e}, r)
                            \o (IF again THEN <<Message(s, "READ")>> ELSE <<>>)
    /\ UNCHANGED <<gProtocol, accepting, fault>>

(* The message at the head of the queue is e for socket s, which is in the list. *)
Dispatch(s, e) == queue # <<>> /\ Head(queue) = Message(s, e) /\ FindSocketObj(s)

Cleared(s, e) == [sock[s] EXCEPT !.fd = @ \ {e}]

SendAndRemove(r) ==
    Apply(LAMBDA x : IF x.ret = "failed" THEN RemoveSocketObj(x.r) ELSE x.r, SendPendingData(r))

(* FD_READ, which falls through to FD_WRITE. *)
OnRead(s) ==
    /\ Dispatch(s, "READ")
    /\ \E x \in {ReceivePendingData(Cleared(s, "READ"))} :
       \E r \in {IF x.ret = "failed" THEN RemoveSocketObj(x.r) ELSE SendAndRemove(x.r)} :
           Finish(s, r, x.ret = "data")

OnWrite(s) ==
    /\ Dispatch(s, "WRITE")
    /\ \E r \in {SendAndRemove(Cleared(s, "WRITE"))} : Finish(s, r, FALSE)

(* mutant: the end of the connection is left to FD_READ, and no FD_READ is posted *)
OnCloseWithoutRead(s) ==
    /\ Dispatch(s, "CLOSE")
    /\ Finish(s, [Cleared(s, "CLOSE") EXCEPT !.closing = TRUE], FALSE)

OnClose(s) ==
    /\ Dispatch(s, "CLOSE")
    /\ Finish(s, [Cleared(s, "CLOSE") EXCEPT !.closing = TRUE], TRUE)

(* A message with an error: close the socket and forget it. *)
OnError(s) ==
    /\ Dispatch(s, "ABORT")
    /\ Finish(s, RemoveSocketObjByHandle(CloseSocket(sock[s])), FALSE)

(* A message for a socket that has been removed. *)
OnStaleMessage ==
    /\ queue # <<>> /\ Head(queue).e # "ACCEPT" /\ ~FindSocketObj(Head(queue).s)
    /\ queue' = Tail(queue)
    /\ UNCHANGED socketVars

OnAccept(s) ==
    /\ queue # <<>> /\ Head(queue).e = "ACCEPT" /\ s \in Backlog
    /\ accepting' = (Backlog # {s})
    /\ \E r \in {IF AcceptFails(s) THEN CloseSocket(sock[s]) ELSE Register(sock[s])} :
           /\ Set(s, r)
           /\ queue' = Tail(queue) \o Post(s, {}, r) \o PostAccept(accepting')
    /\ UNCHANGED <<gProtocol, fault>>

WindowProc == OnStaleMessage \/ \E s \in Socks : OnRead(s) \/ OnWrite(s) \/ OnClose(s)
                                               \/ OnError(s) \/ OnAccept(s)
=============================================================================
