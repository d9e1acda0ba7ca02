---------------------------- MODULE EchoSockets ----------------------------
(***************************************************************************)
(* The sockets under the echo servers of chapter 5 (event-select,          *)
(* async-select, nonblocking, blocking) with what these servers keep for   *)
(* each: a SOCKET_OBJ with its closing flag and its list of buffers to     *)
(* send.  The stack is external: it is modelled by what the servers rely   *)
(* on.                                                                     *)
(*                                                                         *)
(* A TCP server accepts the sockets of Socks; a UDP server has one socket, *)
(* UdpSock.  A message has two units, numbered through the connection, so  *)
(* that a send can take one unit and leave the other.  Message 0 is a      *)
(* datagram without bytes.  The steps of a server between two waits are    *)
(* functions on the record of a socket.                                    *)
(***************************************************************************)
EXTENDS Naturals, Sequences, SequencesExt, FiniteSets

CONSTANTS
    Socks,        \* connections that clients may open
    UdpSock,      \* the socket of a UDP server (bound: the only one that meets faults)
    MaxMessages,  \* bound: [Socks -> Nat], messages that each peer sends
    Window,       \* units the stack takes before the peer must read
    Faults        \* what may go wrong (bound: one of them in a behaviour)

AllFaults == {"partial", "reset", "zero", "down", "urgent"}

ASSUME SocketsAssumption ==
    /\ UdpSock \in Socks
    /\ MaxMessages \in [Socks -> Nat]
    /\ Window \in Nat \ {0, 1}
    /\ Faults \subseteq AllFaults

VARIABLES
    gProtocol,  \* "TCP" or "UDP"
    sock,       \* [Socks -> record of the socket and its SOCKET_OBJ]
    accepting,  \* FD_ACCEPT is recorded on the listening socket
    fault       \* what has gone wrong (history)

socketVars == <<gProtocol, sock, accepting, fault>>

(* FD_CLOSE with an error code is ABORT. *)
Events == {"READ", "WRITE", "CLOSE"}

(* The units of message m of a connection. *)
Units(m) == IF m = 0 THEN <<>> ELSE <<2 * m - 1, 2 * m>>

Socket(st) ==
    [st |-> st,            \* "none", "backlog", "open" or "closed"
     peer |-> "open",      \* "open", "fin", "reset" or "down"
     inbound |-> <<>>,     \* messages that the server has not received
     arrived |-> 0,        \* messages with data that arrived (history)
     inflight |-> 0,       \* units sent that the peer has not read
     echoed |-> <<>>,      \* units that the server sent (history)
     fd |-> IF st = "open" THEN {"WRITE"} ELSE {},  \* network events recorded
     enabled |-> IF st = "open" THEN {"READ"} ELSE {},  \* ... that can be recorded
     object |-> IF st = "open" THEN "listed" ELSE "none",  \* ... "freed" or "dropped"
     closing |-> FALSE,
     pending |-> <<>>]     \* buffers to send, each a sequence of units

SocketsInit ==
    /\ gProtocol \in {"TCP", "UDP"}
    /\ sock = [s \in Socks |-> Socket(IF gProtocol = "UDP" /\ s = UdpSock THEN "open" ELSE "none")]
    /\ accepting = FALSE
    /\ fault = {}

----------------------------------------------------------------------------
(* The peers and the network. *)

(* The stack records e if it is enabled, once until it is enabled again. *)
Record(r, e) ==
    LET event == IF e = "ABORT" THEN "CLOSE" ELSE e
    IN  [r EXCEPT !.fd = IF event \in r.enabled THEN @ \union {e} ELSE @,
                  !.enabled = @ \ {event}]

CanFail(f) == f \in Faults /\ fault = {}

Set(s, r) == sock' = [sock EXCEPT ![s] = r]

Alive(s) == sock[s].st \in {"backlog", "open"} /\ sock[s].peer \in {"open", "fin"}

Connect(s) ==
    /\ gProtocol = "TCP" /\ sock[s].st = "none"
    /\ sock' = [sock EXCEPT ![s].st = "backlog"]
    /\ accepting' = TRUE
    /\ UNCHANGED <<gProtocol, fault>>

PeerSends(s) ==
    /\ Alive(s) /\ sock[s].peer = "open"
    /\ \/ /\ sock[s].arrived < MaxMessages[s]
          /\ Set(s, Record([sock[s] EXCEPT !.arrived = @ + 1,
                                           !.inbound = Append(@, sock[s].arrived + 1)], "READ"))
          /\ UNCHANGED fault
       \/ /\ gProtocol = "UDP" /\ CanFail("zero")
          /\ Set(s, Record([sock[s] EXCEPT !.inbound = Append(@, 0)], "READ"))
          /\ fault' = {"zero"}
    /\ UNCHANGED <<gProtocol, accepting>>

PeerFinishes(s) ==
    /\ gProtocol = "TCP" /\ Alive(s) /\ sock[s].peer = "open"
    /\ Set(s, Record([sock[s] EXCEPT !.peer = "fin"], "CLOSE"))
    /\ UNCHANGED <<gProtocol, accepting, fault>>

PeerReads(s) ==
    /\ sock[s].inflight > 0
    /\ Set(s, Record([sock[s] EXCEPT !.inflight = 0], "WRITE"))
    /\ UNCHANGED <<gProtocol, accepting, fault>>

(* A TCP connection is reset, or a datagram sent from the UDP socket came back; *)
(* or the network is down; or the peer leaves room for one unit only; or it     *)
(* sends urgent data.                                                           *)
NetworkFails(s) ==
    /\ Alive(s) /\ s = UdpSock
    /\ \/ /\ CanFail("reset")
          /\ Set(s, Record([sock[s] EXCEPT !.peer = "reset",
                                           !.inbound = IF gProtocol = "TCP" THEN <<>> ELSE @],
                           IF gProtocol = "TCP" THEN "ABORT" ELSE "READ"))
          /\ fault' = {"reset"}
       \/ /\ CanFail("down")
          /\ Set(s, [sock[s] EXCEPT !.peer = "down", !.fd = @ \union sock[s].enabled, !.enabled = {}])
          /\ fault' = {"down"}
       \/ /\ CanFail("partial") /\ gProtocol = "TCP" /\ sock[s].inflight = 0
          /\ Set(s, [sock[s] EXCEPT !.inflight = Window - 1])
          /\ fault' = {"partial"}
       \/ /\ CanFail("urgent") /\ gProtocol = "TCP" /\ sock[s].st = "open"
          /\ fault' = {"urgent"}
          /\ UNCHANGED sock
    /\ UNCHANGED <<gProtocol, accepting>>

Peers(s) == Connect(s) \/ PeerSends(s) \/ PeerFinishes(s) \/ NetworkFails(s)

----------------------------------------------------------------------------
(* Calls of the servers, as functions on the record of a socket. *)

CloseSocket(r) == [r EXCEPT !.st = "closed", !.fd = {}, !.enabled = {}]

(* What recv or recvfrom returns. *)
RecvReturns(r) ==
    CASE r.st = "closed" \/ r.peer \in {"reset", "down"} -> "error"
      [] r.inbound # <<>> /\ Head(r.inbound) # 0         -> "data"
      [] r.inbound # <<>> \/ r.peer = "fin"              -> "zero"
      [] OTHER                                           -> "wouldblock"

(* It takes a message, or the error of a UDP socket, and lets FD_READ be recorded again, *)
(* at once if there is more.                                                             *)
Recv(r) ==
    LET rest == IF r.inbound = <<>> \/ RecvReturns(r) = "error" THEN r.inbound ELSE Tail(r.inbound)
    IN  [r EXCEPT !.inbound = rest,
                  !.peer = IF @ = "reset" /\ gProtocol = "UDP" THEN "open" ELSE @,
                  !.fd = IF rest = <<>> THEN @ ELSE @ \union {"READ"},
                  !.enabled = IF rest = <<>> THEN @ \union {"READ"} ELSE @]

SendFails(r) == r.st = "closed" \/ r.peer = "down" \/ (gProtocol = "TCP" /\ r.peer = "reset")

(* How many units of u a send takes; fewer means that the rest would block. *)
SendTakes(r, u) ==
    LET room == Window - r.inflight
    IN  IF Len(u) <= room THEN Len(u) ELSE IF gProtocol = "TCP" THEN room ELSE 0

SendUnits(r, u) == [r EXCEPT !.echoed = @ \o u, !.inflight = @ + Len(u)]

(* WSAEventSelect or WSAAsyncSelect on an accepted socket records what holds already. *)
Register(r) ==
    LET now == {"WRITE"} \union (IF r.inbound # <<>> THEN {"READ"} ELSE {})
                         \union (IF r.peer # "open" THEN {"CLOSE"} ELSE {})
    IN  [r EXCEPT !.st = "open", !.object = "listed", !.fd = now, !.enabled = Events \ now]

(* The sockets that accept may return; one that was reset meanwhile makes it fail. *)
Backlog == {s \in Socks : sock[s].st = "backlog"}

AcceptFails(s) == sock[s].peer \in {"reset", "down"}

----------------------------------------------------------------------------
(* What the servers have in common, line for line. *)

(* Op on the value of an expression, which is evaluated once. *)
Apply(Op(_), e) == CHOOSE y \in {Op(x) : x \in {e}} : TRUE

EnqueueBufferObj(r, u) == [r EXCEPT !.pending = Append(@, u)]

(* One buffer of the loop in SendPendingData.  q is the state of the loop: the socket, *)
(* the buffers left and the value to return.  A send that takes part of a buffer does  *)
(* not advance idx, so the rest is taken from the front again.                         *)
SendBuffer(q, u) ==
    LET n == SendTakes(q.r, u)
    IN  CASE q.ret # "ok"    -> [q EXCEPT !.left = Append(@, u)]
          [] SendFails(q.r)  -> [q EXCEPT !.ret = "failed"]
          [] n = Len(u)      -> [q EXCEPT !.r = SendUnits(@, u)]
          [] OTHER           -> [q EXCEPT !.r = [SendUnits(@, SubSeq(u, 1, n)) EXCEPT
                                                     !.enabled = @ \union {"WRITE"}],
                                          !.left = Append(@, SubSeq(u, 1, Len(u) - n)),
                                          !.ret = "wouldblock"]

SendLoop(r) ==
    FoldLeft(LAMBDA q, u : Apply(LAMBDA p : SendBuffer(p, u), q),
             [r |-> r, left |-> <<>>, ret |-> "ok"], r.pending)

(* After the loop: the close of a socket that has nothing more to send. *)
SendPending(r) ==
    LET Closed(q) == LET sent == [q.r EXCEPT !.pending = q.left]
                     IN  IF q.left = <<>> /\ sent.closing
                         THEN [r |-> CloseSocket(sent), ret |-> "failed"]
                         ELSE [r |-> sent, ret |-> q.ret]
    IN  Apply(Closed, Apply(SendLoop, r))

(* ReceivePendingData; the servers differ in how they number what it returns. *)
ReceivePending(r) ==
    LET ended == [Recv(r) EXCEPT !.closing = TRUE]
        zero  == IF gProtocol = "TCP" THEN ended ELSE EnqueueBufferObj(ended, <<>>)
    IN  CASE RecvReturns(r) = "error"      -> [r |-> CloseSocket(r), ret |-> "failed"]
          [] RecvReturns(r) = "wouldblock" -> [r |-> Recv(r), ret |-> "wouldblock"]
          [] RecvReturns(r) = "zero"       -> IF zero.pending = <<>>
                                              THEN [r |-> CloseSocket(zero), ret |-> "failed"]
                                              ELSE [r |-> zero, ret |-> "zero"]
          [] OTHER -> [r |-> EnqueueBufferObj(Recv(r), Units(Head(r.inbound))), ret |-> "data"]
=============================================================================
