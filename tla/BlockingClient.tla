---------------------------- MODULE BlockingClient ----------------------------
(***************************************************************************)
(* The blocking client of chapter 5 against an echo server.  main tries    *)
(* the addresses of the server until one connects, then starts a thread    *)
(* that sends and a thread that receives on the same socket and waits for  *)
(* both.  Between client and server are two queues of limited size: over   *)
(* TCP a send waits for room, over UDP a datagram without room, or without *)
(* luck, is lost.                                                          *)
(***************************************************************************)
EXTENDS Integers, Sequences

CONSTANTS NAddrs,      \* the addresses ResolveAddress returns
          gSendCount,
          Window       \* room of a queue

VARIABLE bclient

ZeroDatagrams == 3

(* ResolveAddress returns the addresses in one list, or NULL.              *)
ResolveAddress == 0..NAddrs

(* The arguments choose the protocol, and whether a UDP socket connects.   *)
ValidateArgs == {[gProtocol |-> "TCP", bUdpConnect |-> FALSE]}
                  \cup [gProtocol : {"UDP"}, bUdpConnect : BOOLEAN]

BlockingClientInit ==
  \E args \in ValidateArgs, addrs \in ResolveAddress :
    bclient = [args |-> args, addrs |-> addrs, ptr |-> 1, main |-> "connecting",
               send |-> "none", i |-> 0, recv |-> "none",
               toServer |-> <<>>, toClient |-> <<>>, zerosLost |-> 0, reset |-> FALSE]

Connects == bclient.args.gProtocol = "TCP" \/ bclient.args.bUdpConnect

(* A socket is created and bound for the address at hand; one that cannot  *)
(* connect is closed and the next address tried.                           *)
Connect ==
  /\ bclient.main = "connecting"
  /\ LET started == [bclient EXCEPT !.main = "waiting", !.send = "sending", !.recv = "receiving"]
     IN \/ bclient.ptr > bclient.addrs /\ bclient' = [bclient EXCEPT !.main = "failed"]
        \/ bclient.ptr <= bclient.addrs /\ bclient' = started
        \/ bclient.ptr <= bclient.addrs /\ Connects /\ bclient' = [bclient EXCEPT !.ptr = @ + 1]

HasRoom(q) == Len(q) < Window

CanLose == bclient.args.gProtocol = "UDP"
Lose(b, part) == IF part = "zero" THEN [b EXCEPT !.zerosLost = @ + 1] ELSE b

(* One part on its way: over TCP it waits for room.                        *)
Sent(next, part) ==
  \/ HasRoom(bclient.toServer) /\ bclient' = [next EXCEPT !.toServer = Append(@, part)]
  \/ CanLose /\ bclient' = Lose(next, part)

(* After the buffers come shutdown or three datagrams of no bytes.         *)
Last == IF bclient.args.gProtocol = "TCP" THEN gSendCount + 1 ELSE gSendCount + ZeroDatagrams
PartAt(i) == CASE i <= gSendCount -> "data"
               [] i > gSendCount /\ bclient.args.gProtocol = "TCP" -> "fin"
               [] i > gSendCount /\ bclient.args.gProtocol = "UDP" -> "zero"

SendThread ==
  /\ bclient.send = "sending"
  /\ IF bclient.reset /\ Connects
     THEN bclient' = [bclient EXCEPT !.send = "ended", !.i = 0]
     ELSE LET n == bclient.i + 1
          IN Sent([bclient EXCEPT !.i = n, !.send = IF n = Last THEN "ended" ELSE @], PartAt(n))

ReceiveAfterSending ==
  /\ bclient.recv = "receiving" /\ bclient.send = "ended" /\ bclient.toClient # <<>>
  /\ bclient' = [bclient EXCEPT !.toClient = Tail(@),
                                !.recv = IF Head(bclient.toClient) = "data" THEN @ ELSE "ended"]

(* Data is counted; a zero datagram, the end of the connection or an error *)
(* ends the thread.                                                        *)
ReceiveThread ==
  /\ bclient.recv = "receiving" /\ (bclient.toClient # <<>> \/ bclient.reset)
  /\ IF bclient.reset THEN bclient' = [bclient EXCEPT !.recv = "ended"]
     ELSE bclient' = [bclient EXCEPT !.toClient = Tail(@),
                                     !.recv = IF Head(bclient.toClient) = "data" THEN @ ELSE "ended"]

WaitForMultipleObjects ==
  /\ bclient.main = "waiting" /\ bclient.send = "ended" /\ bclient.recv = "ended"
  /\ bclient' = [bclient EXCEPT !.main = "ended", !.toServer = <<>>, !.toClient = <<>>]

(* The server sends back what it receives, in order.                       *)
Echo ==
  /\ bclient.main = "waiting" /\ bclient.toServer # <<>>
  /\ LET b == [bclient EXCEPT !.toServer = Tail(@)]
     IN \/ HasRoom(bclient.toClient) /\ bclient' = [b EXCEPT !.toClient = Append(@, Head(bclient.toServer))]
        \/ CanLose /\ bclient' = Lose(b, Head(bclient.toServer))

(* A connection is reset, or a connected UDP socket learns that nobody     *)
(* listens.                                                                *)
Reset ==
  /\ bclient.main = "waiting" /\ ~bclient.reset
  /\ bclient' = [bclient EXCEPT !.reset = TRUE, !.toServer = <<>>, !.toClient = <<>>]

BlockingClientNext ==
  Connect \/ SendThread \/ ReceiveThread \/ WaitForMultipleObjects \/ Echo \/ Reset
-----------------------------------------------------------------------------
Rest == SendThread \/ ReceiveThread \/ WaitForMultipleObjects \/ Echo

(* The client is never stuck: whatever the sizes of buffers and windows,   *)
(* as long as one of the three zero datagrams gets through some thread,    *)
(* main or the server can go on until both threads have ended.             *)
ClientNeverStuck ==
  (bclient.main = "waiting" /\ bclient.zerosLost < ZeroDatagrams) => ENABLED Rest
=============================================================================
