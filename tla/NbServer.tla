---------------------------- MODULE NbServer ----------------------------
(***************************************************************************)
(* nbserver.cpp: an echo server on select, in one thread.  The sockets are *)
(* never made nonblocking: select is level-triggered, recv is called when  *)
(* select has reported data, and a send waits until the stack takes all of *)
(* the buffer, whatever the other sockets need meanwhile.                  *)
(***************************************************************************)
EXTENDS EchoSockets

CONSTANT Listening  \* the listening socket of a TCP server

VARIABLES
    place,        \* "select", or a place in the loop over the sockets
    gSocketList,  \* sequence of sockets, the listening one first
    sptr,         \* position in gSocketList; past its end is NULL
    fdsets        \* [read, write, except]: what select has returned

nbVars == <<place, gSocketList, sptr, fdsets>>

NoSets == [read |-> {}, write |-> {}, except |-> {}]

NbInit ==
    /\ place = "select"
    /\ gSocketList = IF gProtocol = "UDP" THEN <<UdpSock>> ELSE <<Listening>>
    /\ sptr = 1
    /\ fdsets = NoSets

Readable(s) == IF s = Listening THEN Backlog # {} ELSE RecvReturns(sock[s]) # "wouldblock"

Writable(s) == s # Listening /\ (sock[s].inflight < Window \/ SendFails(sock[s]))

Except(s) == s = UdpSock /\ "urgent" \in fault

(* select returns; a timeout, after which statistics are printed, changes nothing. *)
Select ==
    LET listed(P(_)) == {s \in Range(gSocketList) : P(s)}
    IN  /\ place = "select"
        /\ fdsets' = [read |-> listed(Readable), write |-> listed(Writable),
                      except |-> listed(Except)]
        /\ fdsets' # NoSets
        /\ sptr' = 1 /\ place' = "read"
        /\ UNCHANGED <<socketVars, gSocketList>>

(* Without a socket select fails, and the server exits. *)
SelectFails ==
    /\ place = "select" /\ gSocketList = <<>>
    /\ place' = "exit"
    /\ UNCHANGED <<socketVars, gSocketList, sptr, fdsets>>

----------------------------------------------------------------------------
sptrSocket == gSocketList[sptr]

(* What follows the code at sptr: the loop ends when sptr is NULL. *)
Goto(pc, list, pos) ==
    /\ gSocketList' = list
    /\ IF pos > Len(list) THEN place' = "select" /\ sptr' = 1 /\ fdsets' = NoSets
                          ELSE place' = pc /\ sptr' = pos /\ UNCHANGED fdsets

InsertSocketObj(s) == Append(gSocketList, s)

(* RemoveSocketObj takes the socket off the list, and sptr is the next one. *)
RemoveSocketObj == RemoveAt(gSocketList, sptr)

(* FreeSocketObj does not close the socket. *)
FreeSocketObj(r) == [r EXCEPT !.object = "freed", !.pending = <<>>]

ReceivePendingData(r) == ReceivePending(r)

(* The sends block until the stack takes the buffer. *)
SendCompletes(r) ==
    IF r.pending = <<>> \/ SendFails(r) THEN TRUE
    ELSE SendTakes(r, Head(r.pending)) = Len(Head(r.pending))

SendPendingData(r) == SendPending(r)

(* accept on the listening socket; when it fails the server exits. *)
AcceptConnection(s) ==
    /\ place = "read" /\ sptrSocket = Listening /\ Listening \in fdsets.read /\ s \in Backlog
    /\ accepting' = (Backlog # {s})
    /\ IF AcceptFails(s)
       THEN /\ Set(s, CloseSocket(sock[s]))
            /\ place' = "exit"
            /\ UNCHANGED <<gSocketList, sptr, fdsets>>
       ELSE /\ Set(s, [Register(sock[s]) EXCEPT !.fd = {}, !.enabled = {}])
            /\ Goto("write", InsertSocketObj(s), sptr)
    /\ UNCHANGED <<gProtocol, fault>>

(* The socket is readable; one that has failed is removed, and the code that follows *)
(* runs for the next socket.                                                         *)
ReceiveOnSocket ==
    LET x == ReceivePendingData(sock[sptrSocket])
    IN  /\ place = "read" /\ sptrSocket # Listening /\ sptrSocket \in fdsets.read
        /\ IF x.ret = "failed"
           THEN Set(sptrSocket, FreeSocketObj(x.r)) /\ Goto("send", RemoveSocketObj, sptr)
           ELSE Set(sptrSocket, x.r) /\ Goto("send", gSocketList, sptr)
        /\ UNCHANGED <<gProtocol, accepting, fault>>

NotReadable ==
    /\ place = "read" /\ sptrSocket \notin fdsets.read
    /\ Goto("write", gSocketList, sptr)
    /\ UNCHANGED socketVars

(* mutant: a blocked send gives up the buffer *)
SendWithoutWaiting(pc, next) ==
    LET r == [sock[sptrSocket] EXCEPT !.pending = <<>>]
    IN  /\ place = pc
        /\ Set(sptrSocket, IF SendCompletes(sock[sptrSocket]) THEN SendPendingData(sock[sptrSocket]).r
                                                              ELSE r)
        /\ Goto(next, gSocketList, sptr)
        /\ UNCHANGED <<gProtocol, accepting, fault>>

SendOnSocket(pc, next) ==
    LET x == SendPendingData(sock[sptrSocket])
    IN  /\ place = pc
        /\ SendCompletes(sock[sptrSocket])
        /\ IF x.ret = "failed"
           THEN Set(sptrSocket, FreeSocketObj(x.r)) /\ Goto(next, RemoveSocketObj, sptr)
           ELSE Set(sptrSocket, x.r) /\ Goto(next, gSocketList, sptr)
        /\ UNCHANGED <<gProtocol, accepting, fault>>

WriteOnSocket ==
    \/ place = "write" /\ sptrSocket \in fdsets.write /\ SendOnSocket("write", "except")
    \/ /\ place = "write" /\ sptrSocket \notin fdsets.write
       /\ Goto("except", gSocketList, sptr)
       /\ UNCHANGED socketVars

(* Urgent data: the socket is removed, and the loop goes on after the next one. *)
CheckExcept ==
    /\ place = "except"
    /\ IF sptrSocket \in fdsets.except
       THEN Set(sptrSocket, FreeSocketObj(sock[sptrSocket])) /\ Goto("read", RemoveSocketObj, sptr + 1)
       ELSE UNCHANGED sock /\ Goto("read", gSocketList, sptr + 1)
    /\ UNCHANGED <<gProtocol, accepting, fault>>

NbServerNext == Select \/ SelectFails \/ ReceiveOnSocket \/ NotReadable \/ SendOnSocket("send", "write")
                \/ WriteOnSocket \/ CheckExcept \/ \E s \in Socks : AcceptConnection(s)
=============================================================================
