------------------------------- MODULE NfpLink -------------------------------
(***************************************************************************)
(* The links of the Near-Field Proximity driver: CConnection               *)
(* (driver/Connection.cpp, connection.h) with the lists and locks of       *)
(* CMyQueue (driver/Queue.cpp) it is entered in.                           *)
(*                                                                         *)
(* The device has no locking constraint and a parallel queue, so the code  *)
(* runs on many threads at once.  A thread is named by what it works for:  *)
(*   - a connection: the thread that establishes it (the accept callback   *)
(*     of an inbound one, IOCTL_BEGIN_PROXIMITY of an outbound one) and    *)
(*     later closes the handle of an outbound one;                         *)
(*   - a publication: IOCTL_NFP_SET_PAYLOAD and the close of its handle;   *)
(*   - beside them, one receive thread per connection (rcv) and the thread *)
(*     that destroys CMyQueue (unload).                                    *)
(* A step is what happens between two points where another thread can      *)
(* interfere: the acquisition of a lock, a call that waits, a callback.    *)
(* m_ConnectionLock and m_PubsLock are variables because they are held     *)
(* across calls that wait; m_SubsLock and m_RoleLock are held across none. *)
(*                                                                         *)
(* A thread that touches a deleted object ends the behaviour: ub.          *)
(***************************************************************************)
EXTENDS Naturals, Sequences, FiniteSets

CONSTANTS
  Inbound,      \* connections accepted by the listener
  Outbound,     \* connections opened by IOCTL_BEGIN_PROXIMITY, one per handle
  Pubs,         \* publications
  Nobody,       \* no thread holds the lock
  EarlyClose,   \* the peer may go before ConnectionEstablished has returned
  SendFails,    \* send() may notice that the peer is gone
  StaleIds,     \* whose id an uninitialised _ThreadpoolThreadId may hold
  Unloads       \* whether the driver may be unloaded

Conns == Inbound \cup Outbound

ASSUME ThreadsAssumption == /\ Inbound \cap Outbound = {}
                            /\ Conns \cap Pubs = {}
                            /\ Nobody \notin Conns \cup Pubs
                            /\ {"no", "delete", "gone"} \cap Conns = {}

ASSUME ChoicesAssumption == /\ EarlyClose \in BOOLEAN
                            /\ SendFails \in BOOLEAN
                            /\ Unloads \in BOOLEAN
                            /\ StaleIds \subseteq {"establisher", "closer"}

VARIABLES
  \* CConnection
  _State, _Socket, _ThreadpoolThreadId,
  exists,             \* memory: "none", "live" or "freed"
  \* CMyQueue
  m_ConnectionHead, m_PubsHead, m_ConnectionLock, m_PubsLock,
  \* threads
  pc,                 \* of the thread of a connection or a publication
  rest,               \* what the list walk of that thread has yet to visit
  rcv,                \* the receive thread of a connection
  fNoMoreConnections, \* its local variable
  unload,             \* the thread in ~CMyQueue
  \* external: the sockets
  peer,               \* "up" until the remote end closes or resets
  shut,               \* shutdown(SD_SEND) was called
  \* the application's switch of a publication
  enabled,
  \* history
  closes,             \* closesocket calls per connection
  due,                \* publications that were listed and enabled when the
                      \* connection was listed, not transmitted on it since
  arrivals, departures,
  disturbed,          \* a peer went early, a send failed, or unload began
  ub

object  == <<_State, _Socket, _ThreadpoolThreadId, exists>>
queue   == <<m_ConnectionHead, m_PubsHead, m_ConnectionLock, m_PubsLock>>
threads == <<pc, rest, rcv, fNoMoreConnections, unload>>
net     == <<peer, shut>>
events  == <<arrivals, departures>>
history == <<closes, due, events>>
vars    == <<object, queue, threads, net, enabled, history, disturbed, ub>>

Elements(s) == {s[i] : i \in DOMAIN s}

\* The search for an entry of a list, and its RemoveEntryList when it is found.
Unlink(s, x) ==
  LET found == CHOOSE i \in DOMAIN s : s[i] = x /\ \A k \in 1 .. i - 1 : s[k] # x
  IN IF x \in Elements(s)
     THEN [i \in 1 .. Len(s) - 1 |-> IF i < found THEN s[i] ELSE s[i + 1]]
     ELSE s

Init ==
  /\ _State = [c \in Conns |-> "INITIAL"]
  /\ _Socket = [c \in Conns |-> FALSE]
  /\ _ThreadpoolThreadId = [c \in Conns |-> "other"]
  /\ exists = [c \in Conns |-> "none"]
  /\ m_ConnectionHead = <<>>
  /\ m_PubsHead = <<>>
  /\ m_ConnectionLock = Nobody
  /\ m_PubsLock = Nobody
  /\ pc = [t \in Conns \cup Pubs |-> "idle"]
  /\ rest = [t \in Conns \cup Pubs |-> <<>>]
  /\ rcv = [c \in Conns |-> "none"]
  /\ fNoMoreConnections = [c \in Conns |-> FALSE]
  /\ unload = "no"
  /\ peer = [c \in Conns |-> "up"]
  /\ shut = [c \in Conns |-> FALSE]
  /\ enabled = [p \in Pubs |-> TRUE]
  /\ closes = [c \in Conns |-> 0]
  /\ due = [c \in Conns |-> {}]
  /\ arrivals = 0
  /\ departures = 0
  /\ disturbed = FALSE
  /\ ub = FALSE

\* A step that reads or writes a deleted object.
Undefined ==
  /\ ub' = TRUE
  /\ UNCHANGED <<object, queue, threads, net, enabled, history, disturbed>>

\* closesocket of what InterlockedExchangePointer(&_Socket) returned, if valid.
CloseSocket(c) ==
  /\ _Socket' = [_Socket EXCEPT ![c] = FALSE]
  /\ closes' = IF _Socket[c] THEN [closes EXCEPT ![c] = @ + 1] ELSE closes

-----------------------------------------------------------------------------
(***************************************************************************)
(* CMyQueue::ValidateAccept and CConnection::ValidateAccept on the accept  *)
(* thread (there is one accept at a time), or CFileContext::BeginProximity *)
(* and InitializeAsClient on the thread of an IOCTL; then                  *)
(* FinalizeEstablish up to SubmitThreadpoolWork.  The receive thread may   *)
(* run from here on, before ConnectionEstablished does.                    *)
(***************************************************************************)
FinalizeEstablish(c, id) ==
  /\ ~ub /\ unload = "no" /\ pc[c] = "idle"
  /\ c \in Inbound =>
       \A d \in Inbound : pc[d] \in {"idle", "failed", "done"}
  /\ id \in StaleIds \cup {"other"}
  /\ exists' = [exists EXCEPT ![c] = "live"]
  /\ _State' = [_State EXCEPT ![c] = "ESTABLISHED"]
  /\ _Socket' = [_Socket EXCEPT ![c] = TRUE]
  /\ _ThreadpoolThreadId' = [_ThreadpoolThreadId EXCEPT ![c] = id]
  /\ rcv' = [rcv EXCEPT ![c] = "queued"]
  /\ pc' = [pc EXCEPT ![c] = "insert"]
  /\ UNCHANGED <<queue, rest, fNoMoreConnections, unload, net, enabled,
                 history, disturbed, ub>>

(***************************************************************************)
(* The handshake or CreateThreadpoolWork fails: the socket is closed and   *)
(* nothing refers to the object any more.                                  *)
(***************************************************************************)
FailEstablish(c) ==
  /\ ~ub /\ unload = "no" /\ pc[c] = "idle"
  /\ c \in Inbound =>
       \A d \in Inbound : pc[d] \in {"idle", "failed", "done"}
  /\ exists' = [exists EXCEPT ![c] = "live"]
  /\ closes' = [closes EXCEPT ![c] = @ + 1]
  /\ pc' = [pc EXCEPT ![c] = "failed"]
  /\ UNCHANGED <<_State, _Socket, _ThreadpoolThreadId, queue, rest, rcv,
                 fNoMoreConnections, unload, net, enabled, due, events,
                 disturbed, ub>>

\* ConnectionEstablished: into the list, and was it empty?
ConnectionEstablished(c) ==
  /\ ~ub /\ pc[c] = "insert"
  /\ m_ConnectionLock = Nobody
  /\ \/ /\ exists[c] = "freed"
        /\ Undefined
     \/ /\ exists[c] = "live"
        /\ m_ConnectionHead' = <<c>> \o m_ConnectionHead
        /\ pc' = [pc EXCEPT ![c] = IF m_ConnectionHead = <<>> THEN "arrive"
                                                              ELSE "walk"]
        /\ due' = [due EXCEPT ![c] = {p \in Elements(m_PubsHead) : enabled[p]}]
        /\ UNCHANGED <<object, m_PubsHead, m_ConnectionLock, m_PubsLock, rest,
                       rcv, fNoMoreConnections, unload, net, enabled, closes,
                       events, disturbed, ub>>

\* AddArrivalEvent, after m_ConnectionLock was released.
AddArrivalEvent(c) ==
  /\ ~ub /\ pc[c] = "arrive"
  /\ arrivals' = arrivals + 1
  /\ pc' = [pc EXCEPT ![c] = "walk"]
  /\ UNCHANGED <<object, queue, rest, rcv, fNoMoreConnections, unload, net,
                 enabled, closes, due, departures, disturbed, ub>>

\* The second half of ConnectionEstablished walks the publications.
WalkPubsSkipsFirst(c) == \* mutant: starts behind the first entry
  /\ ~ub /\ pc[c] = "walk"
  /\ m_PubsLock = Nobody
  /\ m_PubsLock' = c
  /\ rest' = [rest EXCEPT ![c] = IF m_PubsHead = <<>> THEN <<>>
                                 ELSE Tail(m_PubsHead)]
  /\ pc' = [pc EXCEPT ![c] = "transmit"]
  /\ UNCHANGED <<object, m_ConnectionHead, m_PubsHead, m_ConnectionLock, rcv,
                 fNoMoreConnections, unload, net, enabled, history, disturbed,
                 ub>>

WalkPubs(c) ==
  /\ ~ub /\ pc[c] = "walk"
  /\ m_PubsLock = Nobody
  /\ m_PubsLock' = c
  /\ rest' = [rest EXCEPT ![c] = m_PubsHead]
  /\ pc' = [pc EXCEPT ![c] = "transmit"]
  /\ UNCHANGED <<object, m_ConnectionHead, m_PubsHead, m_ConnectionLock, rcv,
                 fNoMoreConnections, unload, net, enabled, history, disturbed,
                 ub>>

-----------------------------------------------------------------------------
(***************************************************************************)
(* IOCTL_NFP_SET_PAYLOAD, once the file context has taken the payload:     *)
(* walk the connections with m_ConnectionLock held.                        *)
(***************************************************************************)
SetPayloadUnlocked(p) == \* mutant: walks the connections without the lock
  /\ ~ub /\ unload = "no" /\ pc[p] = "idle"
  /\ rest' = [rest EXCEPT ![p] = m_ConnectionHead]
  /\ pc' = [pc EXCEPT ![p] = "transmit"]
  /\ UNCHANGED <<object, queue, rcv, fNoMoreConnections, unload, net, enabled,
                 history, disturbed, ub>>

SetPayload(p) ==
  /\ ~ub /\ unload = "no" /\ pc[p] = "idle"
  /\ m_ConnectionLock = Nobody
  /\ m_ConnectionLock' = p
  /\ rest' = [rest EXCEPT ![p] = m_ConnectionHead]
  /\ pc' = [pc EXCEPT ![p] = "transmit"]
  /\ UNCHANGED <<object, m_ConnectionHead, m_PubsHead, m_PubsLock, rcv,
                 fNoMoreConnections, unload, net, enabled, history, disturbed,
                 ub>>

\* The connection and the publication the walk of thread t has come to.
LinkOf(t) == IF t \in Conns THEN t ELSE Head(rest[t])
PubOf(t)  == IF t \in Pubs THEN t ELSE Head(rest[t])

\* Whether GetCurrentThreadId() = _ThreadpoolThreadId for the thread of t.
IsThreadpoolThread(t) ==
  t \in Conns /\ _ThreadpoolThreadId[t] = "establisher"

(***************************************************************************)
(* One entry of either walk: TransmitMessage.  ConnectionEstablished skips *)
(* a disabled publication, SET_PAYLOAD asks nobody.  A send that fails     *)
(* terminates the connection, and Terminate waits for its receive thread   *)
(* with whatever lock the walk holds.                                      *)
(***************************************************************************)
TransmitMessage(t) ==
  LET c == LinkOf(t)
      p == PubOf(t)
      skip == t \in Conns /\ ~enabled[p]
      next == /\ rest' = [rest EXCEPT ![t] = Tail(@)]
              /\ UNCHANGED pc
  IN /\ ~ub /\ pc[t] = "transmit" /\ rest[t] # <<>>
     /\ \/ /\ exists[c] = "freed"
           /\ Undefined
        \/ /\ exists[c] = "live"
           /\ skip \/ ~_Socket[c] \/ shut[c]
           /\ next
           /\ UNCHANGED <<object, queue, rcv, fNoMoreConnections, unload, net,
                          enabled, history, disturbed, ub>>
        \/ /\ exists[c] = "live"
           /\ ~skip /\ _Socket[c] /\ ~shut[c]
           /\ next
           /\ due' = [due EXCEPT ![c] = @ \ {p}]
           /\ UNCHANGED <<object, queue, rcv, fNoMoreConnections, unload, net,
                          enabled, closes, events, disturbed, ub>>
        \/ /\ exists[c] = "live"
           /\ ~skip /\ _Socket[c] /\ ~shut[c]
           /\ SendFails /\ peer[c] = "gone"
           /\ disturbed' = TRUE
           /\ _State' = [_State EXCEPT ![c] = "TERMINATED"]
           /\ shut' = [shut EXCEPT ![c] = TRUE]
           /\ IF IsThreadpoolThread(t)
              THEN next /\ CloseSocket(c)
              ELSE /\ pc' = [pc EXCEPT ![t] = "wait"]
                   /\ UNCHANGED <<rest, _Socket, closes>>
           /\ UNCHANGED <<_ThreadpoolThreadId, exists, queue, rcv,
                          fNoMoreConnections, unload, peer, enabled, due,
                          events, ub>>

(***************************************************************************)
(* WaitForThreadpoolWorkCallbacks has returned to Terminate in a walk: the *)
(* socket is closed and the walk goes on.  The receive thread of an        *)
(* inbound connection has deleted the object by then.                      *)
(***************************************************************************)
TerminateReturns(t) ==
  LET c == LinkOf(t)
  IN /\ ~ub /\ pc[t] = "wait" /\ rcv[c] = "done"
     /\ \/ /\ exists[c] = "freed"
           /\ Undefined
        \/ /\ exists[c] = "live"
           /\ CloseSocket(c)
           /\ rest' = [rest EXCEPT ![t] = Tail(@)]
           /\ pc' = [pc EXCEPT ![t] = "transmit"]
           /\ UNCHANGED <<_State, _ThreadpoolThreadId, exists, queue, rcv,
                          fNoMoreConnections, unload, net, enabled, due,
                          events, disturbed, ub>>

EndWalkKeepsLock(t) == \* mutant: no LeaveCriticalSection(&m_ConnectionLock)
  /\ ~ub /\ pc[t] = "transmit" /\ rest[t] = <<>>
  /\ m_PubsLock' = IF t \in Conns THEN Nobody ELSE m_PubsLock
  /\ pc' = [pc EXCEPT ![t] = IF t \in Conns THEN "done" ELSE "publish"]
  /\ UNCHANGED <<object, m_ConnectionHead, m_PubsHead, m_ConnectionLock, rest,
                 rcv, fNoMoreConnections, unload, net, enabled, history,
                 disturbed, ub>>

\* The walk ends: the lock is released; SET_PAYLOAD has the list to enter yet.
EndWalk(t) ==
  /\ ~ub /\ pc[t] = "transmit" /\ rest[t] = <<>>
  /\ IF t \in Conns
     THEN /\ m_PubsLock' = Nobody
          /\ pc' = [pc EXCEPT ![t] = "done"]
          /\ UNCHANGED m_ConnectionLock
     ELSE /\ m_ConnectionLock' = Nobody
          /\ pc' = [pc EXCEPT ![t] = "publish"]
          /\ UNCHANGED m_PubsLock
  /\ UNCHANGED <<object, m_ConnectionHead, m_PubsHead, rest, rcv,
                 fNoMoreConnections, unload, net, enabled, history, disturbed,
                 ub>>

\* The end of SET_PAYLOAD.
Publish(p) ==
  /\ ~ub /\ pc[p] = "publish"
  /\ m_PubsLock = Nobody
  /\ m_PubsHead' = <<p>> \o m_PubsHead
  /\ pc' = [pc EXCEPT ![p] = "done"]
  /\ UNCHANGED <<object, m_ConnectionHead, m_ConnectionLock, m_PubsLock, rest,
                 rcv, fNoMoreConnections, unload, net, enabled, history,
                 disturbed, ub>>

\* IOCTL_NFP_DISABLE and IOCTL_NFP_ENABLE on a publication.
SetEnabled(p) ==
  /\ ~ub /\ pc[p] \in {"idle", "done"}
  /\ enabled' = [enabled EXCEPT ![p] = ~@]
  /\ due' = [c \in Conns |-> due[c] \ {p}]
  /\ UNCHANGED <<object, queue, threads, net, closes, events, disturbed, ub>>

\* OnCloseFile of a publication.
ClosePublication(p) ==
  /\ ~ub /\ pc[p] \in {"idle", "done"}
  /\ m_PubsLock = Nobody
  /\ m_PubsHead' = Unlink(m_PubsHead, p)
  /\ pc' = [pc EXCEPT ![p] = "closed"]
  /\ due' = [c \in Conns |-> due[c] \ {p}]
  /\ UNCHANGED <<object, m_ConnectionHead, m_ConnectionLock, m_PubsLock, rest,
                 rcv, fNoMoreConnections, unload, net, enabled, closes,
                 events, disturbed, ub>>

-----------------------------------------------------------------------------
\* s_ReceiveThreadProc begins: _ThreadpoolThreadId = GetCurrentThreadId().
ReceiveStart(c) ==
  /\ ~ub /\ rcv[c] = "queued"
  /\ \/ /\ exists[c] = "freed"
        /\ Undefined
     \/ /\ exists[c] = "live"
        /\ _ThreadpoolThreadId' = [_ThreadpoolThreadId EXCEPT ![c] = "receiver"]
        /\ rcv' = [rcv EXCEPT ![c] = "recv"]
        /\ UNCHANGED <<_State, _Socket, exists, queue, pc, rest,
                       fNoMoreConnections, unload, net, enabled, history,
                       disturbed, ub>>

(***************************************************************************)
(* ReceiveThreadProc leaves its loop, because recv failed or because the   *)
(* socket is closed already, and terminates the connection unless another  *)
(* thread is doing so.  (A message it receives meanwhile goes to           *)
(* HandleReceivedMessage: NfpFileContext.)                                 *)
(***************************************************************************)
ReceiveTerminate(c) ==
  /\ ~ub /\ rcv[c] = "recv"
  /\ peer[c] = "gone" \/ ~_Socket[c]
  /\ \/ /\ exists[c] = "freed"
        /\ Undefined
     \/ /\ exists[c] = "live"
        /\ rcv' = [rcv EXCEPT ![c] = "remove"]
        /\ IF _State[c] = "TERMINATED"
           THEN UNCHANGED <<_State, _Socket, shut, closes>>
           ELSE /\ _State' = [_State EXCEPT ![c] = "TERMINATED"]
                /\ shut' = [shut EXCEPT ![c] = TRUE]
                /\ CloseSocket(c)
        /\ UNCHANGED <<_ThreadpoolThreadId, exists, queue, pc, rest,
                       fNoMoreConnections, unload, peer, enabled, due, events,
                       disturbed, ub>>

\* The entries a search of the connection list for c looks at.
Searched(c) ==
  {m_ConnectionHead[i] : i \in {j \in DOMAIN m_ConnectionHead :
                                 \A k \in 1 .. j - 1 : m_ConnectionHead[k] # c}}

(***************************************************************************)
(* ConnectionTerminated: out of the list if it is there, and is it empty?  *)
(***************************************************************************)
ConnectionTerminated(c) ==
  /\ ~ub /\ rcv[c] = "remove"
  /\ m_ConnectionLock = Nobody
  /\ \/ /\ unload = "gone" \/ \E d \in Searched(c) \cup {c} : exists[d] = "freed"
        /\ Undefined
     \/ /\ unload # "gone"
        /\ \A d \in Searched(c) \cup {c} : exists[d] = "live"
        /\ m_ConnectionHead' = Unlink(m_ConnectionHead, c)
        /\ fNoMoreConnections' =
             [fNoMoreConnections EXCEPT ![c] = m_ConnectionHead' = <<>>]
        /\ rcv' = [rcv EXCEPT ![c] = "delete"]
        /\ UNCHANGED <<object, m_PubsHead, m_ConnectionLock, m_PubsLock, pc,
                       rest, unload, net, enabled, history, disturbed, ub>>

(***************************************************************************)
(* The rest of ConnectionTerminated: delete an inbound connection (its     *)
(* destructor finds it terminated and does not wait for its own thread).   *)
(***************************************************************************)
DeleteInbound(c) ==
  /\ ~ub /\ rcv[c] = "delete"
  /\ \/ /\ exists[c] = "freed"
        /\ Undefined
     \/ /\ exists[c] = "live"
        /\ exists' = IF c \in Inbound THEN [exists EXCEPT ![c] = "freed"]
                                      ELSE exists
        /\ rcv' = [rcv EXCEPT ![c] = IF fNoMoreConnections[c] THEN "depart"
                                                               ELSE "return"]
        /\ UNCHANGED <<_State, _Socket, _ThreadpoolThreadId, queue, pc, rest,
                       fNoMoreConnections, unload, net, enabled, history,
                       disturbed, ub>>

\* AddRemovalEvent, after m_ConnectionLock was released.
AddRemovalEvent(c) ==
  /\ ~ub /\ rcv[c] = "depart"
  /\ \/ /\ unload = "gone"
        /\ Undefined
     \/ /\ unload # "gone"
        /\ departures' = departures + 1
        /\ rcv' = [rcv EXCEPT ![c] = "return"]
        /\ UNCHANGED <<object, queue, pc, rest, fNoMoreConnections, unload,
                       net, enabled, closes, due, arrivals, disturbed, ub>>

\* The end of s_ReceiveThreadProc.
ReceiveReturn(c) ==
  /\ ~ub /\ rcv[c] = "return"
  /\ \/ /\ c \in Outbound /\ exists[c] = "freed"
        /\ Undefined
     \/ /\ c \in Outbound => exists[c] = "live"
        /\ rcv' = [rcv EXCEPT ![c] = "done"]
        /\ _ThreadpoolThreadId' =
             IF c \in Outbound THEN [_ThreadpoolThreadId EXCEPT ![c] = "other"]
                               ELSE _ThreadpoolThreadId
        /\ UNCHANGED <<_State, _Socket, exists, queue, pc, rest,
                       fNoMoreConnections, unload, net, enabled, history,
                       disturbed, ub>>

Establishing(c) == pc[c] \in {"insert", "arrive", "walk", "transmit", "wait"}

(***************************************************************************)
(* External: the remote end closes or resets the connection; it does so,   *)
(* running this same code, once it has seen our shutdown(SD_SEND).         *)
(***************************************************************************)
PeerGone(c) ==
  /\ ~ub /\ peer[c] = "up" /\ _State[c] # "INITIAL"
  /\ EarlyClose \/ ~Establishing(c)
  /\ peer' = [peer EXCEPT ![c] = "gone"]
  /\ disturbed' = (disturbed \/ Establishing(c))
  /\ UNCHANGED <<object, queue, threads, shut, enabled, history, ub>>

-----------------------------------------------------------------------------
(***************************************************************************)
(* OnCloseFile of the handle of an outbound connection: ~CFileContext      *)
(* deletes it, ~CConnection terminates it and waits for the receive        *)
(* thread.  "closing" is in Terminate, "reaping" finds it terminated.      *)
(***************************************************************************)
CloseOutbound(c) ==
  LET first == _State[c] # "TERMINATED"
      skip  == _ThreadpoolThreadId[c] = "closer"
  IN /\ ~ub /\ pc[c] = "done" /\ c \in Outbound
     /\ _State' = [_State EXCEPT ![c] = "TERMINATED"]
     /\ shut' = [shut EXCEPT ![c] = TRUE]
     /\ IF skip
        THEN /\ IF first THEN CloseSocket(c) ELSE UNCHANGED <<_Socket,
                                                              closes>>
             /\ exists' = [exists EXCEPT ![c] = "freed"]
             /\ pc' = [pc EXCEPT ![c] = "closed"]
        ELSE /\ pc' = [pc EXCEPT ![c] = IF first THEN "closing" ELSE "reaping"]
             /\ UNCHANGED <<_Socket, closes, exists>>
     /\ UNCHANGED <<_ThreadpoolThreadId, queue, rest, rcv, fNoMoreConnections,
                    unload, peer, enabled, due, events, disturbed, ub>>

\* The wait is over: the object is freed.
FreeOutbound(c) ==
  /\ ~ub /\ pc[c] \in {"closing", "reaping"} /\ rcv[c] = "done"
  /\ IF pc[c] = "closing" THEN CloseSocket(c) ELSE UNCHANGED <<_Socket,
                                                               closes>>
  /\ exists' = [exists EXCEPT ![c] = "freed"]
  /\ pc' = [pc EXCEPT ![c] = "closed"]
  /\ UNCHANGED <<_State, _ThreadpoolThreadId, queue, rest, rcv,
                 fNoMoreConnections, unload, net, enabled, due, events,
                 disturbed, ub>>

-----------------------------------------------------------------------------
(***************************************************************************)
(* ~CMyQueue, once every handle is closed and StopAccepting has returned.  *)
(***************************************************************************)
BeginUnload ==
  /\ ~ub /\ Unloads /\ unload = "no"
  /\ \A c \in Outbound : pc[c] \in {"idle", "failed", "closed"}
  /\ \A c \in Inbound : pc[c] \in {"idle", "failed", "done"}
  /\ \A p \in Pubs : pc[p] = "closed"
  /\ unload' = "delete"
  /\ disturbed' = TRUE
  /\ UNCHANGED <<object, queue, pc, rest, rcv, fNoMoreConnections, net,
                 enabled, history, ub>>

\* delete the head of the connection list, without m_ConnectionLock.
DeleteConnection ==
  LET c == Head(m_ConnectionHead)
  IN /\ ~ub /\ unload = "delete" /\ m_ConnectionHead # <<>>
     /\ \/ /\ exists[c] = "freed"
           /\ Undefined
        \/ /\ exists[c] = "live"
           /\ m_ConnectionHead' = Tail(m_ConnectionHead)
           /\ _State' = [_State EXCEPT ![c] = "TERMINATED"]
           /\ shut' = [shut EXCEPT ![c] = TRUE]
           /\ unload' = c
           /\ UNCHANGED <<_Socket, _ThreadpoolThreadId, exists, m_PubsHead,
                          m_ConnectionLock, m_PubsLock, pc, rest, rcv,
                          fNoMoreConnections, peer, enabled, history,
                          disturbed, ub>>

(***************************************************************************)
(* The wait of that delete is over.  Only inbound connections are left at  *)
(* unload, and the receive thread of an inbound connection has deleted it. *)
(***************************************************************************)
DeleteReturns ==
  /\ ~ub /\ unload \in Conns
  /\ rcv[unload] = "done" /\ exists[unload] = "freed"
  /\ Undefined

EndUnload ==
  /\ ~ub /\ unload = "delete" /\ m_ConnectionHead = <<>>
  /\ unload' = "gone"
  /\ UNCHANGED <<object, queue, pc, rest, rcv, fNoMoreConnections, net,
                 enabled, history, disturbed, ub>>

Establish(c) ==
  \/ \E id \in StaleIds \cup {"other"} : FinalizeEstablish(c, id)
  \/ FailEstablish(c) \/ ConnectionEstablished(c) \/ AddArrivalEvent(c)
  \/ WalkPubs(c)

Receive(c) ==
  \/ ReceiveStart(c) \/ ReceiveTerminate(c) \/ ConnectionTerminated(c)
  \/ DeleteInbound(c) \/ AddRemovalEvent(c) \/ ReceiveReturn(c)

Next ==
  \/ \E c \in Conns : Establish(c) \/ Receive(c) \/ PeerGone(c)
  \/ \E c \in Outbound : CloseOutbound(c) \/ FreeOutbound(c)
  \/ \E p \in Pubs : SetPayload(p) \/ Publish(p) \/ SetEnabled(p)
                      \/ ClosePublication(p)
  \/ \E t \in Conns \cup Pubs : TransmitMessage(t) \/ TerminateReturns(t)
                               \/ EndWalk(t)
  \/ BeginUnload \/ DeleteConnection \/ DeleteReturns \/ EndUnload

(***************************************************************************)
(* The scheduler runs every thread that can run; the remote end answers a  *)
(* shutdown by closing.  Handles need not be opened or closed.             *)
(***************************************************************************)
Running(c) ==
  \/ ConnectionEstablished(c) \/ AddArrivalEvent(c) \/ WalkPubs(c)

Fairness ==
  /\ \A c \in Conns : /\ WF_vars(Running(c))
                       /\ WF_vars(Receive(c))
                       /\ WF_vars(shut[c] /\ PeerGone(c))
  /\ \A c \in Outbound : WF_vars(FreeOutbound(c))
  /\ \A p \in Pubs : WF_vars(Publish(p))
  /\ \A t \in Conns \cup Pubs :
       WF_vars(TransmitMessage(t) \/ TerminateReturns(t) \/ EndWalk(t))

Spec == Init /\ [][Next]_vars /\ Fairness

-----------------------------------------------------------------------------
(***************************************************************************)
(* Types.                                                                  *)
(***************************************************************************)
TypeOK ==
  /\ _State \in [Conns -> {"INITIAL", "ESTABLISHED", "TERMINATED"}]
  /\ _Socket \in [Conns -> BOOLEAN]
  /\ _ThreadpoolThreadId \in
       [Conns -> {"other", "receiver", "establisher", "closer"}]
  /\ exists \in [Conns -> {"none", "live", "freed"}]
  /\ m_ConnectionHead \in Seq(Conns)
  /\ m_PubsHead \in Seq(Pubs)
  /\ m_ConnectionLock \in Pubs \cup {Nobody}
  /\ m_PubsLock \in Conns \cup {Nobody}
  /\ pc \in [Conns \cup Pubs ->
              {"idle", "failed", "insert", "arrive", "walk", "transmit", "wait",
               "publish", "done", "closing", "reaping", "closed"}]
  /\ rest \in [Conns \cup Pubs -> Seq(Conns \cup Pubs)]
  /\ rcv \in [Conns -> {"none", "queued", "recv", "remove", "delete", "depart",
                        "return", "done"}]
  /\ fNoMoreConnections \in [Conns -> BOOLEAN]
  /\ unload \in {"no", "delete", "gone"} \cup Conns
  /\ peer \in [Conns -> {"up", "gone"}]
  /\ shut \in [Conns -> BOOLEAN]
  /\ enabled \in [Pubs -> BOOLEAN]
  /\ closes \in [Conns -> Nat]
  /\ due \in [Conns -> SUBSET Pubs]
  /\ arrivals \in Nat
  /\ departures \in Nat
  /\ disturbed \in BOOLEAN
  /\ ub \in BOOLEAN

(***************************************************************************)
(* Connection.cpp: "Only want to terminate once".  However many threads    *)
(* terminate a connection (its receive thread, a failed send in either     *)
(* walk, the close of its handle), its socket is closed at most once, and  *)
(* never while _Socket still names it.                                     *)
(***************************************************************************)
SocketClosedOnce ==
  \A c \in Conns : closes[c] <= 1 /\ (_Socket[c] => closes[c] = 0)

(***************************************************************************)
(* An outbound connection is not freed while its receive thread still has  *)
(* to run: ~CConnection waits for it, whoever terminated the connection.   *)
(***************************************************************************)
OutboundOutlivesReceiver ==
  \A c \in Outbound : exists[c] = "freed" => rcv[c] = "done"

(***************************************************************************)
(* The walk of a list is never cut loose from the list: the thread that    *)
(* walks holds the lock, so what it has yet to visit is still the tail of  *)
(* the list.                                                               *)
(***************************************************************************)
IsTailOf(s, l) == \E n \in 0 .. Len(l) : s = SubSeq(l, n + 1, Len(l))

WalksTheList ==
  /\ \A c \in Conns : m_PubsLock = c => IsTailOf(rest[c], m_PubsHead)
  /\ \A p \in Pubs : m_ConnectionLock = p =>
                        IsTailOf(rest[p], m_ConnectionHead)

(***************************************************************************)
(* A publication that was in the list when a link was entered in its list, *)
(* and that stayed enabled and open, has been transmitted on the link when *)
(* ConnectionEstablished returns, unless the link was terminated.  (One    *)
(* whose SET_PAYLOAD overlaps ConnectionEstablished may be missed by both  *)
(* walks, or be transmitted by both.)                                      *)
(***************************************************************************)
PublishedIsTransmitted ==
  \A c \in Conns :
    pc[c] = "done" /\ _State[c] = "ESTABLISHED" => due[c] = {}

(***************************************************************************)
(* The rest holds of a behaviour that is not disturbed: peers wait for     *)
(* ConnectionEstablished, no send fails and the driver stays loaded.       *)
(*                                                                         *)
(* Subscribers can tell from the events whether there is a link: arrivals  *)
(* exceed departures by one exactly while the list has an entry, counting  *)
(* the events a thread has decided on and not yet raised.                  *)
(***************************************************************************)
EventsBalanced ==
  LET coming  == {c \in Conns : pc[c] = "arrive"}
      leaving == {c \in Conns : fNoMoreConnections[c]
                                 /\ rcv[c] \in {"delete", "depart"}}
  IN \/ disturbed
     \/ arrivals + Cardinality(coming)
          = departures + Cardinality(leaving)
              + (IF m_ConnectionHead = <<>> THEN 0 ELSE 1)

(***************************************************************************)
(* No thread ever touches a deleted connection.                            *)
(***************************************************************************)
NoDanglingUse == disturbed \/ ~ub

(***************************************************************************)
(* What the threads keep together of a link: its socket is closed once, an *)
(* outbound connection outlives its receive thread, list walks follow the  *)
(* list, the events tell whether there is a link, and no deleted           *)
(* connection is touched.                                                  *)
(***************************************************************************)
LinkInvariant ==
  /\ TypeOK
  /\ SocketClosedOnce
  /\ OutboundOutlivesReceiver
  /\ WalksTheList
  /\ EventsBalanced
  /\ NoDanglingUse

(***************************************************************************)
(* Closing a handle completes: the receive thread it waits for gets        *)
(* m_ConnectionLock and ends.                                              *)
(***************************************************************************)
CloseCompletes ==
  \A c \in Outbound :
    pc[c] \in {"closing", "reaping"} ~> pc[c] = "closed" \/ disturbed

(***************************************************************************)
(* And a link whose peer is gone leaves the list.                          *)
(***************************************************************************)
GoneLinkIsUnlisted ==
  \A c \in Conns :
    peer[c] = "gone" ~>
      \/ c \notin Elements(m_ConnectionHead) /\ rcv[c] = "done"
      \/ disturbed

(***************************************************************************)
(* Whoever ends a link, the handle is closed and the list forgets it.      *)
(***************************************************************************)
LinksEnd == CloseCompletes /\ GoneLinkIsUnlisted

-----------------------------------------------------------------------------
(***************************************************************************)
(* Queue.cpp: an inbound connection is deleted "when it's removed from the *)
(* list", so what is in the list is not deleted.                           *)
(***************************************************************************)
ListedNotFreed ==
  \A c \in Elements(m_ConnectionHead) : exists[c] = "live"

(***************************************************************************)
(* Connection.cpp: Terminate is to "let the ReceiveThreadProc gracefully   *)
(* shutdown", so its wait ends.                                            *)
(***************************************************************************)
TerminateWaitEnds ==
  \A t \in Conns \cup Pubs : pc[t] = "wait" ~> pc[t] # "wait" \/ ub

(***************************************************************************)
(* Queue.cpp again: with the inbound mark "we know to delete it when it's  *)
(* removed from the list", and nobody else does.  ~CMyQueue removes it     *)
(* from the list and deletes it too.                                       *)
(***************************************************************************)
UnloadDeletesOnce == unload \in Conns => exists[unload] # "freed"
=============================================================================
