---------------------------- MODULE SelectServers ----------------------------
(***************************************************************************)
(* The four echo servers of chapter 5 that do not use completion, each     *)
(* against the same network and the same promise, EchoService.             *)
(***************************************************************************)
EXTENDS EchoSockets

CONSTANTS
    Main, Threads, MaxEvents, Listening, Servers,
    MessagesTo  \* bound: messages on a connection to each server with 0 or 1 fault

ASSUME ServersAssumption == MessagesTo \in [Servers -> [0..1 -> Nat]]

VARIABLES
    server,  \* which of the programs runs
    thread, limit, gChildThreads, newsock, target,
    queue,
    place, gSocketList, sptr, fdsets,
    listener, conn

eventVars == <<thread, limit, gChildThreads, newsock, target>>
nbVars == <<place, gSocketList, sptr, fdsets>>
blockingVars == <<listener, conn>>
vars == <<socketVars, server, eventVars, queue, nbVars, blockingVars>>

Event == INSTANCE EventServer
Async == INSTANCE AsyncServer
Nb == INSTANCE NbServer
Blocking == INSTANCE BlockingServer

(* One program is started; the others have no state of their own. *)
Init ==
    /\ server \in Servers
    /\ SocketsInit
    /\ Event!EventInit /\ (server # "event" => limit > 1)
    /\ Async!AsyncInit
    /\ Nb!NbInit
    /\ Blocking!BlockingInit

(* What the programs can meet: select reports urgent data, and the codes of a network *)
(* that is down come with network events.  Bound: faults strike only when one thread  *)
(* of eventserver may have several sockets.                                           *)
FaultsOf == [event |-> {"partial", "reset", "zero", "down"},
             async |-> {"partial", "reset", "zero", "down"},
             nb |-> {"partial", "reset", "zero", "urgent"},
             blocking |-> {"partial", "reset", "zero"}]

(* Only asyncserver has a message queue for the network events. *)
Delivered(s) == IF server = "async" THEN Async!Posted(s) ELSE UNCHANGED queue

PeersNext ==
    /\ \E s \in Socks : Peers(s) /\ Delivered(s)
    /\ fault' \ fault \subseteq FaultsOf[server]
    /\ fault' # fault => limit > 1
    /\ \A s \in Socks : sock'[s].arrived <= MessagesTo[server][Cardinality(fault')]
    /\ UNCHANGED <<server, eventVars, nbVars, blockingVars>>

ReadsNext(s) ==
    /\ PeerReads(s) /\ Delivered(s)
    /\ UNCHANGED <<server, eventVars, nbVars, blockingVars>>

EventMain ==
    /\ server = "event" /\ Event!MainThread
    /\ UNCHANGED <<server, queue, nbVars, blockingVars>>

EventChild(t) ==
    /\ server = "event" /\ Event!ChildThread(t)
    /\ UNCHANGED <<server, queue, nbVars, blockingVars>>

AsyncNext ==
    /\ server = "async" /\ Async!WindowProc
    /\ UNCHANGED <<server, eventVars, nbVars, blockingVars>>

NbNext ==
    /\ server = "nb" /\ Nb!NbServerNext
    /\ UNCHANGED <<server, eventVars, queue, blockingVars>>

BlockingListen ==
    /\ server = "blocking" /\ \E s \in Socks : Blocking!ServerListenThread(s)
    /\ UNCHANGED <<server, eventVars, queue, nbVars>>

BlockingReceive(s) ==
    /\ server = "blocking" /\ (Blocking!ReceiveThread(s) \/ Blocking!ReleaseSemaphore(s))
    /\ UNCHANGED <<server, eventVars, queue, nbVars>>

BlockingSend(s) ==
    /\ server = "blocking" /\ Blocking!SendThread(s)
    /\ UNCHANGED <<server, eventVars, queue, nbVars>>

Next ==
    \/ PeersNext \/ EventMain \/ AsyncNext \/ NbNext \/ BlockingListen
    \/ \E t \in Threads : EventChild(t)
    \/ \E s \in Socks : ReadsNext(s) \/ BlockingReceive(s) \/ BlockingSend(s)

(* The system runs every thread that can go on, delivers messages to the window, and *)
(* the peers read what they are sent.  Clients may stop at any time.                 *)
Fairness ==
    /\ WF_vars(EventMain) /\ WF_vars(AsyncNext) /\ WF_vars(NbNext) /\ WF_vars(BlockingListen)
    /\ \A t \in Threads : WF_vars(EventChild(t))
    /\ \A s \in Socks : /\ WF_vars(ReadsNext(s))
                         /\ WF_vars(BlockingReceive(s))
                         /\ WF_vars(BlockingSend(s))

Spec == Init /\ [][Next]_vars /\ Fairness

----------------------------------------------------------------------------
(* Nothing that a server does itself excuses it: a window with room for a part of a *)
(* buffer is no failure.                                                            *)
Excused == fault \ {"partial"} # {}

(* The sends of two servers do not block, and take the rest of a buffer that was cut *)
(* short from its front again.                                                       *)
Repeats == "partial" \in fault /\ server \in {"event", "async"}

(* Told that the peer has finished, asyncserver closes as soon as it has returned what *)
(* it has received, and does not look for more.                                        *)
Hasty == server = "async"

ClosedUnread(s) == Hasty /\ sock[s].st = "closed" /\ sock[s].inbound # <<>>

Service == INSTANCE EchoService WITH
    Conns <- Socks,
    sent <- [s \in Socks |-> 2 * sock[s].arrived],
    finished <- [s \in Socks |-> sock[s].peer # "open"],
    out <- [s \in Socks |-> sock[s].echoed],
    ended <- [s \in Socks |-> sock[s].st = "closed"],
    repeats <- Repeats,
    hasty <- Hasty,
    excused <- Excused

(* Every server keeps the promise of EchoService on every connection: what is sent *)
(* comes back once and in order, and a connection is closed only when the peer has *)
(* finished and has all of it back (ReceivePendingData, SendPendingData and the    *)
(* closing flag; SendThread).  After a send that was cut short eventserver and     *)
(* asyncserver return as much as was sent, but not all of it is the next; and      *)
(* asyncserver may end a finished connection before it has received everything.    *)
KeepsPromise == Service!Spec

(* All of it comes back (FD_WRITE after WSAEWOULDBLOCK, the posted FD_READ, the *)
(* next select, the semaphore), or as much, unless asyncserver closes too early. *)
DataIsEchoed ==
    \A s \in Socks : [](sock[s].arrived > 0 =>
        <>(Excused \/ ClosedUnread(s) \/ Len(sock[s].echoed) = 2 * sock[s].arrived))

(* A connection that the peer has ended is closed and leaves the list, whichever other *)
(* connection keeps its thread, or the only thread, busy.                              *)
ClosedIsForgotten ==
    \A s \in Socks : [](sock[s].peer = "fin" =>
        <>(Excused \/ (sock[s].st = "closed" /\ sock[s].object \in {"freed", "dropped"})))

(* Indices, lists and threads of the running program agree. *)
StructuresAgree ==
    /\ server = "event" => Event!HandlesAgree
    /\ server = "blocking" => Blocking!FreedAfterLastUse

----------------------------------------------------------------------------
(* What comments say and two servers do not do. *)

(* "This is to ensure we recv() until 0 is returned" (asyncserver.cpp:857). *)
ReceivesUntilZero ==
    [][\A s \in Socks : server = "async" /\ fault = {} => ~ClosedUnread(s)']_vars

(* "In the event not all the data was sent we need to increment through the buffer" *)
(* (eventserver.cpp:689).                                                           *)
IncrementsThroughBuffer ==
    \A s \in Socks : fault \in {{}, {"partial"}} =>
        \A i \in DOMAIN sock[s].echoed : sock[s].echoed[i] = i
=============================================================================
