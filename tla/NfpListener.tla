----------------------------- MODULE NfpListener -----------------------------
(***************************************************************************)
(* The listener of the Near-Field Proximity driver: CSocketListener        *)
(* (driver/socketlistener.cpp, socketlistener.h), which accepts inbound    *)
(* connections one at a time on the thread pool and hands each socket to   *)
(* its validator (CMyQueue::ValidateAccept, see NfpLink).                  *)
(*                                                                         *)
(* No lock protects it.  Threads are the one that creates and destroys the *)
(* queue (Main) and the pool threads that run s_AcceptThreadProc           *)
(* (Workers): a callback starts the next accept before it returns, so two  *)
(* callbacks can overlap.  EnableAccepting, BeginAccept and StopAccepting  *)
(* are called on both kinds of thread, and a step is one access to the     *)
(* fields they share.  The deletion of the listener is not modelled: the   *)
(* fields stay readable after Main has stopped.                            *)
(***************************************************************************)
EXTENDS Naturals, FiniteSets

CONSTANTS
  Workers,      \* thread-pool threads
  Main,         \* the thread of CMyQueue::Initialize and ~CMyQueue
  NoThread,     \* a thread id that is nobody's
  SocketFails,  \* socket() or setsockopt() may fail
  AcceptFails,  \* AcceptEx may fail on an open listening socket
  StaleId,      \* the uninitialised _ThreadpoolThreadId may be Main's
  MaxAccepts    \* bound: accepts that complete while the socket is open

ASSUME ThreadsAssumption == /\ Main \notin Workers
                            /\ NoThread \notin Workers \cup {Main}

ASSUME ChoicesAssumption == /\ SocketFails \in BOOLEAN
                            /\ AcceptFails \in BOOLEAN
                            /\ StaleId \in BOOLEAN
                            /\ MaxAccepts \in Nat

Threads == Workers \cup {Main}

VARIABLES
  _pValidator,         \* whether it is set
  _ThreadpoolIo,       \* whether it is set
  _ListenSocket,       \* whether it is valid
  _ClientSocket,       \* a socket made by BeginAccept, or INVALID_SOCKET
  _ThreadpoolThreadId,
  pc,                  \* of each thread
  io,                  \* external: the PTP_IO, "none", "open" or "closed"
  accept,              \* external: the AcceptEx operation and its result
  accepted,            \* external: how many completed on an open socket
  made,                \* history: sockets made by BeginAccept, 1 .. made
  handed,              \* history: those given to the validator
  closed,              \* history: those the listener closed
  aborted,             \* history: those whose accept failed
  starved              \* history: socket() or setsockopt() has failed

fields  == <<_pValidator, _ThreadpoolIo, _ListenSocket, _ClientSocket,
             _ThreadpoolThreadId>>
pool    == <<io, accept, accepted>>
history == <<made, handed, closed, aborted, starved>>
vars    == <<fields, pc, pool, history>>

INVALID_SOCKET == 0

Init ==
  /\ _pValidator = FALSE
  /\ _ThreadpoolIo = FALSE
  /\ _ListenSocket = FALSE
  /\ _ClientSocket = INVALID_SOCKET
  /\ _ThreadpoolThreadId \in {NoThread} \cup (IF StaleId THEN {Main} ELSE {})
  /\ pc = [t \in Threads |-> IF t = Main THEN "unbound" ELSE "idle"]
  /\ io = "none"
  /\ accept = "none"
  /\ accepted = 0
  /\ made = 0
  /\ handed = {}
  /\ closed = {}
  /\ aborted = {}
  /\ starved = FALSE

Goto(t, place) == pc' = [pc EXCEPT ![t] = place]

-----------------------------------------------------------------------------
(***************************************************************************)
(* Bind, and EnableAccepting up to BeginAccept, on Main, which is alone:   *)
(* a failure refuses the device, and what was made stays for the           *)
(* destructor to undo.                                                     *)
(***************************************************************************)
Bind ==
  /\ pc[Main] = "unbound"
  /\ \/ _ListenSocket' = TRUE /\ Goto(Main, "bound")
     \/ _ListenSocket' \in BOOLEAN /\ Goto(Main, "refused")
  /\ UNCHANGED <<_pValidator, _ThreadpoolIo, _ClientSocket,
                 _ThreadpoolThreadId, pool, history>>

EnableAccepting ==
  /\ pc[Main] = "bound" /\ ~_pValidator
  /\ \/ /\ Goto(Main, "refused")             \* CreateThreadpoolIo fails
        /\ UNCHANGED <<_pValidator, _ThreadpoolIo, io>>
     \/ /\ Goto(Main, "refused")             \* listen fails
        /\ _ThreadpoolIo' = TRUE /\ io' = "open"
        /\ UNCHANGED _pValidator
     \/ /\ Goto(Main, "socket")
        /\ _ThreadpoolIo' = TRUE /\ io' = "open"
        /\ _pValidator' = TRUE
  /\ UNCHANGED <<_ListenSocket, _ClientSocket, _ThreadpoolThreadId, accept,
                 accepted, history>>

-----------------------------------------------------------------------------
\* Where a thread is when BeginAccept has returned a success or a failure.
Begun(t) == IF t = Main THEN "accepting" ELSE "return"
Failed(t) == IF t = Main THEN "refused" ELSE "return"

\* BeginAccept: socket() and setsockopt().
BeginAcceptSocket(t) ==
  /\ pc[t] = "socket"
  /\ \/ /\ SocketFails
        /\ _ClientSocket' = INVALID_SOCKET
        /\ starved' = TRUE
        /\ Goto(t, Failed(t))
        /\ UNCHANGED made
     \/ /\ made' = made + 1
        /\ _ClientSocket' = made + 1
        /\ \/ Goto(t, "io") /\ UNCHANGED starved
           \/ SocketFails /\ starved' = TRUE /\ Goto(t, Failed(t))
  /\ UNCHANGED <<_pValidator, _ThreadpoolIo, _ListenSocket,
                 _ThreadpoolThreadId, pool, handed, closed, aborted>>

\* It reads _ThreadpoolIo once; NULL, and it returns S_OK.
BeginAcceptIo(t) ==
  /\ pc[t] = "io"
  /\ Goto(t, IF _ThreadpoolIo THEN "accept" ELSE Begun(t))
  /\ UNCHANGED <<fields, pool, history>>

\* StartThreadpoolIo and AcceptEx; it fails, and everything is cleaned up.
BeginAcceptEx(t) ==
  /\ pc[t] = "accept"
  /\ \/ /\ _ListenSocket
        /\ accept' = "pending"
        /\ Goto(t, Begun(t))
     \/ /\ ~_ListenSocket \/ AcceptFails
        /\ Goto(t, "stop")
        /\ UNCHANGED accept
  /\ UNCHANGED <<fields, io, accepted, history>>

-----------------------------------------------------------------------------
(***************************************************************************)
(* External: a peer connects and sends its first bytes ("ok" when they are *)
(* as many as the magic packet), or resets; the close of the listening     *)
(* socket aborts the accept.                                               *)
(***************************************************************************)
AcceptCompletes ==
  /\ accept = "pending"
  /\ \/ /\ _ListenSocket /\ accepted < MaxAccepts
        /\ accept' \in {"ok", "short", "failed"}
        /\ accepted' = accepted + 1
     \/ /\ ~_ListenSocket
        /\ accept' = "failed"
        /\ UNCHANGED accepted
  /\ aborted' = IF accept' = "failed" THEN aborted \cup {_ClientSocket}
                                      ELSE aborted
  /\ UNCHANGED <<fields, pc, io, made, handed, closed, starved>>

\* s_AcceptThreadProc on a pool thread.
StartCallback(w) ==
  /\ pc[w] = "idle" /\ accept \in {"ok", "short", "failed"}
  /\ _ThreadpoolThreadId' = w
  /\ accept' = "none"
  /\ Goto(w, CASE accept = "ok" -> "hand"
               [] accept = "short" -> "close"
               [] OTHER -> "socket")
  /\ UNCHANGED <<_pValidator, _ThreadpoolIo, _ListenSocket, _ClientSocket, io,
                 accepted, history>>

\* "Transfer ownership of _ClientSocket", in a call that takes its time.
ValidateAccept(w) ==
  /\ pc[w] = "hand"
  /\ handed' = handed \cup {_ClientSocket}
  /\ Goto(w, "validating")
  /\ UNCHANGED <<fields, pool, made, closed, aborted, starved>>

ValidateReturns(w) ==
  /\ pc[w] = "validating"
  /\ _ClientSocket' = INVALID_SOCKET
  /\ Goto(w, "socket")
  /\ UNCHANGED <<_pValidator, _ThreadpoolIo, _ListenSocket,
                 _ThreadpoolThreadId, pool, history>>

\* "Wrong header size, close immediately".
WrongHeaderSize(w) ==
  /\ pc[w] = "close"
  /\ closed' = closed \cup {_ClientSocket}
  /\ _ClientSocket' = INVALID_SOCKET
  /\ Goto(w, "socket")
  /\ UNCHANGED <<_pValidator, _ThreadpoolIo, _ListenSocket,
                 _ThreadpoolThreadId, pool, made, handed, aborted, starved>>

ReturnCallback(w) ==
  /\ pc[w] = "return"
  /\ _ThreadpoolThreadId' = NoThread
  /\ Goto(w, "idle")
  /\ UNCHANGED <<_pValidator, _ThreadpoolIo, _ListenSocket, _ClientSocket,
                 pool, history>>

-----------------------------------------------------------------------------
(***************************************************************************)
(* StopAccepting: from ~CMyQueue and again from ~CSocketListener, or from  *)
(* BeginAccept on either kind of thread.                                   *)
(***************************************************************************)
BeginStop ==
  /\ pc[Main] \in {"accepting", "refused", "stopped"}
  /\ Goto(Main, "stop")
  /\ UNCHANGED <<fields, pool, history>>

StopListenSocketLater(t) == \* mutant: the listening socket stays open
  /\ pc[t] = "stop"
  /\ Goto(t, "exchange")
  /\ UNCHANGED <<fields, pool, history>>

StopListenSocket(t) ==
  /\ pc[t] = "stop"
  /\ _ListenSocket' = FALSE
  /\ Goto(t, "exchange")
  /\ UNCHANGED <<_pValidator, _ThreadpoolIo, _ClientSocket,
                 _ThreadpoolThreadId, pool, history>>

StopExchangeIoNoWait(t) == \* mutant: CloseThreadpoolIo without the wait
  /\ pc[t] = "exchange"
  /\ _ThreadpoolIo' = FALSE
  /\ io' = IF _ThreadpoolIo THEN "closed" ELSE io
  /\ Goto(t, "validator")
  /\ UNCHANGED <<_pValidator, _ListenSocket, _ClientSocket,
                 _ThreadpoolThreadId, accept, accepted, history>>

(***************************************************************************)
(* InterlockedExchangePointer(&_ThreadpoolIo, NULL): whoever gets the      *)
(* PTP_IO closes it, after a wait unless it is the callback itself.        *)
(***************************************************************************)
StopExchangeIo(t) ==
  /\ pc[t] = "exchange"
  /\ _ThreadpoolIo' = FALSE
  /\ \/ /\ ~_ThreadpoolIo
        /\ Goto(t, "validator")
        /\ UNCHANGED io
     \/ /\ _ThreadpoolIo /\ _ThreadpoolThreadId = t
        /\ Goto(t, "validator")
        /\ io' = "closed"
     \/ /\ _ThreadpoolIo /\ _ThreadpoolThreadId # t
        /\ Goto(t, "wait")
        /\ UNCHANGED io
  /\ UNCHANGED <<_pValidator, _ListenSocket, _ClientSocket,
                 _ThreadpoolThreadId, accept, accepted, history>>

\* No accept is outstanding and no callback runs, so the wait can end.
CallbacksDone == accept = "none" /\ \A w \in Workers : pc[w] = "idle"

StopWait(t) ==
  /\ pc[t] = "wait" /\ CallbacksDone
  /\ io' = "closed"
  /\ Goto(t, "validator")
  /\ UNCHANGED <<fields, accept, accepted, history>>

StopValidatorKeeps(t) == \* mutant: _pValidator stays
  /\ pc[t] = "validator"
  /\ Goto(t, IF _ClientSocket # INVALID_SOCKET THEN "client" ELSE "ended")
  /\ UNCHANGED <<fields, pool, history>>

\* _pValidator = NULL, and the test of _ClientSocket.
StopValidator(t) ==
  /\ pc[t] = "validator"
  /\ _pValidator' = FALSE
  /\ Goto(t, IF _ClientSocket # INVALID_SOCKET THEN "client" ELSE "ended")
  /\ UNCHANGED <<_ThreadpoolIo, _ListenSocket, _ClientSocket,
                 _ThreadpoolThreadId, pool, history>>

\* closesocket(_ClientSocket), which is read again.
StopCloseClient(t) ==
  /\ pc[t] = "client"
  /\ closed' = closed \cup ({_ClientSocket} \ {INVALID_SOCKET})
  /\ Goto(t, "forget")
  /\ UNCHANGED <<fields, pool, made, handed, aborted, starved>>

StopForgetClient(t) ==
  /\ pc[t] = "forget"
  /\ _ClientSocket' = INVALID_SOCKET
  /\ Goto(t, "ended")
  /\ UNCHANGED <<_pValidator, _ThreadpoolIo, _ListenSocket,
                 _ThreadpoolThreadId, pool, history>>

\* The return of StopAccepting, to BeginAccept when that called it.
StopReturns(t) ==
  /\ pc[t] = "ended"
  /\ Goto(t, IF t = Main THEN "stopped" ELSE "return")
  /\ UNCHANGED <<fields, pool, history>>

-----------------------------------------------------------------------------
BeginAccept(t) == BeginAcceptSocket(t) \/ BeginAcceptIo(t) \/ BeginAcceptEx(t)

StopAccepting(t) ==
  \/ StopListenSocket(t) \/ StopExchangeIo(t) \/ StopWait(t)
  \/ StopValidator(t) \/ StopCloseClient(t) \/ StopForgetClient(t)
  \/ StopReturns(t)

AcceptThreadProc(w) ==
  \/ StartCallback(w) \/ ValidateAccept(w) \/ ValidateReturns(w)
  \/ WrongHeaderSize(w) \/ ReturnCallback(w)

Next ==
  \/ Bind \/ EnableAccepting \/ BeginStop \/ AcceptCompletes
  \/ \E w \in Workers : AcceptThreadProc(w)
  \/ \E t \in Threads : BeginAccept(t) \/ StopAccepting(t)

(***************************************************************************)
(* The scheduler runs every thread that can run, the pool finds a thread   *)
(* for a completion, and closing a socket completes what is pending on it. *)
(* Peers need not connect, nor the driver start or stop.                   *)
(***************************************************************************)
Fairness ==
  /\ \A t \in Threads : WF_vars(BeginAccept(t) \/ StopAccepting(t))
  /\ \A w \in Workers : WF_vars(AcceptThreadProc(w))
  /\ WF_vars(~_ListenSocket /\ AcceptCompletes)

Spec == Init /\ [][Next]_vars /\ Fairness

-----------------------------------------------------------------------------
(***************************************************************************)
(* Types.                                                                  *)
(***************************************************************************)
Places == {"unbound", "bound", "refused", "accepting", "stopped", "idle",
           "hand", "validating", "close", "return", "socket", "io", "accept",
           "stop", "exchange", "wait", "validator", "client", "forget",
           "ended"}

TypeOK ==
  /\ _pValidator \in BOOLEAN
  /\ _ThreadpoolIo \in BOOLEAN
  /\ _ListenSocket \in BOOLEAN
  /\ _ClientSocket \in 0 .. made
  /\ _ThreadpoolThreadId \in Threads \cup {NoThread}
  /\ pc \in [Threads -> Places]
  /\ io \in {"none", "open", "closed"}
  /\ accept \in {"none", "pending", "ok", "short", "failed"}
  /\ accepted \in 0 .. MaxAccepts
  /\ made \in Nat
  /\ handed \subseteq 1 .. made
  /\ closed \subseteq 1 .. made
  /\ aborted \subseteq 1 .. made
  /\ starved \in BOOLEAN

(***************************************************************************)
(* "Transfer ownership of _ClientSocket": a socket that ValidateAccept was *)
(* given is never closed by the listener, though _ClientSocket names it    *)
(* until ValidateAccept returns and StopAccepting, on another thread,      *)
(* closes whatever _ClientSocket names.                                    *)
(***************************************************************************)
HandedStaysOpen == handed \cap closed = {}

(***************************************************************************)
(* A callback that is about to call through _pValidator finds it set.      *)
(***************************************************************************)
ValidatorPresent == \A w \in Workers : pc[w] = "hand" => _pValidator

(***************************************************************************)
(* BeginAccept keeps the PTP_IO it has read from being closed under it:    *)
(* StopAccepting on another thread waits for the callback first.           *)
(***************************************************************************)
IoOpenWhenUsed == \A t \in Threads : pc[t] = "accept" => io = "open"

(***************************************************************************)
(* _AcceptBuffer and _Overlapped belong to one accept: while one is        *)
(* outstanding, every callback is past its last use of them.               *)
(***************************************************************************)
OneAcceptAtATime ==
  accept # "none" =>
    /\ \A w \in Workers : pc[w] \in {"idle", "return"}
    /\ pc[Main] \notin {"socket", "io", "accept"}

(***************************************************************************)
(* A socket BeginAccept made is handed over, closed, or still named by     *)
(* _ClientSocket, and the only ones ever forgotten open are those whose    *)
(* accept failed.                                                          *)
(***************************************************************************)
OnlyFailedAcceptsLeak ==
  1 .. made \subseteq handed \cup closed \cup aborted \cup {_ClientSocket}

(***************************************************************************)
(* "We're now accepting": while _pValidator is set and nobody stops the    *)
(* listener, an accept is outstanding or a callback will start one, unless *)
(* socket() or setsockopt() has failed: then a callback ends accepting and *)
(* tells nobody.                                                           *)
(***************************************************************************)
KeepsAccepting ==
  _pValidator /\ pc[Main] = "accepting" /\ (\A w \in Workers : pc[w] = "idle")
    => accept # "none" \/ starved

(***************************************************************************)
(* StopAccepting on Main returns: what it waits for comes to an end.       *)
(***************************************************************************)
StopCompletes == pc[Main] = "stop" ~> pc[Main] = "stopped"

-----------------------------------------------------------------------------
(***************************************************************************)
(* socketlistener.cpp: "Don't wait for threadpool callbacks when this      *)
(* thread is actually the threadpool callback"; so Main, which is not one, *)
(* does wait, and when its StopAccepting has returned no callback runs or  *)
(* is yet to run.                                                          *)
(***************************************************************************)
StoppedIsQuiet == pc[Main] = "stopped" => CallbacksDone
=============================================================================
