------------------------------ MODULE IocpEcho ------------------------------
(***************************************************************************)
(* One socket of the completion-port echo server                           *)
(* (chapter05/iocp/server/iocpserver.cpp): a SOCKET_OBJ, the overlapped    *)
(* operations posted on it, and the threads that handle their completions. *)
(* With TCP the socket is a connection just accepted and the thread that   *)
(* handles the accept (Poster) posts the first send and the receives; with *)
(* UDP it is the bound socket and Poster is main.                          *)
(*                                                                         *)
(* gOverlappedCount receives are outstanding at once.  The stack fills     *)
(* them in the order they were posted, but their completions are handled   *)
(* in any order, and the server has to echo the data in the first order.   *)
(*                                                                         *)
(* HandleIo holds SockCritSec but for the path of a failed TCP operation,  *)
(* and Poster holds it only inside PostSend and PostRecv, which count the  *)
(* operation in OutstandingOps after they have posted it and left the      *)
(* critical section.  A step is what happens between two points where      *)
(* another thread can interfere.  A thread that touches a freed SOCKET_OBJ *)
(* or BUFFER_OBJ ends the behaviour: ub.                                   *)
(***************************************************************************)
EXTENDS Integers, Sequences, FiniteSets

CONSTANTS
  Protocols,        \* the values of -p to check: "tcp", "udp"
  Workers,          \* the completion threads
  Poster,           \* the thread that posts the first operations
  NoThread,         \* nobody owns SockCritSec
  gOverlappedCount, \* receives outstanding per socket (5 unless -o)
  PostFails,        \* WSASend or WSARecv may fail on a good connection
  Resets,           \* the peer may reset the connection
  RecvErrors,       \* a UDP receive may fail (a datagram that is too long)
  EarlyClose,       \* the peer may close before Poster is done
  MaxData           \* bound: receives filled with data

ASSUME ThreadsAssumption == /\ IsFiniteSet(Workers) /\ Poster \notin Workers
                            /\ NoThread \notin Workers \cup {Poster}

ASSUME BoundsAssumption == /\ Protocols \subseteq {"tcp", "udp"}
                           /\ gOverlappedCount \in Nat \ {0}
                           /\ MaxData \in Nat
                           /\ {PostFails, Resets, RecvErrors, EarlyClose}
                                \subseteq BOOLEAN

Threads == Workers \cup {Poster}

VARIABLES
  gProtocol,
  \* SOCKET_OBJ
  s,               \* whether the handle is valid
  bClosing,
  OutstandingOps,
  LastSendIssued, IoCountIssued,
  OutOfOrderSends, \* entries [order, data], by order
  SockCritSec,
  freed,           \* the object has been given back to the heap
  \* threads
  pc,
  error,           \* its error variable, as SOCKET_ERROR or not
  bCleanupSocket,
  after,           \* where DoSends returns to
  posted,          \* i of Poster's loop
  \* external: the stack
  recvs,           \* IoOrder of the receives not yet filled, as posted
  sends,           \* data of the sends not yet complete
  completions,     \* what the completion port holds
  arrived,         \* data received so far: 0 .. arrived - 1
  peer,            \* "open", "closed" (no more data) or "reset"
  \* history
  echoed,          \* the data given to WSASend, in order
  disturbed,       \* a post has failed, or the peer reset or closed too early
  ub

sockobj == <<s, bClosing, OutstandingOps, LastSendIssued, IoCountIssued,
             OutOfOrderSends, SockCritSec, freed>>
locals  == <<error, bCleanupSocket, after, posted>>
stack   == <<recvs, sends, completions, arrived, peer>>
vars    == <<gProtocol, sockobj, pc, locals, stack, echoed, disturbed, ub>>

Completion == [op : {"read", "write"}, order : Nat, data : Nat,
               result : {"data", "zero", "sent", "error"}]

(***************************************************************************)
(* GetSocketObj: for TCP the data that came with the accept is number 0,   *)
(* so the first receive is number 1.                                       *)
(***************************************************************************)
FirstRecv == IF gProtocol = "tcp" THEN 1 ELSE 0

Init ==
  /\ gProtocol \in Protocols
  /\ s = TRUE
  /\ bClosing = FALSE
  /\ OutstandingOps = 0
  /\ LastSendIssued = 0
  /\ IoCountIssued = FirstRecv
  /\ OutOfOrderSends = <<>>
  /\ SockCritSec = NoThread
  /\ freed = FALSE
  /\ pc = [t \in Threads |-> IF t # Poster THEN "idle"
                             ELSE IF gProtocol = "tcp" THEN "echo" ELSE "post"]
  /\ error = [w \in Workers |-> FALSE]
  /\ bCleanupSocket = [w \in Workers |-> FALSE]
  /\ after = [w \in Workers |-> "finish"]
  /\ posted = 0
  /\ recvs = <<>>
  /\ sends = {}
  /\ completions = {}
  /\ arrived = FirstRecv
  /\ peer = "open"
  /\ echoed = <<>>
  /\ disturbed = FALSE
  /\ ub = FALSE

Goto(t, place) == pc' = [pc EXCEPT ![t] = place]

-----------------------------------------------------------------------------
(***************************************************************************)
(* PostRecv and PostSend up to LeaveCriticalSection.  A sequence number is *)
(* used up whether or not the operation could be posted.                   *)
(***************************************************************************)
CanPost   == s /\ peer # "reset"
MayFail   == ~CanPost \/ PostFails

PostRecv ==
  /\ IoCountIssued' = IoCountIssued + 1
  /\ CanPost
  /\ recvs' = Append(recvs, IoCountIssued)

PostRecvFails ==
  /\ IoCountIssued' = IoCountIssued + 1
  /\ MayFail
  /\ disturbed' = TRUE

PostSend(data) ==
  /\ LastSendIssued' = LastSendIssued + 1
  /\ CanPost
  /\ sends' = sends \cup {data}
  /\ echoed' = Append(echoed, data)

PostSendFails ==
  /\ LastSendIssued' = LastSendIssued + 1
  /\ MayFail
  /\ disturbed' = TRUE

\* The InterlockedIncrement at the end of both.
CountOperation == OutstandingOps' = OutstandingOps + 1

\* Poster enters the critical section for each post only.
PosterAt(place) == ~ub /\ ~freed /\ pc[Poster] = place

-----------------------------------------------------------------------------
(***************************************************************************)
(* HandleIo for a completed accept: echo the data that came with it, then  *)
(* post the receives; main for UDP only posts receives, and ignores a      *)
(* failure.                                                                *)
(***************************************************************************)
EchoAcceptData ==
  /\ PosterAt("echo") /\ SockCritSec = NoThread
  /\ \/ /\ PostSend(0)
        /\ Goto(Poster, "countecho")
        /\ UNCHANGED disturbed
     \/ /\ PostSendFails
        /\ Goto(Poster, "giveup")
        /\ UNCHANGED <<sends, echoed>>
  /\ UNCHANGED <<gProtocol, s, bClosing, OutstandingOps, IoCountIssued,
                 OutOfOrderSends, SockCritSec, freed, locals, recvs,
                 completions, arrived, peer, ub>>

NextPost(i) == IF i < gOverlappedCount THEN "post" ELSE "done"

PostFirstRecvs ==
  /\ PosterAt("post") /\ SockCritSec = NoThread
  /\ posted' = posted + 1
  /\ \/ /\ PostRecv
        /\ Goto(Poster, "countpost")
        /\ UNCHANGED disturbed
     \/ /\ PostRecvFails
        /\ Goto(Poster, IF gProtocol = "tcp" THEN "giveup"
                                              ELSE NextPost(posted'))
        /\ UNCHANGED recvs
  /\ UNCHANGED <<gProtocol, s, bClosing, OutstandingOps, LastSendIssued,
                 OutOfOrderSends, SockCritSec, freed, error, bCleanupSocket,
                 after, sends, completions, arrived, peer, echoed, ub>>

CountFirst ==
  /\ PosterAt("countecho") \/ PosterAt("countpost")
  /\ CountOperation
  /\ Goto(Poster, NextPost(posted))
  /\ UNCHANGED <<gProtocol, s, bClosing, LastSendIssued, IoCountIssued,
                 OutOfOrderSends, SockCritSec, freed, locals, stack, echoed,
                 disturbed, ub>>

\* A post failed: nothing outstanding, and the object goes; else it is closing.
GiveUp ==
  /\ PosterAt("giveup")
  /\ IF OutstandingOps = 0
     THEN s' = FALSE /\ freed' = TRUE /\ UNCHANGED bClosing
     ELSE bClosing' = TRUE /\ UNCHANGED <<s, freed>>
  /\ Goto(Poster, "done")
  /\ UNCHANGED <<gProtocol, OutstandingOps, LastSendIssued, IoCountIssued,
                 OutOfOrderSends, SockCritSec, locals, stack, echoed,
                 disturbed, ub>>

-----------------------------------------------------------------------------
(***************************************************************************)
(* CompletionThread.  A worker takes a completion when it goes on with it: *)
(* waiting for the critical section with a completion in hand and leaving  *)
(* it in the port are the same to everybody else.                          *)
(***************************************************************************)
WorkerAt(w, place) == ~ub /\ ~freed /\ pc[w] = place

GetQueuedCompletionStatus(w, c) ==
  /\ WorkerAt(w, "idle") /\ c \in completions
  /\ completions' = completions \ {c}

\* HandleIo leaves the critical section; its locals are dead but for cleanup.
LeaveCriticalSection(w, cleanup) ==
  /\ SockCritSec' = NoThread
  /\ Goto(w, IF cleanup THEN "close" ELSE "idle")
  /\ error' = [error EXCEPT ![w] = FALSE]
  /\ bCleanupSocket' = [bCleanupSocket EXCEPT ![w] = FALSE]
  /\ after' = [after EXCEPT ![w] = "finish"]

\* HandleIo of a failed TCP operation stays out of the critical section.
DropFailed(w, c) ==
  /\ GetQueuedCompletionStatus(w, c)
  /\ c.result = "error" /\ gProtocol = "tcp"
  /\ OutstandingOps' = OutstandingOps - 1
  /\ Goto(w, IF OutstandingOps' = 0 THEN "free" ELSE "idle")
  /\ UNCHANGED <<gProtocol, s, bClosing, LastSendIssued, IoCountIssued,
                 OutOfOrderSends, SockCritSec, freed, locals, recvs, sends,
                 arrived, peer, echoed, disturbed, ub>>

\* FreeSocketObj looks at OutstandingOps again.
FreeSocketObj(w) ==
  /\ WorkerAt(w, "free")
  /\ IF OutstandingOps = 0 THEN s' = FALSE /\ freed' = TRUE
                           ELSE UNCHANGED <<s, freed>>
  /\ Goto(w, "idle")
  /\ UNCHANGED <<gProtocol, bClosing, OutstandingOps, LastSendIssued,
                 IoCountIssued, OutOfOrderSends, SockCritSec, locals, stack,
                 echoed, disturbed, ub>>

(***************************************************************************)
(* InsertPendingSend: before the first entry of a higher number.           *)
(***************************************************************************)
Dangling == [order |-> 0, data |-> -1] \* an entry whose BUFFER_OBJ was freed

InsertAtTail(list, e) == Append(list, e) \* mutant: not sorted

InsertPendingSend(list, e) ==
  LET higher == {i \in DOMAIN list : list[i].order > e.order}
      k == CHOOSE i \in higher \cup {Len(list) + 1} : \A j \in higher : i <= j
  IN [i \in 1 .. Len(list) + 1 |->
        IF i < k THEN list[i] ELSE IF i = k THEN e ELSE list[i - 1]]

HasDangling == \E i \in DOMAIN OutOfOrderSends : OutOfOrderSends[i] = Dangling

\* HandleIo of any other enters the critical section and looks what completed.
HandleIo(w, c) ==
  /\ GetQueuedCompletionStatus(w, c)
  /\ c.result # "error" \/ gProtocol = "udp"
  /\ SockCritSec = NoThread /\ (c.result = "data" => ~HasDangling)
  /\ SockCritSec' = w
  /\ error' = [error EXCEPT ![w] = c.result = "error"]
  /\ OutOfOrderSends' =
       IF c.result = "data"
       THEN InsertPendingSend(OutOfOrderSends,
                              [order |-> c.order, data |-> c.data])
       ELSE OutOfOrderSends
  /\ bClosing' = (bClosing \/ c.result = "zero")
  /\ after' = [after EXCEPT ![w] = CASE c.op = "write" -> "finish"
                                     [] c.result = "zero" -> "zero"
                                     [] OTHER -> "recv"]
  /\ Goto(w, IF c.op = "read" /\ c.result = "error" THEN "recv" ELSE "sends")
  /\ UNCHANGED <<gProtocol, s, OutstandingOps, LastSendIssued, IoCountIssued,
                 freed, bCleanupSocket, posted, recvs, sends, arrived, peer,
                 echoed, disturbed, ub>>

-----------------------------------------------------------------------------
\* DoSends: the loop's condition.
NextIsReadyAny == OutOfOrderSends # <<>> \* mutant: the number is not looked at

NextIsReady ==
  OutOfOrderSends # <<>> /\ Head(OutOfOrderSends).order = LastSendIssued

DoSendsPost(w) ==
  /\ WorkerAt(w, "sends") /\ NextIsReady /\ Head(OutOfOrderSends) # Dangling
  /\ PostSend(Head(OutOfOrderSends).data)
  /\ Goto(w, "sent")
  /\ UNCHANGED <<gProtocol, s, bClosing, OutstandingOps, IoCountIssued,
                 OutOfOrderSends, SockCritSec, freed, locals, recvs,
                 completions, arrived, peer, disturbed, ub>>

DoSendsCount(w) ==
  /\ WorkerAt(w, "sent")
  /\ CountOperation
  /\ OutOfOrderSends' = Tail(OutOfOrderSends)
  /\ Goto(w, "sends")
  /\ UNCHANGED <<gProtocol, s, bClosing, LastSendIssued, IoCountIssued,
                 SockCritSec, freed, locals, stack, echoed, disturbed, ub>>

\* No entry, or a gap: DoSends returns NO_ERROR.
DoSendsReturn(w) ==
  /\ WorkerAt(w, "sends") /\ ~NextIsReady
  /\ OutOfOrderSends # <<>> => Head(OutOfOrderSends) # Dangling
  /\ IF after[w] = "leave"
     THEN LeaveCriticalSection(w, bCleanupSocket[w])
     ELSE /\ Goto(w, after[w])
          /\ UNCHANGED <<SockCritSec, error, bCleanupSocket, after>>
  /\ UNCHANGED <<gProtocol, s, bClosing, OutstandingOps, LastSendIssued,
                 IoCountIssued, OutOfOrderSends, freed, posted, stack, echoed,
                 disturbed, ub>>

(***************************************************************************)
(* PostSend fails: the buffer is freed and stays at the head of the list.  *)
(* After a receive the new receive is not posted.                          *)
(***************************************************************************)
DoSendsFail(w) ==
  /\ WorkerAt(w, "sends") /\ NextIsReady /\ Head(OutOfOrderSends) # Dangling
  /\ PostSendFails
  /\ OutOfOrderSends' = <<Dangling>> \o Tail(OutOfOrderSends)
  /\ IF after[w] = "leave"
     THEN LeaveCriticalSection(w, TRUE)
     ELSE /\ error' = [error EXCEPT ![w] = TRUE]
          /\ Goto(w, IF after[w] = "recv" THEN "finish" ELSE after[w])
          /\ UNCHANGED <<SockCritSec, bCleanupSocket, after>>
  /\ UNCHANGED <<gProtocol, s, bClosing, OutstandingOps, IoCountIssued, freed,
                 posted, stack, echoed, ub>>

-----------------------------------------------------------------------------
\* A receive that brought data, and a failed one of UDP, is posted again.
RepostRecv(w) ==
  /\ WorkerAt(w, "recv")
  /\ \/ /\ PostRecv
        /\ Goto(w, "count")
        /\ UNCHANGED <<error, disturbed>>
     \/ /\ PostRecvFails
        /\ error' = [error EXCEPT ![w] = TRUE]
        /\ Goto(w, "finish")
        /\ UNCHANGED recvs
  /\ UNCHANGED <<gProtocol, s, bClosing, OutstandingOps, LastSendIssued,
                 OutOfOrderSends, SockCritSec, freed, bCleanupSocket, after,
                 posted, sends, completions, arrived, peer, echoed, ub>>

CountRecv(w) ==
  /\ WorkerAt(w, "count")
  /\ CountOperation
  /\ Goto(w, "finish")
  /\ UNCHANGED <<gProtocol, s, bClosing, LastSendIssued, IoCountIssued,
                 OutOfOrderSends, SockCritSec, freed, locals, stack, echoed,
                 disturbed, ub>>

\* A receive of zero bytes: "last outstanding operation on socket"?
ZeroByteReceive(w) ==
  /\ WorkerAt(w, "zero")
  /\ bCleanupSocket' = [bCleanupSocket EXCEPT ![w] =
                          OutstandingOps = 0 /\ OutOfOrderSends = <<>>]
  /\ Goto(w, "finish")
  /\ UNCHANGED <<gProtocol, sockobj, error, after, posted, stack, echoed,
                 disturbed, ub>>

CheckClosingEarly(w) == \* mutant: whatever is outstanding is not waited for
  /\ WorkerAt(w, "finish")
  /\ bClosing' = (bClosing \/ error[w])
  /\ OutstandingOps' = OutstandingOps - 1
  /\ IF bClosing' /\ OutOfOrderSends = <<>>
     THEN LeaveCriticalSection(w, TRUE)
     ELSE /\ Goto(w, "sends")
          /\ after' = [after EXCEPT ![w] = "leave"]
          /\ UNCHANGED <<SockCritSec, error, bCleanupSocket>>
  /\ UNCHANGED <<gProtocol, s, LastSendIssued, IoCountIssued, OutOfOrderSends,
                 freed, posted, stack, echoed, disturbed, ub>>

\* "Check to see if socket is closing"; if not, DoSends once more.
CheckClosing(w) ==
  /\ WorkerAt(w, "finish")
  /\ bClosing' = (bClosing \/ error[w])
  /\ OutstandingOps' = OutstandingOps - 1
  /\ IF OutstandingOps' = 0 /\ bClosing' /\ OutOfOrderSends = <<>>
     THEN LeaveCriticalSection(w, TRUE)
     ELSE /\ Goto(w, "sends")
          /\ after' = [after EXCEPT ![w] = "leave"]
          /\ UNCHANGED <<SockCritSec, error, bCleanupSocket>>
  /\ UNCHANGED <<gProtocol, s, LastSendIssued, IoCountIssued, OutOfOrderSends,
                 freed, posted, stack, echoed, disturbed, ub>>

CloseSocket(w) ==
  /\ WorkerAt(w, "close")
  /\ s' = FALSE
  /\ Goto(w, "free")
  /\ UNCHANGED <<gProtocol, bClosing, OutstandingOps, LastSendIssued,
                 IoCountIssued, OutOfOrderSends, SockCritSec, freed, locals,
                 stack, echoed, disturbed, ub>>

\* A thread goes on with a SOCKET_OBJ, or with a list entry, that was freed.
UseAfterFree(t) ==
  /\ ~ub
  /\ \/ freed /\ pc[t] \notin {"idle", "done"}
     \/ freed /\ pc[t] = "idle" /\ completions # {}
     \/ /\ pc[t] = "idle" /\ SockCritSec = NoThread /\ HasDangling
        /\ \E c \in completions : c.result = "data"
     \/ pc[t] = "sends" /\ OutOfOrderSends # <<>>
          /\ Head(OutOfOrderSends) = Dangling
  /\ ub' = TRUE
  /\ UNCHANGED <<gProtocol, sockobj, pc, locals, stack, echoed, disturbed>>

-----------------------------------------------------------------------------
(***************************************************************************)
(* External: the stack.  Receives are filled in the order of their posts.  *)
(***************************************************************************)
Complete(kind, order, data, result) ==
  completions' = completions \cup
    {[op |-> kind, order |-> order, data |-> data, result |-> result]}

DataArrives ==
  /\ ~ub /\ s /\ peer = "open" /\ recvs # <<>>
  /\ arrived < FirstRecv + MaxData
  /\ Complete("read", Head(recvs), arrived, "data")
  /\ arrived' = arrived + 1
  /\ recvs' = Tail(recvs)
  /\ UNCHANGED <<gProtocol, sockobj, pc, locals, sends, peer, echoed,
                 disturbed, ub>>

ReceiveEnds ==
  /\ ~ub /\ recvs # <<>> /\ (peer # "open" \/ ~s)
  /\ Complete("read", Head(recvs), 0,
              IF peer = "closed" /\ s THEN "zero" ELSE "error")
  /\ recvs' = Tail(recvs)
  /\ UNCHANGED <<gProtocol, sockobj, pc, locals, sends, arrived, peer, echoed,
                 disturbed, ub>>

ReceiveFails ==
  /\ ~ub /\ RecvErrors /\ gProtocol = "udp" /\ s /\ recvs # <<>>
  /\ IoCountIssued < MaxData + gOverlappedCount  \* bound
  /\ Complete("read", Head(recvs), 0, "error")
  /\ recvs' = Tail(recvs)
  /\ disturbed' = TRUE
  /\ UNCHANGED <<gProtocol, sockobj, pc, locals, sends, arrived, peer, echoed,
                 ub>>

SendCompletes ==
  /\ ~ub
  /\ \E d \in sends :
       /\ sends' = sends \ {d}
       /\ Complete("write", 0, d, IF peer = "reset" \/ ~s THEN "error"
                                                          ELSE "sent")
  /\ UNCHANGED <<gProtocol, sockobj, pc, locals, recvs, arrived, peer, echoed,
                 disturbed, ub>>

PeerCloses ==
  /\ ~ub /\ gProtocol = "tcp" /\ peer = "open"
  /\ EarlyClose \/ pc[Poster] = "done"
  /\ peer' = "closed"
  /\ disturbed' = (disturbed \/ pc[Poster] # "done")
  /\ UNCHANGED <<gProtocol, sockobj, pc, locals, recvs, sends, completions,
                 arrived, echoed, ub>>

PeerResets ==
  /\ ~ub /\ Resets /\ gProtocol = "tcp" /\ peer # "reset"
  /\ peer' = "reset"
  /\ disturbed' = TRUE
  /\ UNCHANGED <<gProtocol, sockobj, pc, locals, recvs, sends, completions,
                 arrived, echoed, ub>>

-----------------------------------------------------------------------------
FirstPosts ==
  EchoAcceptData \/ PostFirstRecvs \/ CountFirst \/ GiveUp

CompletionThread(w) ==
  \/ \E c \in completions : DropFailed(w, c) \/ HandleIo(w, c)
  \/ FreeSocketObj(w) \/ DoSendsPost(w) \/ DoSendsCount(w) \/ DoSendsReturn(w)
  \/ DoSendsFail(w) \/ RepostRecv(w) \/ CountRecv(w) \/ ZeroByteReceive(w)
  \/ CheckClosing(w) \/ CloseSocket(w)

Next ==
  \/ FirstPosts
  \/ \E w \in Workers : CompletionThread(w)
  \/ \E t \in Threads : UseAfterFree(t)
  \/ DataArrives \/ ReceiveEnds \/ ReceiveFails \/ SendCompletes
  \/ PeerCloses \/ PeerResets

(***************************************************************************)
(* Threads that can run do, and what the stack has to complete completes;  *)
(* no data need arrive, and no peer need go.                               *)
(***************************************************************************)
Fairness ==
  /\ WF_vars(FirstPosts)
  /\ \A w \in Workers : WF_vars(CompletionThread(w))
  /\ WF_vars(ReceiveEnds)
  /\ WF_vars(SendCompletes)

Spec == Init /\ [][Next]_vars /\ Fairness

-----------------------------------------------------------------------------
(***************************************************************************)
(* Types.  A worker is in HandleIo's critical section or out of it.        *)
(***************************************************************************)
Posting == {"echo", "countecho", "post", "countpost", "giveup", "done"}
Inside  == {"sends", "sent", "recv", "count", "zero", "finish"}
Outside == {"idle", "close", "free"}
Entries == [order : Nat, data : Nat] \cup {Dangling}

TypeOK ==
  /\ gProtocol \in Protocols
  /\ s \in BOOLEAN /\ bClosing \in BOOLEAN /\ freed \in BOOLEAN
  /\ OutstandingOps \in Int
  /\ LastSendIssued \in Nat /\ IoCountIssued \in Nat
  /\ OutOfOrderSends \in Seq(Entries)
  /\ SockCritSec \in Workers \cup {NoThread}
  /\ pc \in [Threads -> Posting \cup Inside \cup Outside]
  /\ pc[Poster] \in Posting
  /\ \A w \in Workers : pc[w] \in Inside \cup Outside
  /\ \A w \in Workers : SockCritSec = w <=> pc[w] \in Inside
  /\ error \in [Workers -> BOOLEAN]
  /\ bCleanupSocket \in [Workers -> BOOLEAN]
  /\ after \in [Workers -> {"recv", "zero", "finish", "leave"}]
  /\ posted \in 0 .. gOverlappedCount
  /\ pc[Poster] = "post" => posted < gOverlappedCount
  /\ recvs \in Seq(Nat)
  /\ sends \subseteq Nat
  /\ completions \subseteq Completion
  /\ arrived \in Nat
  /\ peer \in {"open", "closed", "reset"}
  /\ echoed \in Seq(Nat)
  /\ disturbed \in BOOLEAN /\ ub \in BOOLEAN

(***************************************************************************)
(* "To preserve the order of data echoed back": whatever order the         *)
(* completions are handled in, and whatever fails, what has been sent is   *)
(* the beginning of what was received, nothing left out.                   *)
(***************************************************************************)
EchoInOrder == \A i \in DOMAIN echoed : echoed[i] = i - 1

(***************************************************************************)
(* OutstandingOps is exactly the number of operations that are posted and  *)
(* whose handlers have not yet lowered it, less those a thread has posted  *)
(* and not yet counted.                                                    *)
(***************************************************************************)
Uncounted ==
  {w \in Workers : pc[w] \in {"sent", "count"}}
    \cup {t \in {Poster} : pc[t] \in {"countecho", "countpost"}}

Undecided ==
  {w \in Workers : \/ pc[w] \in {"recv", "count", "zero", "finish"}
                   \/ pc[w] \in {"sends", "sent"} /\ after[w] # "leave"}

OperationsCounted ==
  OutstandingOps + Cardinality(Uncounted)
    = Len(recvs) + Cardinality(sends) + Cardinality(completions)
        + Cardinality(Undecided)

(***************************************************************************)
(* Unless a post failed or the peer reset the connection or closed it      *)
(* before the receives were posted, no thread touches a freed object.      *)
(***************************************************************************)
NoUseAfterFree == disturbed \/ ~ub

(***************************************************************************)
(* OutstandingOps counts what will still be handled, so that nothing freed *)
(* is used.                                                                *)
(***************************************************************************)
LifetimeInvariant == TypeOK /\ OperationsCounted /\ NoUseAfterFree

(***************************************************************************)
(* "Once data is received on a client socket, it is echoed back": a        *)
(* completion that was handled too early to be echoed is not forgotten     *)
(* when the gap closes.                                                    *)
(***************************************************************************)
IsEchoed(d) == \E i \in DOMAIN echoed : echoed[i] = d

DataIsEchoed ==
  \A d \in 0 .. MaxData : d < arrived ~> IsEchoed(d) \/ disturbed

(***************************************************************************)
(* A connection the peer has closed is closed and its object freed, once   *)
(* the last of the overlapped operations is handled.                       *)
(***************************************************************************)
ClosedIsFreed == peer = "closed" ~> freed \/ disturbed

(***************************************************************************)
(* A connection gets all of its data back and is freed when it ends.       *)
(***************************************************************************)
ConnectionServed == DataIsEchoed /\ ClosedIsFreed

-----------------------------------------------------------------------------
(***************************************************************************)
(* iocpserver.cpp: "see if there are any more outstanding operations. If   *)
(* so we must wait until they are complete as well".  An operation that is *)
(* posted and not yet counted is not waited for.                           *)
(***************************************************************************)
FreedWhenComplete ==
  freed => Uncounted = {} /\ recvs = <<>> /\ sends = {} /\ completions = {}

(***************************************************************************)
(* iocpserver.cpp on UDP: "Once these receives complete, the data is sent  *)
(* back to the receiver", and a receive that fails is to be ignored.  Its  *)
(* sequence number is never filled, and DoSends waits for it for ever.     *)
(***************************************************************************)
DatagramIsEchoed ==
  \A d \in 0 .. MaxData :
    gProtocol = "udp" /\ d < arrived ~> IsEchoed(d) \/ freed \/ ub
=============================================================================
