--------------------------- MODULE IocpEchoProofs ---------------------------
(***************************************************************************)
(* Proofs about IocpEcho, for any number of workers, receives and data and *)
(* whatever fails: the order of the echoes, and the life of a SOCKET_OBJ.  *)
(***************************************************************************)
EXTENDS IocpEcho, FiniteSetTheorems, WellFoundedInduction, TLAPS

\* A number that is listed, and the places of those that still are to be sent.
Listed(i) == OutOfOrderSends[i] # Dangling
IsSent    == \E w \in Workers : pc[w] = "sent"
Unsent    == {i \in 1 .. Len(OutOfOrderSends) : Listed(i) /\ (i = 1 => ~IsSent)}

(***************************************************************************)
(* A sequence number is in one place only: a posted receive, a completion, *)
(* or the list; and what is still to be sent is not below LastSendIssued.  *)
(***************************************************************************)
ReceivesOrdered ==
  /\ LastSendIssued <= IoCountIssued /\ FirstRecv <= IoCountIssued
  /\ \A i \in 1 .. Len(recvs) :
       /\ LastSendIssued <= recvs[i] /\ FirstRecv <= recvs[i] /\ recvs[i] < IoCountIssued
       /\ \A j \in 1 .. Len(recvs) : j < i => recvs[j] < recvs[i]

CompletionsOrdered ==
  \A c \in completions :
    /\ c.result \in {"data", "zero"} => c.op = "read"
    /\ c.op = "read" =>
         /\ FirstRecv <= c.order /\ c.order < IoCountIssued
         /\ \A i \in 1 .. Len(recvs) : recvs[i] # c.order
         /\ \A d \in completions : d.op = "read" /\ d.order = c.order => d = c
    /\ c.result = "data" => LastSendIssued <= c.order

ListOrdered ==
  /\ \A i \in 1 .. Len(OutOfOrderSends) : Listed(i) =>
       /\ FirstRecv <= OutOfOrderSends[i].order /\ OutOfOrderSends[i].order < IoCountIssued
       /\ \A j \in 1 .. Len(recvs) : recvs[j] # OutOfOrderSends[i].order
       /\ \A c \in completions : c.op = "read" => c.order # OutOfOrderSends[i].order
       /\ \A j \in 1 .. Len(OutOfOrderSends) :
            Listed(j) /\ OutOfOrderSends[j].order = OutOfOrderSends[i].order => i = j
  /\ \A i \in Unsent : LastSendIssued <= OutOfOrderSends[i].order
  /\ \A i \in 1 .. Len(OutOfOrderSends) : ~Listed(i) => i = 1
  /\ IsSent => /\ OutOfOrderSends # <<>> /\ Listed(1)
               /\ OutOfOrderSends[1].order + 1 = LastSendIssued

(***************************************************************************)
(* A number that no data will come for, and which DoSends waits for.  The  *)
(* data of the numbers below the first of them were received in order.     *)
(***************************************************************************)
Lost(k) ==
  /\ LastSendIssued <= k /\ FirstRecv <= k /\ k < IoCountIssued
  /\ \A i \in 1 .. Len(recvs) : recvs[i] # k
  /\ \A c \in completions : c.result = "data" => c.order # k
  /\ \A i \in 1 .. Len(OutOfOrderSends) : Listed(i) => OutOfOrderSends[i].order # k

Behind(n) == \E k \in 0 .. n-1 : Lost(k)

DataFollows ==
  /\ \A i \in 1 .. Len(recvs) : recvs[i] = arrived + i - 1 \/ Behind(recvs[i])
  /\ IoCountIssued = arrived + Len(recvs) \/ Behind(IoCountIssued)
  /\ \A c \in completions : c.result = "data" => c.data = c.order \/ Behind(c.order)
  /\ \A i \in Unsent : \/ OutOfOrderSends[i].data = OutOfOrderSends[i].order
                       \/ Behind(OutOfOrderSends[i].order)

Ordered == ReceivesOrdered /\ CompletionsOrdered /\ ListOrdered /\ DataFollows

\* A socket nothing was posted on.
Untouched ==
  /\ gProtocol = "tcp" /\ IoCountIssued = 1 /\ OutOfOrderSends = <<>>
  /\ recvs = <<>> /\ sends = {} /\ completions = {} /\ echoed = <<>>
  /\ \A w \in Workers : pc[w] = "idle"

(***************************************************************************)
(* LastSendIssued sends have been posted, until one fails: then the freed  *)
(* buffer at the head of the list is in the way of all others.             *)
(***************************************************************************)
SendsFollow ==
  /\ \/ Len(echoed) = LastSendIssued
     \/ OutOfOrderSends # <<>> /\ ~Listed(1)
     \/ Untouched /\ LastSendIssued = 1 /\ pc[Poster] \in {"giveup", "done"}
  /\ pc[Poster] = "echo" => Untouched /\ LastSendIssued = 0
  /\ EchoInOrder

OrderInv == TypeOK /\ Ordered /\ SendsFollow

-----------------------------------------------------------------------------
\* r is list with e put in at place p.
Inserted(r, list, e, p) ==
  /\ p \in 1 .. Len(list) + 1 /\ Len(r) = Len(list) + 1 /\ r[p] = e
  /\ \A i \in 1 .. p - 1 : i \in 1 .. Len(list) /\ r[i] = list[i]
  /\ \A i \in p + 1 .. Len(list) + 1 : i - 1 \in 1 .. Len(list) /\ r[i] = list[i - 1]

LEMMA InsertedFrom ==
  ASSUME NEW list, NEW r, NEW e, NEW p \in Nat, Len(list) \in Nat, Inserted(r, list, e, p),
         NEW i \in 1 .. Len(r), i # p
  PROVE  \E g \in 1 .. Len(list) : r[i] = list[g] /\ ((i < p /\ g = i) \/ (i > p /\ g = i - 1))
<1>1. CASE i \in 1 .. p - 1
  BY <1>1 DEF Inserted
<1>2. CASE i \in p + 1 .. Len(list) + 1
  <2>1. i - 1 \in 1 .. Len(list) /\ r[i] = list[i - 1] /\ i > p
    BY <1>2 DEF Inserted
  <2>2. QED
    BY <2>1
<1>3. QED
  BY <1>1, <1>2 DEF Inserted

LEMMA InsertPendingSendPlace ==
  ASSUME NEW S, NEW list \in Seq(S), NEW e \in S
  PROVE  /\ InsertPendingSend(list, e) \in Seq(S)
         /\ \E p \in Nat : Inserted(InsertPendingSend(list, e), list, e, p)
<1> DEFINE higher == {i \in DOMAIN list : list[i].order > e.order}
           places == higher \cup {Len(list) + 1}
           k == CHOOSE i \in places : \A j \in higher : i <= j
           r == [i \in 1 .. Len(list) + 1 |->
                   IF i < k THEN list[i] ELSE IF i = k THEN e ELSE list[i - 1]]
<1>1. places \subseteq 1 .. Len(list) + 1 /\ places \subseteq Nat /\ places # {} /\ Len(list) \in Nat
  OBVIOUS
<1>2. \E i \in places : \A j \in places : ~ (<<j, i>> \in OpToRel(<, Nat))
  <2> DEFINE less == OpToRel(<, Nat)
  <2>1. IsWellFoundedOn(less, Nat)
    BY NatLessThanWellFounded
  <2> HIDE DEF less, k, higher
  <2> DEFINE p == places
  <2>2. p \subseteq Nat /\ p # {}
    BY <1>1
  <2> HIDE DEF p
  <2>3. \E i \in p : \A j \in p : ~ (<<j, i>> \in less)
    BY <2>1, <2>2, WFMin, Zenon
  <2>4. QED
    BY <2>3 DEF p, less
<1>3. \E i \in places : \A j \in higher : i <= j
  <2>1. PICK i \in places : \A j \in places : ~ (<<j, i>> \in OpToRel(<, Nat))
    BY <1>2
  <2>2. \A j \in places : ~ (j < i)
    BY <1>1, <2>1 DEF OpToRel
  <2>3. QED
    BY <1>1, <2>2
<1>4. k \in places
  BY <1>3
<1>5. k \in 1 .. Len(list) + 1
  BY <1>1, <1>4
<1>6. InsertPendingSend(list, e) = r
  BY DEF InsertPendingSend
<1> HIDE DEF k
<1>7. \A i \in 1 .. Len(list) + 1 : r[i] \in S
  BY <1>1, <1>5
<1>8. r \in Seq(S) /\ Len(r) = Len(list) + 1
  BY <1>1, <1>7
<1>9. /\ r[k] = e
      /\ \A i \in 1 .. k - 1 : i \in 1 .. Len(list) /\ r[i] = list[i]
      /\ \A i \in k + 1 .. Len(list) + 1 : i - 1 \in 1 .. Len(list) /\ r[i] = list[i - 1]
  BY <1>1, <1>5
<1> HIDE DEF r
<1>10. Inserted(r, list, e, k)
  BY <1>5, <1>8, <1>9 DEF Inserted
<1>11. QED
  BY <1>5, <1>6, <1>8, <1>10

(***************************************************************************)
(* The type invariant in two parts, the threads and what they work on.     *)
(***************************************************************************)
ThreadsOK ==
  /\ pc \in [Threads -> Posting \cup Inside \cup Outside]
  /\ pc[Poster] \in Posting
  /\ \A w \in Workers : pc[w] \in Inside \cup Outside
  /\ SockCritSec \in Workers \cup {NoThread}
  /\ \A w \in Workers : SockCritSec = w <=> pc[w] \in Inside
  /\ error \in [Workers -> BOOLEAN]
  /\ bCleanupSocket \in [Workers -> BOOLEAN]
  /\ after \in [Workers -> {"recv", "zero", "finish", "leave"}]
  /\ posted \in 0 .. gOverlappedCount
  /\ pc[Poster] = "post" => posted < gOverlappedCount

DataOK ==
  /\ gProtocol \in Protocols
  /\ s \in BOOLEAN /\ bClosing \in BOOLEAN /\ freed \in BOOLEAN
  /\ OutstandingOps \in Int
  /\ LastSendIssued \in Nat /\ IoCountIssued \in Nat
  /\ OutOfOrderSends \in Seq(Entries)
  /\ recvs \in Seq(Nat)
  /\ sends \subseteq Nat
  /\ completions \subseteq Completion
  /\ arrived \in Nat
  /\ peer \in {"open", "closed", "reset"}
  /\ echoed \in Seq(Nat)
  /\ disturbed \in BOOLEAN /\ ub \in BOOLEAN

LEMMA TypeParts == TypeOK <=> ThreadsOK /\ DataOK
BY DEF TypeOK, ThreadsOK, DataOK

(***************************************************************************)
(* How a worker moves: on in the critical section, or out of it.           *)
(***************************************************************************)
LEMMA StaysInside ==
  ASSUME ThreadsOK, NEW w \in Workers, pc[w] \in Inside, NEW place \in Inside, Goto(w, place),
         UNCHANGED <<SockCritSec, posted>>,
         error' \in [Workers -> BOOLEAN], bCleanupSocket' \in [Workers -> BOOLEAN],
         after' \in [Workers -> {"recv", "zero", "finish", "leave"}]
  PROVE  ThreadsOK'
BY ThreadsAssumption DEF ThreadsOK, Goto, Threads

LEMMA GoesOutside ==
  ASSUME ThreadsOK, NEW w \in Workers, pc[w] \in Inside, NEW cleanup,
         LeaveCriticalSection(w, cleanup), UNCHANGED posted
  PROVE  ThreadsOK'
<1>1. /\ error' \in [Workers -> BOOLEAN] /\ bCleanupSocket' \in [Workers -> BOOLEAN]
      /\ after' \in [Workers -> {"recv", "zero", "finish", "leave"}] /\ SockCritSec' = NoThread
  BY DEF ThreadsOK, LeaveCriticalSection
<1>2. PICK place \in {"idle", "close"} : pc' = [pc EXCEPT ![w] = place]
  BY DEF LeaveCriticalSection, Goto
<1>3. /\ pc' \in [Threads -> Posting \cup Inside \cup Outside]
      /\ pc'[Poster] \in Posting /\ pc'[Poster] = pc[Poster]
      /\ \A v \in Workers : pc'[v] \in Inside \cup Outside
  BY <1>2, ThreadsAssumption DEF ThreadsOK, Threads, Outside
<1>4. \A v \in Workers : pc'[v] \notin Inside /\ v # NoThread
  BY <1>2, ThreadsAssumption DEF ThreadsOK, Threads, Inside
<1>5. QED
  BY <1>1, <1>3, <1>4 DEF ThreadsOK

(***************************************************************************)
(* What becomes of the sequences.                                          *)
(***************************************************************************)
LEMMA Sequences_ ==
  ASSUME DataOK
  PROVE  /\ Append(recvs, IoCountIssued) \in Seq(Nat)
         /\ \A d \in Nat : Append(echoed, d) \in Seq(Nat)
         /\ recvs # <<>> => /\ Head(recvs) \in Nat /\ Tail(recvs) \in Seq(Nat)
         /\ OutOfOrderSends # <<>> =>
              /\ Tail(OutOfOrderSends) \in Seq(Entries)
              /\ <<Dangling>> \o Tail(OutOfOrderSends) \in Seq(Entries)
              /\ Head(OutOfOrderSends) \in Entries
              /\ Head(OutOfOrderSends) # Dangling => Head(OutOfOrderSends).data \in Nat
BY DEF DataOK, Entries, Dangling

LEMMA ThreadsCorrect ==
  ASSUME TypeOK, [Next]_vars
  PROVE  ThreadsOK'
<1> ThreadsOK /\ DataOK
  BY TypeParts
<1> USE ThreadsAssumption, BoundsAssumption
<1>1. CASE EchoAcceptData
  BY <1>1 DEF EchoAcceptData, PosterAt, Goto, locals, ThreadsOK, Threads, Posting, Inside, Outside
<1>2. CASE PostFirstRecvs
  BY <1>2 DEF PostFirstRecvs, PosterAt, NextPost, Goto, locals, ThreadsOK, Threads, Posting, Inside, Outside
<1>3. CASE CountFirst
  BY <1>3 DEF CountFirst, PosterAt, NextPost, Goto, locals, ThreadsOK, Threads, Posting, Inside, Outside
<1>4. CASE GiveUp
  BY <1>4 DEF GiveUp, PosterAt, Goto, locals, ThreadsOK, Threads, Posting, Inside, Outside
<1>5. ASSUME NEW w \in Workers, NEW c \in completions, DropFailed(w, c) PROVE ThreadsOK'
  BY <1>5 DEF DropFailed, WorkerAt, Goto, GetQueuedCompletionStatus, locals, ThreadsOK, Threads, Posting, Inside, Outside
<1>6. ASSUME NEW w \in Workers, NEW c \in completions, HandleIo(w, c) PROVE ThreadsOK'
  BY <1>6 DEF HandleIo, WorkerAt, Goto, GetQueuedCompletionStatus, ThreadsOK, Threads, Posting, Inside, Outside
<1>7. ASSUME NEW w \in Workers, FreeSocketObj(w) PROVE ThreadsOK'
  BY <1>7 DEF FreeSocketObj, WorkerAt, Goto, locals, ThreadsOK, Threads, Posting, Inside, Outside
<1>8. ASSUME NEW w \in Workers, DoSendsPost(w) PROVE ThreadsOK'
  BY <1>8 DEF DoSendsPost, WorkerAt, Goto, locals, ThreadsOK, Threads, Posting, Inside, Outside
<1>9. ASSUME NEW w \in Workers, DoSendsCount(w) PROVE ThreadsOK'
  BY <1>9 DEF DoSendsCount, WorkerAt, Goto, locals, ThreadsOK, Threads, Posting, Inside, Outside
<1>10. ASSUME NEW w \in Workers, DoSendsReturn(w) PROVE ThreadsOK'
  <2>1. pc[w] \in Inside /\ posted' = posted
    BY <1>10 DEF DoSendsReturn, WorkerAt, Inside
  <2>2. CASE after[w] = "leave"
    <3>1. LeaveCriticalSection(w, bCleanupSocket[w])
      BY <1>10, <2>2 DEF DoSendsReturn
    <3>2. QED
      BY <2>1, <3>1, GoesOutside
  <2>3. CASE ~(after[w] = "leave")
    <3> DEFINE place == after[w]
    <3>1. place \in Inside
      BY <1>10, <2>3 DEF DoSendsReturn, ThreadsOK, Inside
    <3>2. /\ Goto(w, place) /\ SockCritSec' = SockCritSec /\ error' \in [Workers -> BOOLEAN]
          /\ bCleanupSocket' \in [Workers -> BOOLEAN]
          /\ after' \in [Workers -> {"recv", "zero", "finish", "leave"}]
      BY <1>10, <2>3 DEF DoSendsReturn, ThreadsOK
    <3> HIDE DEF place
    <3>3. QED
      BY <2>1, <3>1, <3>2, StaysInside
  <2>4. QED
    BY <2>2, <2>3
<1>11. ASSUME NEW w \in Workers, DoSendsFail(w) PROVE ThreadsOK'
  <2>1. pc[w] \in Inside /\ posted' = posted
    BY <1>11 DEF DoSendsFail, WorkerAt, Inside
  <2>2. CASE after[w] = "leave"
    <3>1. LeaveCriticalSection(w, TRUE)
      BY <1>11, <2>2 DEF DoSendsFail
    <3>2. QED
      BY <2>1, <3>1, GoesOutside
  <2>3. CASE ~(after[w] = "leave")
    <3> DEFINE place == IF after[w] = "recv" THEN "finish" ELSE after[w]
    <3>1. place \in Inside
      BY <1>11, <2>3 DEF DoSendsFail, ThreadsOK, Inside
    <3>2. /\ Goto(w, place) /\ SockCritSec' = SockCritSec /\ error' \in [Workers -> BOOLEAN]
          /\ bCleanupSocket' \in [Workers -> BOOLEAN]
          /\ after' \in [Workers -> {"recv", "zero", "finish", "leave"}]
      BY <1>11, <2>3 DEF DoSendsFail, ThreadsOK
    <3> HIDE DEF place
    <3>3. QED
      BY <2>1, <3>1, <3>2, StaysInside
  <2>4. QED
    BY <2>2, <2>3
<1>12. ASSUME NEW w \in Workers, RepostRecv(w) PROVE ThreadsOK'
  BY <1>12 DEF RepostRecv, WorkerAt, Goto, locals, ThreadsOK, Threads, Posting, Inside, Outside
<1>13. ASSUME NEW w \in Workers, CountRecv(w) PROVE ThreadsOK'
  BY <1>13 DEF CountRecv, WorkerAt, Goto, locals, ThreadsOK, Threads, Posting, Inside, Outside
<1>14. ASSUME NEW w \in Workers, ZeroByteReceive(w) PROVE ThreadsOK'
  BY <1>14 DEF ZeroByteReceive, WorkerAt, Goto, sockobj, ThreadsOK, Threads, Posting, Inside, Outside
<1>15. ASSUME NEW w \in Workers, CheckClosing(w) PROVE ThreadsOK'
  <2>1. pc[w] \in Inside /\ posted' = posted
    BY <1>15 DEF CheckClosing, WorkerAt, Inside
  <2>2. CASE OutstandingOps' = 0 /\ bClosing' /\ OutOfOrderSends = <<>>
    <3>1. LeaveCriticalSection(w, TRUE)
      BY <1>15, <2>2 DEF CheckClosing
    <3>2. QED
      BY <2>1, <3>1, GoesOutside
  <2>3. CASE ~(OutstandingOps' = 0 /\ bClosing' /\ OutOfOrderSends = <<>>)
    <3> DEFINE place == "sends"
    <3>1. place \in Inside
      BY <1>15, <2>3 DEF CheckClosing, ThreadsOK, Inside
    <3>2. /\ Goto(w, place) /\ SockCritSec' = SockCritSec /\ error' \in [Workers -> BOOLEAN]
          /\ bCleanupSocket' \in [Workers -> BOOLEAN]
          /\ after' \in [Workers -> {"recv", "zero", "finish", "leave"}]
      BY <1>15, <2>3 DEF CheckClosing, ThreadsOK
    <3> HIDE DEF place
    <3>3. QED
      BY <2>1, <3>1, <3>2, StaysInside
  <2>4. QED
    BY <2>2, <2>3
<1>16. ASSUME NEW w \in Workers, CloseSocket(w) PROVE ThreadsOK'
  BY <1>16 DEF CloseSocket, WorkerAt, Goto, locals, ThreadsOK, Threads, Posting, Inside, Outside
<1>17. ASSUME NEW t \in Threads, UseAfterFree(t) PROVE ThreadsOK'
  BY <1>17 DEF UseAfterFree, locals, sockobj, ThreadsOK, Threads, Posting, Inside, Outside
<1>18. CASE DataArrives
  BY <1>18 DEF DataArrives, locals, sockobj, ThreadsOK, Threads, Posting, Inside, Outside
<1>19. CASE ReceiveEnds
  BY <1>19 DEF ReceiveEnds, locals, sockobj, ThreadsOK, Threads, Posting, Inside, Outside
<1>20. CASE ReceiveFails
  BY <1>20 DEF ReceiveFails, locals, sockobj, ThreadsOK, Threads, Posting, Inside, Outside
<1>21. CASE SendCompletes
  BY <1>21 DEF SendCompletes, locals, sockobj, ThreadsOK, Threads, Posting, Inside, Outside
<1>22. CASE PeerCloses
  BY <1>22 DEF PeerCloses, locals, sockobj, ThreadsOK, Threads, Posting, Inside, Outside
<1>23. CASE PeerResets
  BY <1>23 DEF PeerResets, locals, sockobj, ThreadsOK, Threads, Posting, Inside, Outside
<1>24. CASE UNCHANGED vars
  BY <1>24 DEF vars, locals, sockobj, ThreadsOK, Threads, Posting, Inside, Outside
<1>25. QED
  BY <1>1, <1>2, <1>3, <1>4, <1>5, <1>6, <1>7, <1>8, <1>9, <1>10, <1>11, <1>12, <1>13, <1>14, <1>15, <1>16, <1>17, <1>18, <1>19, <1>20, <1>21, <1>22, <1>23, <1>24 DEF Next, FirstPosts, CompletionThread

LEMMA DataCorrect ==
  ASSUME TypeOK, ListOrdered, [Next]_vars
  PROVE  DataOK'
<1> ThreadsOK /\ DataOK
  BY TypeParts
<1>1. CASE EchoAcceptData
  <2>1. /\ LastSendIssued' = LastSendIssued + 1 /\ sends' \subseteq sends \cup {0}
        /\ (echoed' = echoed \/ echoed' = Append(echoed, 0))
    BY <1>1 DEF EchoAcceptData, PosterAt, PostSend, PostSendFails
  <2>2. sends' \subseteq Nat /\ LastSendIssued' \in Nat
    BY <2>1 DEF DataOK
  <2>3. Append(echoed, 0) \in Seq(Nat) /\ echoed \in Seq(Nat)
    BY Sequences_ DEF DataOK
  <2>4. disturbed' \in BOOLEAN
    BY <1>1 DEF EchoAcceptData, PostSendFails, DataOK
  <2>5. QED
    BY <1>1, <2>1, <2>2, <2>3, <2>4 DEF EchoAcceptData, DataOK, locals
<1>2. CASE PostFirstRecvs
  <2>1. /\ IoCountIssued' = IoCountIssued + 1 /\ (recvs' = recvs \/ recvs' = Append(recvs, IoCountIssued))
       
    BY <1>2 DEF PostFirstRecvs, PosterAt, PostRecv, PostRecvFails
  <2>2. IoCountIssued' \in Nat
    BY <2>1 DEF DataOK
  <2>3. Append(recvs, IoCountIssued) \in Seq(Nat) /\ recvs \in Seq(Nat)
    BY Sequences_ DEF DataOK
  <2>4. disturbed' \in BOOLEAN
    BY <1>2 DEF PostFirstRecvs, PostRecvFails, DataOK
  <2>5. QED
    BY <1>2, <2>1, <2>2, <2>3, <2>4 DEF PostFirstRecvs, DataOK
<1>3. CASE CountFirst
  BY <1>3 DEF CountFirst, PosterAt, CountOperation, DataOK, sockobj, stack
<1>4. CASE GiveUp
  BY <1>4 DEF GiveUp, PosterAt, DataOK, sockobj, stack
<1>5. ASSUME NEW w \in Workers, NEW c \in completions, DropFailed(w, c) PROVE DataOK'
  BY <1>5 DEF DropFailed, GetQueuedCompletionStatus, DataOK, sockobj, stack
<1>6. ASSUME NEW w \in Workers, NEW c \in completions, HandleIo(w, c) PROVE DataOK'
  <2>1. /\ completions' \subseteq Completion /\ bClosing' \in BOOLEAN /\ c \in Completion
    BY <1>6 DEF HandleIo, GetQueuedCompletionStatus, DataOK
  <2>2. OutOfOrderSends' \in Seq(Entries)
    <3>1. [order |-> c.order, data |-> c.data] \in Entries
      BY <2>1 DEF Completion, Entries
    <3>2. InsertPendingSend(OutOfOrderSends, [order |-> c.order, data |-> c.data]) \in Seq(Entries)
      BY <3>1, InsertPendingSendPlace DEF DataOK
    <3>3. QED
      BY <1>6, <3>2 DEF HandleIo, DataOK
  <2>3. QED
    BY <1>6, <2>1, <2>2 DEF HandleIo, DataOK
<1>7. ASSUME NEW w \in Workers, FreeSocketObj(w) PROVE DataOK'
  BY <1>7 DEF FreeSocketObj, DataOK, sockobj, stack
<1>8. ASSUME NEW w \in Workers, DoSendsPost(w) PROVE DataOK'
  <2> DEFINE data == Head(OutOfOrderSends).data
  <2>1. data \in Nat
    BY <1>8, Sequences_ DEF DoSendsPost, NextIsReady
  <2>2. PostSend(data)
    BY <1>8 DEF DoSendsPost
  <2> HIDE DEF data
  <2>3. sends' \subseteq Nat /\ echoed' \in Seq(Nat) /\ LastSendIssued' \in Nat
    BY <2>1, <2>2, Sequences_ DEF PostSend, DataOK
  <2>4. QED
    BY <1>8, <2>3 DEF DoSendsPost, DataOK
<1>9. ASSUME NEW w \in Workers, DoSendsCount(w) PROVE DataOK'
  <2>1. OutOfOrderSends # <<>>
    BY <1>9 DEF DoSendsCount, WorkerAt, ListOrdered, IsSent
  <2>2. OutOfOrderSends' \in Seq(Entries) /\ OutstandingOps' \in Int
    BY <1>9, <2>1, Sequences_ DEF DoSendsCount, CountOperation, DataOK
  <2>3. QED
    BY <1>9, <2>2 DEF DoSendsCount, DataOK, stack
<1>10. ASSUME NEW w \in Workers, DoSendsReturn(w) PROVE DataOK'
  BY <1>10 DEF DoSendsReturn, DataOK, sockobj, stack
<1>11. ASSUME NEW w \in Workers, DoSendsFail(w) PROVE DataOK'
  <2>1. /\ OutOfOrderSends' \in Seq(Entries) /\ LastSendIssued' \in Nat /\ disturbed' \in BOOLEAN
    BY <1>11, Sequences_ DEF DoSendsFail, PostSendFails, NextIsReady, DataOK
  <2>2. QED
    BY <1>11, <2>1 DEF DoSendsFail, DataOK, stack
<1>12. ASSUME NEW w \in Workers, RepostRecv(w) PROVE DataOK'
  <2>1. /\ IoCountIssued' = IoCountIssued + 1 /\ (recvs' = recvs \/ recvs' = Append(recvs, IoCountIssued))
       
    BY <1>12 DEF RepostRecv, PostRecv, PostRecvFails
  <2>2. IoCountIssued' \in Nat
    BY <2>1 DEF DataOK
  <2>3. Append(recvs, IoCountIssued) \in Seq(Nat) /\ recvs \in Seq(Nat)
    BY Sequences_ DEF DataOK
  <2>4. disturbed' \in BOOLEAN
    BY <1>12 DEF RepostRecv, PostRecvFails, DataOK
  <2>5. QED
    BY <1>12, <2>1, <2>2, <2>3, <2>4 DEF RepostRecv, DataOK
<1>13. ASSUME NEW w \in Workers, CountRecv(w) PROVE DataOK'
  BY <1>13 DEF CountRecv, CountOperation, DataOK, sockobj, stack
<1>14. ASSUME NEW w \in Workers, ZeroByteReceive(w) PROVE DataOK'
  BY <1>14 DEF ZeroByteReceive, DataOK, sockobj, stack
<1>15. ASSUME NEW w \in Workers, CheckClosing(w) PROVE DataOK'
  BY <1>15 DEF CheckClosing, DataOK, sockobj, stack
<1>16. ASSUME NEW w \in Workers, CloseSocket(w) PROVE DataOK'
  BY <1>16 DEF CloseSocket, DataOK, sockobj, stack
<1>17. ASSUME NEW t \in Threads, UseAfterFree(t) PROVE DataOK'
  BY <1>17 DEF UseAfterFree, DataOK, sockobj, stack
<1>18. CASE DataArrives
  <2>1. recvs' \in Seq(Nat) /\ completions' \subseteq Completion /\ arrived' \in Nat
    BY <1>18, Sequences_ DEF DataArrives, Complete, Completion, DataOK
  <2>2. QED
    BY <1>18, <2>1 DEF DataArrives, DataOK, sockobj
<1>19. CASE ReceiveEnds
  <2>1. recvs' \in Seq(Nat) /\ completions' \subseteq Completion /\ arrived' \in Nat
    BY <1>19, Sequences_ DEF ReceiveEnds, Complete, Completion, DataOK
  <2>2. QED
    BY <1>19, <2>1 DEF ReceiveEnds, DataOK, sockobj
<1>20. CASE ReceiveFails
  <2>1. recvs' \in Seq(Nat) /\ completions' \subseteq Completion /\ arrived' \in Nat
    BY <1>20, Sequences_ DEF ReceiveFails, Complete, Completion, DataOK
  <2>2. QED
    BY <1>20, <2>1 DEF ReceiveFails, DataOK, sockobj
<1>21. CASE SendCompletes
  BY <1>21 DEF SendCompletes, Complete, Completion, DataOK, sockobj, stack
<1>22. CASE PeerCloses
  BY <1>22 DEF PeerCloses, DataOK, sockobj, stack
<1>23. CASE PeerResets
  BY <1>23 DEF PeerResets, DataOK, sockobj, stack
<1>24. CASE UNCHANGED vars
  BY <1>24 DEF vars, vars, DataOK, sockobj, stack
<1>25. QED
  BY <1>1, <1>2, <1>3, <1>4, <1>5, <1>6, <1>7, <1>8, <1>9, <1>10, <1>11, <1>12, <1>13, <1>14, <1>15, <1>16, <1>17, <1>18, <1>19, <1>20, <1>21, <1>22, <1>23, <1>24 DEF Next, FirstPosts, CompletionThread

LEMMA TypeCorrect ==
  ASSUME TypeOK, ListOrdered, [Next]_vars
  PROVE  TypeOK'
BY ThreadsCorrect, DataCorrect DEF TypeOK, ThreadsOK, DataOK

-----------------------------------------------------------------------------
(***************************************************************************)
(* How the numbers move, and that each move keeps them ordered.            *)
(***************************************************************************)
LEMMA LostStays ==
  ASSUME \A k \in Nat : Lost(k) => Lost(k)'
  PROVE  \A n \in Nat : Behind(n) => Behind(n)'
BY DEF Behind

LEMMA NumberTypes ==
  ASSUME DataOK
  PROVE  /\ LastSendIssued \in Nat /\ IoCountIssued \in Nat /\ arrived \in Nat /\ FirstRecv \in Nat
         /\ Len(recvs) \in Nat /\ Len(OutOfOrderSends) \in Nat
         /\ \A i \in 1 .. Len(recvs) : recvs[i] \in Nat
         /\ \A i \in 1 .. Len(OutOfOrderSends) :
              OutOfOrderSends[i].order \in Nat /\ OutOfOrderSends[i].data \in Int
         /\ \A c \in completions : c.order \in Nat /\ c.data \in Nat
BY DEF DataOK, FirstRecv, Completion, Entries, Dangling

\* Nothing moves; a completion without data may go, one of a send may come.
LEMMA NothingMoves ==
  ASSUME DataOK, Ordered,
         UNCHANGED <<gProtocol, LastSendIssued, IoCountIssued, OutOfOrderSends, recvs, arrived>>,
         IsSent' <=> IsSent,
         \A c \in completions' : c \in completions \/ (c.op = "write" /\ c.result \in {"sent", "error"}),
         \A c \in completions : c.result = "data" => c \in completions'
  PROVE  Ordered'
<1> USE NumberTypes DEF Ordered
<1>a. FirstRecv' = FirstRecv /\ Unsent' = Unsent /\ \A i : Listed(i)' <=> Listed(i)
  BY DEF FirstRecv, Unsent, Listed
<1>1. \A k \in Nat : Lost(k) => Lost(k)'
  BY <1>a DEF Lost
<1>2. \A n \in Nat : Behind(n) => Behind(n)'
  BY <1>1, LostStays
<1>3. ReceivesOrdered'
  BY <1>a DEF ReceivesOrdered
<1>4. CompletionsOrdered'
  BY <1>a DEF CompletionsOrdered
<1>5. ListOrdered'
  BY <1>a DEF ListOrdered
<1>6. DataFollows'
  <2>1. \A c \in completions' : c.result = "data" => c.data = c.order \/ Behind(c.order)'
    BY <1>2 DEF DataFollows
  <2>2. \A i \in Unsent : OutOfOrderSends[i].data = OutOfOrderSends[i].order \/ Behind(OutOfOrderSends[i].order)'
    BY <1>2 DEF DataFollows, Unsent
  <2>3. QED
    BY <1>a, <1>2, <2>1, <2>2 DEF DataFollows
<1>7. QED
  BY <1>3, <1>4, <1>5, <1>6

\* PostRecv.
LEMMA ReceiveIsPosted ==
  ASSUME DataOK, Ordered,
         UNCHANGED <<gProtocol, LastSendIssued, OutOfOrderSends, completions, arrived>>,
         IsSent' <=> IsSent, IoCountIssued' = IoCountIssued + 1,
         recvs' = Append(recvs, IoCountIssued)
  PROVE  Ordered'
<1>0. /\ Len(recvs') = Len(recvs) + 1
      /\ \A i \in 1 .. Len(recvs) : recvs'[i] = recvs[i]
      /\ recvs'[Len(recvs) + 1] = IoCountIssued
  BY DEF DataOK
<1> USE NumberTypes, <1>0 DEF Ordered
<1>a. FirstRecv' = FirstRecv /\ Unsent' = Unsent /\ \A i : Listed(i)' <=> Listed(i)
  BY DEF FirstRecv, Unsent, Listed
<1>1. \A k \in Nat : Lost(k) => Lost(k)'
  BY <1>a DEF Lost
<1>2. \A n \in Nat : Behind(n) => Behind(n)'
  BY <1>1, LostStays
<1>3. ReceivesOrdered'
  BY <1>a DEF ReceivesOrdered
<1>4. CompletionsOrdered'
  BY <1>a DEF CompletionsOrdered
<1>5. ListOrdered'
  <2>1. \A i \in 1 .. Len(OutOfOrderSends) : Listed(i) =>
             /\ FirstRecv <= OutOfOrderSends[i].order
             /\ OutOfOrderSends[i].order \in Nat /\ OutOfOrderSends[i].order < IoCountIssued
    BY DEF ListOrdered, DataOK, Entries, Listed
  <2>2. \A i \in 1 .. Len(OutOfOrderSends) : Listed(i) =>
             \A j \in 1 .. Len(recvs') : recvs'[j] # OutOfOrderSends[i].order
    BY <2>1 DEF ListOrdered, DataOK
  <2>3. QED
    BY <1>a, <2>1, <2>2 DEF ListOrdered
<1>6. DataFollows'
  <2>1. \A c \in completions : c.result = "data" => c.data = c.order \/ Behind(c.order)'
    BY <1>2 DEF DataFollows
  <2>2. \A i \in Unsent : OutOfOrderSends[i].data = OutOfOrderSends[i].order \/ Behind(OutOfOrderSends[i].order)'
    BY <1>2 DEF DataFollows, Unsent
  <2>3. PICK n \in Nat : n = IoCountIssued
    OBVIOUS
  <2>4. n = arrived + Len(recvs) \/ Behind(n)'
    BY <1>2, <2>3 DEF DataFollows
  <2>5. Behind(n)' => Behind(IoCountIssued)'
    BY <2>3 DEF Behind
  <2>6. recvs'[Len(recvs) + 1] = arrived + Len(recvs) \/ Behind(n)'
    BY <2>3, <2>4
  <2>7. \A i \in 1 .. Len(recvs') : recvs'[i] = arrived + i - 1 \/ Behind(recvs[i])'
    <3>1. TAKE i \in 1 .. Len(recvs')
    <3>2. CASE i = Len(recvs) + 1
      BY <2>3, <2>6, <3>2
    <3>3. CASE i \in 1 .. Len(recvs)
      BY <1>2, <3>3 DEF DataFollows
    <3>4. QED
      BY <3>2, <3>3
  <2>8. IoCountIssued' = arrived + Len(recvs') \/ Behind(IoCountIssued)'
    <3>1. CASE n = arrived + Len(recvs)
      BY <2>3, <3>1
    <3>2. CASE Behind(n)'
      BY <2>5, <3>2, Zenon
    <3>3. QED
      BY <2>4, <3>1, <3>2
  <2>9. QED
    BY <1>a, <2>1, <2>2, <2>7, <2>8 DEF DataFollows
<1>7. QED
  BY <1>3, <1>4, <1>5, <1>6

\* PostRecv that fails: its number is lost.
LEMMA ReceiveIsNotPosted ==
  ASSUME DataOK, Ordered,
         UNCHANGED <<gProtocol, LastSendIssued, OutOfOrderSends, completions, arrived, recvs>>,
         IsSent' <=> IsSent, IoCountIssued' = IoCountIssued + 1
  PROVE  Ordered'
<1> USE NumberTypes DEF Ordered
<1>a. FirstRecv' = FirstRecv /\ Unsent' = Unsent /\ \A i : Listed(i)' <=> Listed(i)
  BY DEF FirstRecv, Unsent, Listed
<1>1. \A k \in Nat : Lost(k) => Lost(k)'
  BY <1>a DEF Lost
<1>2. \A n \in Nat : Behind(n) => Behind(n)'
  BY <1>1, LostStays
<1>3. ReceivesOrdered'
  BY <1>a DEF ReceivesOrdered
<1>4. CompletionsOrdered'
  BY <1>a DEF CompletionsOrdered
<1>5. ListOrdered'
  BY <1>a DEF ListOrdered
<1>6. Behind(IoCountIssued)'
  <2>1. IoCountIssued \in 0 .. IoCountIssued' - 1
    OBVIOUS
  <2>2. \A c \in completions : c.result = "data" => c.order # IoCountIssued
    BY DEF CompletionsOrdered
  <2>3. \A i \in 1 .. Len(OutOfOrderSends) : Listed(i) => OutOfOrderSends[i].order # IoCountIssued
    BY DEF ListOrdered
  <2>4. /\ LastSendIssued <= IoCountIssued /\ FirstRecv <= IoCountIssued
        /\ \A i \in 1 .. Len(recvs) : recvs[i] # IoCountIssued
    BY DEF ReceivesOrdered
  <2> DEFINE k == IoCountIssued
  <2>5. /\ LastSendIssued' <= k /\ FirstRecv' <= k /\ k < IoCountIssued'
        /\ \A i \in 1 .. Len(recvs') : recvs'[i] # k
        /\ \A c \in completions' : c.result = "data" => c.order # k
        /\ \A i \in 1 .. Len(OutOfOrderSends') : Listed(i)' => OutOfOrderSends'[i].order # k
    BY <1>a, <2>2, <2>3, <2>4
  <2> HIDE DEF k
  <2>6. QED
    BY <2>1, <2>5 DEF Behind, Lost, k
<1>8. DataFollows'
  <2>1. \A c \in completions : c.result = "data" => c.data = c.order \/ Behind(c.order)'
    BY <1>2 DEF DataFollows
  <2>2. \A i \in Unsent : OutOfOrderSends[i].data = OutOfOrderSends[i].order \/ Behind(OutOfOrderSends[i].order)'
    BY <1>2 DEF DataFollows, Unsent
  <2>3. \A i \in 1 .. Len(recvs) : recvs[i] = arrived + i - 1 \/ Behind(recvs[i])'
    BY <1>2 DEF DataFollows
  <2>4. QED
    BY <1>a, <1>6, <2>1, <2>2, <2>3 DEF DataFollows
<1>9. QED
  BY <1>3, <1>4, <1>5, <1>8

\* A receive is filled, or ends without data: then its number is lost.
LEMMA ReceiveIsDone ==
  ASSUME DataOK, Ordered, recvs # <<>>,
         UNCHANGED <<gProtocol, LastSendIssued, IoCountIssued, OutOfOrderSends>>,
         IsSent' <=> IsSent, recvs' = Tail(recvs),
         NEW result \in {"data", "zero", "error"}, NEW data \in Nat,
         completions' = completions \cup
           {[op |-> "read", order |-> Head(recvs), data |-> data, result |-> result]},
         IF result = "data" THEN data = arrived /\ arrived' = arrived + 1
                            ELSE arrived' = arrived
  PROVE  Ordered'
<1>0. /\ Len(recvs) > 0 /\ Len(recvs') = Len(recvs) - 1
      /\ \A i \in 1 .. Len(recvs') : recvs'[i] = recvs[i + 1]
      /\ recvs[1] = Head(recvs)
  BY DEF DataOK
<1> DEFINE c == [op |-> "read", order |-> recvs[1], data |-> data, result |-> result]
<1>c. /\ completions' = completions \cup {c}
      /\ c.op = "read" /\ c.order = recvs[1] /\ c.data = data /\ c.result = result
  BY <1>0
<1>d. result = "data" => data = arrived /\ arrived' = arrived + 1
  OBVIOUS
<1> HIDE DEF c
<1> USE NumberTypes, <1>0, <1>c DEF Ordered
<1>a. FirstRecv' = FirstRecv /\ Unsent' = Unsent /\ \A i : Listed(i)' <=> Listed(i)
  BY DEF FirstRecv, Unsent, Listed
<1>b. \A i \in 2 .. Len(recvs) : recvs[1] < recvs[i]
  BY DEF ReceivesOrdered
<1>1. \A k \in Nat : Lost(k) => Lost(k)'
  BY <1>a DEF Lost
<1>2. \A n \in Nat : Behind(n) => Behind(n)'
  BY <1>1, LostStays
<1>3. ReceivesOrdered'
  BY <1>a DEF ReceivesOrdered
<1>4. CompletionsOrdered'
  BY <1>a, <1>b DEF CompletionsOrdered, ReceivesOrdered
<1>5. ListOrdered'
  BY <1>a DEF ListOrdered
<1>6. result # "data" => \A n \in Nat : recvs[1] < n => Behind(n)'
  <2> SUFFICES ASSUME result # "data", NEW n \in Nat, recvs[1] < n PROVE Behind(n)'
    OBVIOUS
  <2> DEFINE k == recvs[1]
  <2>1. k \in 0 .. n - 1
    OBVIOUS
  <2>2. \A d \in completions : d.result = "data" => d.order # k
    BY DEF CompletionsOrdered
  <2>3. \A i \in 1 .. Len(OutOfOrderSends) : Listed(i) => OutOfOrderSends[i].order # k
    BY DEF ListOrdered
  <2>4. LastSendIssued <= k /\ FirstRecv <= k /\ k < IoCountIssued
    BY DEF ReceivesOrdered
  <2>5. /\ LastSendIssued' <= k /\ FirstRecv' <= k /\ k < IoCountIssued'
        /\ \A i \in 1 .. Len(recvs') : recvs'[i] # k
        /\ \A d \in completions' : d.result = "data" => d.order # k
        /\ \A i \in 1 .. Len(OutOfOrderSends') : Listed(i)' => OutOfOrderSends'[i].order # k
    BY <1>a, <1>b, <2>2, <2>3, <2>4
  <2>6. PICK m \in 0 .. n - 1 : m = k
    BY <2>1
  <2> HIDE DEF k
  <2>7. QED
    BY <2>5, <2>6 DEF Behind, Lost
<1>7. DataFollows'
  <2>1. \A d \in completions : d.result = "data" => d.data = d.order \/ Behind(d.order)'
    BY <1>2 DEF DataFollows
  <2>2. \A i \in Unsent : OutOfOrderSends[i].data = OutOfOrderSends[i].order \/ Behind(OutOfOrderSends[i].order)'
    BY <1>2 DEF DataFollows, Unsent
  <2>3. IoCountIssued = arrived + Len(recvs) \/ Behind(IoCountIssued)'
    BY <1>2 DEF DataFollows
  <2>4. \A i \in 1 .. Len(recvs) : \A n \in Nat : n = recvs[i] => n = arrived + i - 1 \/ Behind(n)'
    BY <1>2 DEF DataFollows
  <2>5. \A i \in 1 .. Len(recvs') : recvs'[i] = arrived' + i - 1 \/ Behind(recvs[i])'
    BY <1>6, <1>b, <2>4
  <2>6. IoCountIssued' = arrived' + Len(recvs') \/ Behind(IoCountIssued)'
    BY <1>6, <2>3 DEF ReceivesOrdered
  <2>7. \A d \in completions' : d.result = "data" => d.data = d.order \/ Behind(d.order)'
    <3>1. ASSUME NEW d \in completions', d = c, d.result = "data"
          PROVE  d.data = d.order \/ Behind(d.order)'
      <4>1. PICK n \in Nat : n = recvs[1]
        OBVIOUS
      <4>2. n = arrived \/ Behind(n)'
        BY <2>4, <4>1
      <4>3. d.order = n /\ d.data = arrived
        BY <1>d, <3>1, <4>1
      <4>4. QED
        BY <4>2, <4>3
    <3>2. QED
      BY <2>1, <3>1
  <2>8. QED
    BY <1>a, <2>2, <2>5, <2>6, <2>7 DEF DataFollows
<1>8. QED
  BY <1>3, <1>4, <1>5, <1>7

\* DoSends: the send at the head of the list is posted.
LEMMA HeadIsSent ==
  ASSUME DataOK, Ordered, OutOfOrderSends # <<>>, Listed(1),
         OutOfOrderSends[1].order = LastSendIssued, LastSendIssued' = LastSendIssued + 1,
         UNCHANGED <<gProtocol, IoCountIssued, OutOfOrderSends, completions, recvs, arrived>>,
         ~IsSent, IsSent'
  PROVE  Ordered'
<1>0. 1 \in 1 .. Len(OutOfOrderSends)
  BY DEF DataOK
<1> USE NumberTypes, <1>0 DEF Ordered
<1>a. FirstRecv' = FirstRecv /\ Unsent' = Unsent \ {1} /\ \A i : Listed(i)' <=> Listed(i)
  BY DEF FirstRecv, Unsent, Listed
<1>b. 1 \in Unsent
  BY DEF Unsent
<1>1. \A k \in Nat : Lost(k) => Lost(k)'
  BY <1>a DEF Lost
<1>2. \A n \in Nat : Behind(n) => Behind(n)'
  BY <1>1, LostStays
<1>3. ReceivesOrdered'
  BY <1>a DEF ReceivesOrdered, ListOrdered
<1>4. CompletionsOrdered'
  BY <1>a DEF CompletionsOrdered, ListOrdered
<1>5. ListOrdered'
  <2>1. \A i \in Unsent \ {1} : LastSendIssued + 1 <= OutOfOrderSends[i].order
    BY DEF ListOrdered, Unsent
  <2>2. QED
    BY <1>a, <2>1 DEF ListOrdered
<1>6. DataFollows'
  <2>1. \A d \in completions : d.result = "data" => d.data = d.order \/ Behind(d.order)'
    BY <1>2 DEF DataFollows
  <2>2. \A i \in Unsent : OutOfOrderSends[i].data = OutOfOrderSends[i].order \/ Behind(OutOfOrderSends[i].order)'
    BY <1>2 DEF DataFollows, Unsent
  <2>3. IoCountIssued = arrived + Len(recvs) \/ Behind(IoCountIssued)'
    BY <1>2 DEF DataFollows
  <2>4. \A i \in 1 .. Len(recvs) : recvs[i] = arrived + i - 1 \/ Behind(recvs[i])'
    BY <1>2 DEF DataFollows
  <2>5. QED
    BY <1>a, <2>1, <2>2, <2>3, <2>4 DEF DataFollows
<1>7. QED
  BY <1>3, <1>4, <1>5, <1>6

\* DoSends: the posted send is taken off the list.
LEMMA HeadIsRemoved ==
  ASSUME DataOK, Ordered, IsSent, ~IsSent', OutOfOrderSends' = Tail(OutOfOrderSends),
         UNCHANGED <<gProtocol, LastSendIssued, IoCountIssued, completions, recvs, arrived>>
  PROVE  Ordered'
<1>z. OutOfOrderSends # <<>>
  BY DEF Ordered, ListOrdered
<1>0. /\ Len(OutOfOrderSends) > 0 /\ Len(OutOfOrderSends') = Len(OutOfOrderSends) - 1
      /\ \A i \in 1 .. Len(OutOfOrderSends') : OutOfOrderSends'[i] = OutOfOrderSends[i + 1]
  BY <1>z DEF DataOK
<1> USE NumberTypes, <1>0 DEF Ordered
<1>a. /\ FirstRecv' = FirstRecv
      /\ \A i \in Unsent' : i \in 1 .. Len(OutOfOrderSends') /\ i + 1 \in Unsent
      /\ \A i \in 1 .. Len(OutOfOrderSends') : Listed(i)' <=> Listed(i + 1)
  BY DEF FirstRecv, Unsent, Listed
<1>1. \A k \in Nat : Lost(k) => Lost(k)'
  BY <1>a DEF Lost
<1>2. \A n \in Nat : Behind(n) => Behind(n)'
  BY <1>1, LostStays
<1>3. ReceivesOrdered'
  BY <1>a DEF ReceivesOrdered
<1>4. CompletionsOrdered'
  BY <1>a DEF CompletionsOrdered
<1>5. ListOrdered'
  BY <1>a DEF ListOrdered
<1>6. DataFollows'
  <2>1. \A d \in completions : d.result = "data" => d.data = d.order \/ Behind(d.order)'
    BY <1>2 DEF DataFollows
  <2>2. \A i \in Unsent : \A n \in Nat : n = OutOfOrderSends[i].order => OutOfOrderSends[i].data = n \/ Behind(n)'
    BY <1>2 DEF DataFollows, Unsent
  <2>3. IoCountIssued = arrived + Len(recvs) \/ Behind(IoCountIssued)'
    BY <1>2 DEF DataFollows
  <2>4. \A i \in 1 .. Len(recvs) : recvs[i] = arrived + i - 1 \/ Behind(recvs[i])'
    BY <1>2 DEF DataFollows
  <2>5. \A i \in Unsent' : OutOfOrderSends'[i].data = OutOfOrderSends'[i].order \/ Behind(OutOfOrderSends[i].order)'
    BY <1>a, <2>2
  <2>6. QED
    BY <1>a, <2>1, <2>3, <2>4, <2>5 DEF DataFollows
<1>7. QED
  BY <1>3, <1>4, <1>5, <1>6

\* DoSends: the post of the head fails, and leaves the freed buffer there.
LEMMA HeadIsFreed ==
  ASSUME DataOK, Ordered, OutOfOrderSends # <<>>, Listed(1),
         OutOfOrderSends[1].order = LastSendIssued, LastSendIssued' = LastSendIssued + 1,
         OutOfOrderSends' = <<Dangling>> \o Tail(OutOfOrderSends),
         UNCHANGED <<gProtocol, IoCountIssued, completions, recvs, arrived>>,
         ~IsSent, ~IsSent'
  PROVE  Ordered'
<1>0. /\ 1 \in 1 .. Len(OutOfOrderSends) /\ Len(OutOfOrderSends') = Len(OutOfOrderSends)
      /\ \A i \in 2 .. Len(OutOfOrderSends) : OutOfOrderSends'[i] = OutOfOrderSends[i]
      /\ OutOfOrderSends'[1] = Dangling
  BY DEF DataOK
<1> USE NumberTypes, <1>0 DEF Ordered
<1>a. FirstRecv' = FirstRecv /\ Unsent' = Unsent \ {1} /\ ~Listed(1)'
  BY DEF FirstRecv, Unsent, Listed
<1>b. \A i \in 2 .. Len(OutOfOrderSends) : Listed(i)' <=> Listed(i)
  BY DEF Listed
<1>1. \A k \in Nat : Lost(k) => Lost(k)'
  BY <1>a, <1>b DEF Lost
<1>2. \A n \in Nat : Behind(n) => Behind(n)'
  BY <1>1, LostStays
<1>3. ReceivesOrdered'
  BY <1>a DEF ReceivesOrdered, ListOrdered
<1>4. CompletionsOrdered'
  BY <1>a DEF CompletionsOrdered, ListOrdered
<1>5. ListOrdered'
  <2>1. \A i \in Unsent \ {1} : LastSendIssued + 1 <= OutOfOrderSends[i].order
    BY DEF ListOrdered, Unsent
  <2>2. \A i \in Unsent \ {1} : i \in 2 .. Len(OutOfOrderSends)
    BY DEF Unsent
  <2>3. QED
    BY <1>a, <1>b, <2>1, <2>2 DEF ListOrdered
<1>6. DataFollows'
  <2>1. \A d \in completions : d.result = "data" => d.data = d.order \/ Behind(d.order)'
    BY <1>2 DEF DataFollows
  <2>2. \A i \in Unsent : \A n \in Nat : n = OutOfOrderSends[i].order => OutOfOrderSends[i].data = n \/ Behind(n)'
    BY <1>2 DEF DataFollows, Unsent
  <2>3. IoCountIssued = arrived + Len(recvs) \/ Behind(IoCountIssued)'
    BY <1>2 DEF DataFollows
  <2>4. \A i \in 1 .. Len(recvs) : recvs[i] = arrived + i - 1 \/ Behind(recvs[i])'
    BY <1>2 DEF DataFollows
  <2>5. \A i \in Unsent' : OutOfOrderSends'[i].data = OutOfOrderSends'[i].order \/ Behind(OutOfOrderSends[i].order)'
    <3>1. TAKE i \in Unsent'
    <3>a. i \in Unsent \ {1}
      BY <1>a
    <3>2. i \in Unsent /\ i \in 2 .. Len(OutOfOrderSends)
      BY <3>a DEF Unsent
    <3>3. OutOfOrderSends'[i] = OutOfOrderSends[i] /\ OutOfOrderSends[i].order \in Nat
      BY <3>2
    <3>4. PICK n \in Nat : n = OutOfOrderSends[i].order
      BY <3>3
    <3>5. OutOfOrderSends[i].data = n \/ Behind(n)'
      BY <2>2, <3>2, <3>4
    <3>6. QED
      BY <3>3, <3>4, <3>5
  <2>6. QED
    BY <1>a, <2>1, <2>3, <2>4, <2>5 DEF DataFollows
<1>7. QED
  BY <1>3, <1>4, <1>5, <1>6

\* HandleIo: data goes from its completion to its place in the list.
LEMMA DataIsListed ==
  ASSUME DataOK, Ordered, ~HasDangling, ~IsSent, ~IsSent',
         NEW c \in completions, c.result = "data", completions' = completions \ {c},
         OutOfOrderSends' = InsertPendingSend(OutOfOrderSends, [order |-> c.order, data |-> c.data]),
         UNCHANGED <<gProtocol, LastSendIssued, IoCountIssued, recvs, arrived>>
  PROVE  Ordered'
<1> DEFINE e == [order |-> c.order, data |-> c.data]
<1>e. e \in Entries /\ e.order = c.order /\ e.data = c.data /\ e # Dangling
  BY NumberTypes DEF Entries, Dangling
<1>n. OutOfOrderSends' = InsertPendingSend(OutOfOrderSends, e) /\ OutOfOrderSends \in Seq(Entries)
  BY DEF DataOK
<1> HIDE DEF e
<1>r. PICK p \in Nat : Inserted(OutOfOrderSends', OutOfOrderSends, e, p)
  BY <1>e, <1>n, InsertPendingSendPlace
<1>p. /\ p \in 1 .. Len(OutOfOrderSends) + 1 /\ OutOfOrderSends'[p] = e
      /\ \A i \in 1 .. p - 1 :
           i \in 1 .. Len(OutOfOrderSends) /\ OutOfOrderSends'[i] = OutOfOrderSends[i]
      /\ \A i \in p + 1 .. Len(OutOfOrderSends) + 1 :
           i - 1 \in 1 .. Len(OutOfOrderSends) /\ OutOfOrderSends'[i] = OutOfOrderSends[i - 1]
  BY <1>r DEF Inserted
<1>l. Len(OutOfOrderSends') = Len(OutOfOrderSends) + 1
  BY <1>r DEF Inserted
<1> USE NumberTypes, <1>l DEF Ordered
<1>0. \A i \in 1 .. Len(OutOfOrderSends') :
        i = p \/ i \in 1 .. p - 1 \/ i \in p + 1 .. Len(OutOfOrderSends) + 1
  OBVIOUS
<1>a1. FirstRecv' = FirstRecv /\ \A i \in 1 .. Len(OutOfOrderSends) : i \in Unsent /\ Listed(i)
  BY DEF FirstRecv, Unsent, Listed, HasDangling
<1>a2. \A i \in 1 .. Len(OutOfOrderSends') : Listed(i)'
  BY <1>e, <1>p, <1>0, <1>a1 DEF Listed
<1>a. /\ FirstRecv' = FirstRecv
      /\ \A i \in 1 .. Len(OutOfOrderSends) : i \in Unsent /\ Listed(i)
      /\ \A i \in 1 .. Len(OutOfOrderSends') : Listed(i)'
  BY <1>a1, <1>a2
<1>b. Unsent' = 1 .. Len(OutOfOrderSends')
  BY <1>a DEF Unsent
<1>c. /\ c.op = "read" /\ FirstRecv <= c.order /\ c.order < IoCountIssued
      /\ LastSendIssued <= c.order
      /\ \A i \in 1 .. Len(recvs) : recvs[i] # c.order
      /\ \A d \in completions' : d.op = "read" => d.order # c.order
      /\ \A i \in 1 .. Len(OutOfOrderSends) : OutOfOrderSends[i].order # c.order
  BY <1>a DEF CompletionsOrdered, ListOrdered
<1>1. \A k \in Nat : Lost(k) => Lost(k)'
  <2> SUFFICES ASSUME NEW k \in Nat, Lost(k) PROVE Lost(k)'
    OBVIOUS
  <2>1. \A i \in 1 .. Len(OutOfOrderSends') : OutOfOrderSends'[i].order # k
    BY <1>a, <1>e, <1>p, <1>0 DEF Lost
  <2>2. QED
    BY <1>a, <2>1 DEF Lost
<1>2. \A n \in Nat : Behind(n) => Behind(n)'
  BY <1>1, LostStays
<1>3. ReceivesOrdered'
  BY <1>a DEF ReceivesOrdered
<1>4. CompletionsOrdered'
  BY <1>a DEF CompletionsOrdered
<1>5. ListOrdered'
  <2>1. \A i \in 1 .. Len(OutOfOrderSends') :
          LET o == OutOfOrderSends'[i].order
          IN /\ FirstRecv <= o /\ o < IoCountIssued /\ LastSendIssued <= o
             /\ \A j \in 1 .. Len(recvs) : recvs[j] # o
             /\ \A d \in completions' : d.op = "read" => d.order # o
    <3>1. TAKE i \in 1 .. Len(OutOfOrderSends')
    <3>2. CASE i = p
      BY <1>c, <1>e, <1>p, <3>2
    <3>3. ASSUME NEW j \in 1 .. Len(OutOfOrderSends), OutOfOrderSends'[i] = OutOfOrderSends[j]
          PROVE  LET o == OutOfOrderSends'[i].order
                 IN /\ FirstRecv <= o /\ o < IoCountIssued /\ LastSendIssued <= o
                    /\ \A h \in 1 .. Len(recvs) : recvs[h] # o
                    /\ \A d \in completions' : d.op = "read" => d.order # o
      BY <1>a, <3>3 DEF ListOrdered
    <3>4. QED
      BY <1>p, <1>0, <3>2, <3>3
  <2>2. \A i, j \in 1 .. Len(OutOfOrderSends) :
          OutOfOrderSends[j].order = OutOfOrderSends[i].order => i = j
    BY <1>a DEF ListOrdered
  <2>3. \A i, j \in 1 .. Len(OutOfOrderSends') :
          OutOfOrderSends'[j].order = OutOfOrderSends'[i].order => i = j
    <3>1. TAKE i, j \in 1 .. Len(OutOfOrderSends')
    <3>2. ASSUME NEW h \in 1 .. Len(OutOfOrderSends'), h # p
          PROVE  OutOfOrderSends'[h].order # OutOfOrderSends'[p].order
      BY <1>c, <1>e, <1>p, <1>0, <3>2
    <3>3. CASE i = p \/ j = p
      BY <3>2, <3>3
    <3>4. ASSUME NEW g \in 1 .. Len(OutOfOrderSends), NEW h \in 1 .. Len(OutOfOrderSends),
                 OutOfOrderSends'[i] = OutOfOrderSends[g], OutOfOrderSends'[j] = OutOfOrderSends[h]
          PROVE  OutOfOrderSends'[j].order = OutOfOrderSends'[i].order => g = h
      BY <2>2, <3>4
    <3>5. CASE i # p /\ j # p
      <4>1. PICK g \in 1 .. Len(OutOfOrderSends) :
              /\ OutOfOrderSends'[i] = OutOfOrderSends[g]
              /\ (i < p /\ g = i) \/ (i > p /\ g = i - 1)
        BY <1>r, <3>5, InsertedFrom
      <4>2. PICK h \in 1 .. Len(OutOfOrderSends) :
              /\ OutOfOrderSends'[j] = OutOfOrderSends[h]
              /\ (j < p /\ h = j) \/ (j > p /\ h = j - 1)
        BY <1>r, <3>5, InsertedFrom
      <4>3. OutOfOrderSends'[j].order = OutOfOrderSends'[i].order => g = h
        BY <3>4, <4>1, <4>2
      <4>4. g = h => i = j
        BY <3>5, <4>1, <4>2
      <4>5. QED
        BY <4>3, <4>4
    <3>6. QED
      BY <3>3, <3>5
  <2>4. QED
    BY <1>a, <1>b, <2>1, <2>3 DEF ListOrdered
<1>6. DataFollows'
  <2>1. \A d \in completions : d.result = "data" => d.data = d.order \/ Behind(d.order)'
    BY <1>2 DEF DataFollows
  <2>2. \A i \in 1 .. Len(OutOfOrderSends) : \A n \in Nat :
          n = OutOfOrderSends[i].order => OutOfOrderSends[i].data = n \/ Behind(n)'
    BY <1>2, <1>a DEF DataFollows
  <2>3. IoCountIssued = arrived + Len(recvs) \/ Behind(IoCountIssued)'
    BY <1>2 DEF DataFollows
  <2>4. \A i \in 1 .. Len(recvs) : recvs[i] = arrived + i - 1 \/ Behind(recvs[i])'
    BY <1>2 DEF DataFollows
  <2>5. \A i \in 1 .. Len(OutOfOrderSends') : \A n \in Nat :
          n = OutOfOrderSends'[i].order => OutOfOrderSends'[i].data = n \/ Behind(n)'
    <3>1. TAKE i \in 1 .. Len(OutOfOrderSends')
    <3>2. TAKE n \in Nat
    <3>3. HAVE n = OutOfOrderSends'[i].order
    <3>4. CASE i = p
      BY <1>e, <1>p, <2>1, <3>3, <3>4
    <3>5. CASE i \in 1 .. p - 1
      BY <1>p, <2>2, <3>3, <3>5
    <3>6. CASE i \in p + 1 .. Len(OutOfOrderSends) + 1
      BY <1>p, <2>2, <3>3, <3>6
    <3>7. QED
      BY <3>4, <3>5, <3>6, <1>0
  <2>6. \A i \in Unsent' : OutOfOrderSends'[i].order \in Nat
    BY <1>b, <1>e, <1>p, <1>0
  <2>7. QED
    BY <1>b, <2>1, <2>3, <2>4, <2>5, <2>6 DEF DataFollows
<1>7. QED
  BY <1>3, <1>4, <1>5, <1>6

\* The post of the data that came with the accept, which is number 0.
LEMMA AcceptIsEchoed ==
  ASSUME DataOK, Ordered, Untouched, LastSendIssued = 0, LastSendIssued' = 1,
         UNCHANGED <<gProtocol, IoCountIssued, OutOfOrderSends, completions, recvs, arrived>>,
         ~IsSent, ~IsSent'
  PROVE  Ordered'
<1> USE NumberTypes DEF Ordered
<1>0. /\ Len(recvs) = 0 /\ Len(OutOfOrderSends) = 0 /\ completions = {} /\ IoCountIssued = 1
      /\ Unsent = {} /\ Unsent' = {} /\ FirstRecv = 1 /\ FirstRecv' = 1
  BY DEF Untouched, Unsent, FirstRecv
<1>1. ReceivesOrdered' /\ CompletionsOrdered'
  BY <1>0 DEF ReceivesOrdered, CompletionsOrdered
<1>2. ListOrdered'
  BY <1>0 DEF ListOrdered
<1>3. ~Behind(1)
  BY <1>0 DEF Behind, Lost
<1>4. DataFollows'
  BY <1>0, <1>3 DEF DataFollows
<1>5. QED
  BY <1>1, <1>2, <1>4

(***************************************************************************)
(* Every step is one of these moves.                                       *)
(***************************************************************************)
LEMMA OneInside ==
  ASSUME ThreadsOK, NEW v \in Workers, NEW w \in Workers, pc[v] \in Inside, pc[w] \in Inside
  PROVE  v = w
BY DEF ThreadsOK

LEMMA OrderKept ==
  ASSUME TypeOK, Ordered, SendsFollow, [Next]_vars
  PROVE  Ordered'
<1> ThreadsOK /\ DataOK
  BY TypeParts
<1>p. pc \in [Threads -> Posting \cup Inside \cup Outside] /\ Poster \notin Workers
      /\ Workers \subseteq Threads /\ Poster \in Threads
  BY ThreadsAssumption DEF ThreadsOK, Threads
<1>i. \A v, w \in Workers : pc[v] \in Inside /\ pc[w] \in Inside => v = w
  BY OneInside
<1>1. CASE EchoAcceptData
  <2>1. Untouched /\ LastSendIssued = 0
    BY <1>1 DEF EchoAcceptData, PosterAt, SendsFollow
  <2>2. ~IsSent /\ ~IsSent'
    BY <1>1, <1>p, <2>1 DEF EchoAcceptData, Goto, Untouched, IsSent
  <2>3. /\ LastSendIssued' = 1
        /\ UNCHANGED <<gProtocol, IoCountIssued, OutOfOrderSends, completions, recvs, arrived>>
    BY <1>1, <2>1 DEF EchoAcceptData, PostSend, PostSendFails
  <2>4. QED
    BY <2>1, <2>2, <2>3, AcceptIsEchoed
<1>2. CASE PostFirstRecvs
  <2>1. IsSent' <=> IsSent
    BY <1>2, <1>p DEF PostFirstRecvs, PosterAt, Goto, IsSent
  <2>2. UNCHANGED <<gProtocol, LastSendIssued, OutOfOrderSends, completions, arrived>>
    BY <1>2 DEF PostFirstRecvs
  <2>3. /\ IoCountIssued' = IoCountIssued + 1
        /\ recvs' = recvs \/ recvs' = Append(recvs, IoCountIssued)
    BY <1>2 DEF PostFirstRecvs, PostRecv, PostRecvFails
  <2>4. QED
    BY <2>1, <2>2, <2>3, ReceiveIsPosted, ReceiveIsNotPosted
<1>3. CASE CountFirst
  <2>1. IsSent' <=> IsSent
    BY <1>3, <1>p DEF CountFirst, PosterAt, Goto, locals, stack, IsSent
  <2>2. UNCHANGED <<gProtocol, LastSendIssued, IoCountIssued, OutOfOrderSends, recvs, arrived>>
    BY <1>3 DEF CountFirst, PosterAt, Goto, locals, stack
  <2>3. /\ \A d \in completions' : d \in completions \/ (d.op = "write" /\ d.result \in {"sent", "error"})
        /\ \A d \in completions : d.result = "data" => d \in completions'
    BY <1>3 DEF CountFirst, PosterAt, Goto, locals, stack
  <2>4. QED
    BY <2>1, <2>2, <2>3, NothingMoves
<1>4. CASE GiveUp
  <2>1. IsSent' <=> IsSent
    BY <1>4, <1>p DEF GiveUp, PosterAt, Goto, locals, stack, IsSent
  <2>2. UNCHANGED <<gProtocol, LastSendIssued, IoCountIssued, OutOfOrderSends, recvs, arrived>>
    BY <1>4 DEF GiveUp, PosterAt, Goto, locals, stack
  <2>3. /\ \A d \in completions' : d \in completions \/ (d.op = "write" /\ d.result \in {"sent", "error"})
        /\ \A d \in completions : d.result = "data" => d \in completions'
    BY <1>4 DEF GiveUp, PosterAt, Goto, locals, stack
  <2>4. QED
    BY <2>1, <2>2, <2>3, NothingMoves
<1>5. ASSUME NEW w \in Workers, NEW c \in completions, DropFailed(w, c) PROVE Ordered'
  <2>1. IsSent' <=> IsSent
    BY <1>5, <1>p DEF DropFailed, GetQueuedCompletionStatus, WorkerAt, Goto, IsSent
  <2>2. UNCHANGED <<gProtocol, LastSendIssued, IoCountIssued, OutOfOrderSends, recvs, arrived>>
    BY <1>5 DEF DropFailed, GetQueuedCompletionStatus, WorkerAt, Goto
  <2>3. /\ \A d \in completions' : d \in completions \/ (d.op = "write" /\ d.result \in {"sent", "error"})
        /\ \A d \in completions : d.result = "data" => d \in completions'
    BY <1>5 DEF DropFailed, GetQueuedCompletionStatus, WorkerAt, Goto
  <2>4. QED
    BY <2>1, <2>2, <2>3, NothingMoves
<1>6. ASSUME NEW w \in Workers, NEW c \in completions, HandleIo(w, c) PROVE Ordered'
  <2>1. ~IsSent /\ ~IsSent'
    BY <1>6, <1>p, ThreadsAssumption DEF HandleIo, GetQueuedCompletionStatus, WorkerAt, Goto, IsSent, ThreadsOK, Inside
  <2>2. /\ UNCHANGED <<gProtocol, LastSendIssued, IoCountIssued, recvs, arrived>>
        /\ completions' = completions \ {c}
    BY <1>6 DEF HandleIo, GetQueuedCompletionStatus
  <2>3. CASE c.result = "data"
    <3>1. /\ ~HasDangling
          /\ OutOfOrderSends' = InsertPendingSend(OutOfOrderSends, [order |-> c.order, data |-> c.data])
      BY <1>6, <2>3 DEF HandleIo
    <3>2. QED
      BY <2>1, <2>2, <2>3, <3>1, DataIsListed
  <2>4. CASE c.result # "data"
    <3>1. OutOfOrderSends' = OutOfOrderSends
      BY <1>6, <2>4 DEF HandleIo
    <3>2. /\ \A d \in completions' : d \in completions
          /\ \A d \in completions : d.result = "data" => d \in completions'
      BY <2>2, <2>4
    <3>3. QED
      BY <2>1, <2>2, <3>1, <3>2, NothingMoves
  <2>5. QED
    BY <2>3, <2>4
<1>7. ASSUME NEW w \in Workers, FreeSocketObj(w) PROVE Ordered'
  <2>1. IsSent' <=> IsSent
    BY <1>7, <1>p DEF FreeSocketObj, WorkerAt, Goto, stack, IsSent
  <2>2. UNCHANGED <<gProtocol, LastSendIssued, IoCountIssued, OutOfOrderSends, recvs, arrived>>
    BY <1>7 DEF FreeSocketObj, WorkerAt, Goto, stack
  <2>3. /\ \A d \in completions' : d \in completions \/ (d.op = "write" /\ d.result \in {"sent", "error"})
        /\ \A d \in completions : d.result = "data" => d \in completions'
    BY <1>7 DEF FreeSocketObj, WorkerAt, Goto, stack
  <2>4. QED
    BY <2>1, <2>2, <2>3, NothingMoves
<1>8. ASSUME NEW w \in Workers, DoSendsPost(w) PROVE Ordered'
  <2>1. /\ pc[w] = "sends" /\ OutOfOrderSends # <<>> /\ OutOfOrderSends[1] # Dangling
        /\ OutOfOrderSends[1].order = LastSendIssued
    BY <1>8 DEF DoSendsPost, WorkerAt, NextIsReady, DataOK
  <2>2. ~IsSent
    BY <1>i, <2>1 DEF IsSent, Inside
  <2>3. /\ UNCHANGED <<gProtocol, IoCountIssued, completions, recvs, arrived>>
        /\ LastSendIssued' = LastSendIssued + 1
    BY <1>8 DEF DoSendsPost, PostSend, PostSendFails, stack
  <2>4. IsSent' /\ OutOfOrderSends' = OutOfOrderSends
    BY <1>8, <1>p DEF DoSendsPost, Goto, IsSent
  <2>5. QED
    BY <2>1, <2>2, <2>3, <2>4, HeadIsSent DEF Listed
<1>9. ASSUME NEW w \in Workers, DoSendsCount(w) PROVE Ordered'
  <2>1. pc[w] = "sent" /\ pc' = [pc EXCEPT ![w] = "sends"]
    BY <1>9 DEF DoSendsCount, WorkerAt, Goto
  <2>2. IsSent /\ ~IsSent'
    BY <1>i, <1>p, <2>1 DEF IsSent, Inside
  <2>3. /\ UNCHANGED <<gProtocol, LastSendIssued, IoCountIssued, completions, recvs, arrived>>
        /\ OutOfOrderSends' = Tail(OutOfOrderSends)
    BY <1>9 DEF DoSendsCount, stack
  <2>4. QED
    BY <2>2, <2>3, HeadIsRemoved
<1>10. ASSUME NEW w \in Workers, DoSendsReturn(w) PROVE Ordered'
  <2>a. pc[w] = "sends" /\ \E place \in {"close", "idle", "recv", "finish", "zero"} : Goto(w, place)
    BY <1>10 DEF DoSendsReturn, WorkerAt, LeaveCriticalSection, ThreadsOK
  <2>1. IsSent' <=> IsSent
    BY <2>a, <1>p DEF Goto, IsSent
  <2>2. UNCHANGED <<gProtocol, LastSendIssued, IoCountIssued, OutOfOrderSends, recvs, arrived>>
    BY <1>10 DEF DoSendsReturn, WorkerAt, Goto, LeaveCriticalSection, stack
  <2>3. /\ \A d \in completions' : d \in completions \/ (d.op = "write" /\ d.result \in {"sent", "error"})
        /\ \A d \in completions : d.result = "data" => d \in completions'
    BY <1>10 DEF DoSendsReturn, WorkerAt, Goto, LeaveCriticalSection, stack
  <2>4. QED
    BY <2>1, <2>2, <2>3, NothingMoves
<1>11. ASSUME NEW w \in Workers, DoSendsFail(w) PROVE Ordered'
  <2>1. /\ pc[w] = "sends" /\ OutOfOrderSends # <<>> /\ OutOfOrderSends[1] # Dangling
        /\ OutOfOrderSends[1].order = LastSendIssued
    BY <1>11 DEF DoSendsFail, WorkerAt, NextIsReady, DataOK
  <2>2. ~IsSent
    BY <1>i, <2>1 DEF IsSent, Inside
  <2>3. /\ UNCHANGED <<gProtocol, IoCountIssued, completions, recvs, arrived>>
        /\ LastSendIssued' = LastSendIssued + 1
    BY <1>11 DEF DoSendsFail, PostSend, PostSendFails, stack
  <2>4. OutOfOrderSends' = <<Dangling>> \o Tail(OutOfOrderSends)
    BY <1>11 DEF DoSendsFail
  <2>5. \E place \in {"close", "idle", "finish", "zero"} : Goto(w, place)
    BY <1>11 DEF DoSendsFail, LeaveCriticalSection, ThreadsOK
  <2>6. ~IsSent'
    BY <1>p, <2>2, <2>5 DEF Goto, IsSent
  <2>7. QED
    BY <2>1, <2>2, <2>3, <2>4, <2>6, HeadIsFreed DEF Listed
<1>12. ASSUME NEW w \in Workers, RepostRecv(w) PROVE Ordered'
  <2>1. IsSent' <=> IsSent
    BY <1>12, <1>p DEF RepostRecv, WorkerAt, Goto, IsSent
  <2>2. UNCHANGED <<gProtocol, LastSendIssued, OutOfOrderSends, completions, arrived>>
    BY <1>12 DEF RepostRecv
  <2>3. /\ IoCountIssued' = IoCountIssued + 1
        /\ recvs' = recvs \/ recvs' = Append(recvs, IoCountIssued)
    BY <1>12 DEF RepostRecv, PostRecv, PostRecvFails
  <2>4. QED
    BY <2>1, <2>2, <2>3, ReceiveIsPosted, ReceiveIsNotPosted
<1>13. ASSUME NEW w \in Workers, CountRecv(w) PROVE Ordered'
  <2>1. IsSent' <=> IsSent
    BY <1>13, <1>p DEF CountRecv, WorkerAt, Goto, stack, IsSent
  <2>2. UNCHANGED <<gProtocol, LastSendIssued, IoCountIssued, OutOfOrderSends, recvs, arrived>>
    BY <1>13 DEF CountRecv, WorkerAt, Goto, stack
  <2>3. /\ \A d \in completions' : d \in completions \/ (d.op = "write" /\ d.result \in {"sent", "error"})
        /\ \A d \in completions : d.result = "data" => d \in completions'
    BY <1>13 DEF CountRecv, WorkerAt, Goto, stack
  <2>4. QED
    BY <2>1, <2>2, <2>3, NothingMoves
<1>14. ASSUME NEW w \in Workers, ZeroByteReceive(w) PROVE Ordered'
  <2>1. IsSent' <=> IsSent
    BY <1>14, <1>p DEF ZeroByteReceive, WorkerAt, Goto, stack, sockobj, IsSent
  <2>2. UNCHANGED <<gProtocol, LastSendIssued, IoCountIssued, OutOfOrderSends, recvs, arrived>>
    BY <1>14 DEF ZeroByteReceive, WorkerAt, Goto, stack, sockobj
  <2>3. /\ \A d \in completions' : d \in completions \/ (d.op = "write" /\ d.result \in {"sent", "error"})
        /\ \A d \in completions : d.result = "data" => d \in completions'
    BY <1>14 DEF ZeroByteReceive, WorkerAt, Goto, stack, sockobj
  <2>4. QED
    BY <2>1, <2>2, <2>3, NothingMoves
<1>15. ASSUME NEW w \in Workers, CheckClosing(w) PROVE Ordered'
  <2>1. IsSent' <=> IsSent
    BY <1>15, <1>p DEF CheckClosing, WorkerAt, Goto, LeaveCriticalSection, stack, IsSent
  <2>2. UNCHANGED <<gProtocol, LastSendIssued, IoCountIssued, OutOfOrderSends, recvs, arrived>>
    BY <1>15 DEF CheckClosing, WorkerAt, Goto, LeaveCriticalSection, stack
  <2>3. /\ \A d \in completions' : d \in completions \/ (d.op = "write" /\ d.result \in {"sent", "error"})
        /\ \A d \in completions : d.result = "data" => d \in completions'
    BY <1>15 DEF CheckClosing, WorkerAt, Goto, LeaveCriticalSection, stack
  <2>4. QED
    BY <2>1, <2>2, <2>3, NothingMoves
<1>16. ASSUME NEW w \in Workers, CloseSocket(w) PROVE Ordered'
  <2>1. IsSent' <=> IsSent
    BY <1>16, <1>p DEF CloseSocket, WorkerAt, Goto, stack, IsSent
  <2>2. UNCHANGED <<gProtocol, LastSendIssued, IoCountIssued, OutOfOrderSends, recvs, arrived>>
    BY <1>16 DEF CloseSocket, WorkerAt, Goto, stack
  <2>3. /\ \A d \in completions' : d \in completions \/ (d.op = "write" /\ d.result \in {"sent", "error"})
        /\ \A d \in completions : d.result = "data" => d \in completions'
    BY <1>16 DEF CloseSocket, WorkerAt, Goto, stack
  <2>4. QED
    BY <2>1, <2>2, <2>3, NothingMoves
<1>17. ASSUME NEW t \in Threads, UseAfterFree(t) PROVE Ordered'
  <2>1. IsSent' <=> IsSent
    BY <1>17, <1>p DEF UseAfterFree, sockobj, stack, IsSent
  <2>2. UNCHANGED <<gProtocol, LastSendIssued, IoCountIssued, OutOfOrderSends, recvs, arrived>>
    BY <1>17 DEF UseAfterFree, sockobj, stack
  <2>3. /\ \A d \in completions' : d \in completions \/ (d.op = "write" /\ d.result \in {"sent", "error"})
        /\ \A d \in completions : d.result = "data" => d \in completions'
    BY <1>17 DEF UseAfterFree, sockobj, stack
  <2>4. QED
    BY <2>1, <2>2, <2>3, NothingMoves
<1>18. CASE DataArrives
  <2>1. IsSent' <=> IsSent
    BY <1>18 DEF DataArrives, IsSent
  <2>2. /\ recvs # <<>> /\ recvs' = Tail(recvs) /\ arrived \in Nat /\ arrived' = arrived + 1
        /\ UNCHANGED <<gProtocol, LastSendIssued, IoCountIssued, OutOfOrderSends>>
        /\ completions' = completions \cup
             {[op |-> "read", order |-> Head(recvs), data |-> arrived, result |-> "data"]}
    BY <1>18 DEF DataArrives, Complete, sockobj, DataOK
  <2>3. QED
    BY <2>1, <2>2, ReceiveIsDone
<1>19. CASE ReceiveEnds
  <2>1. IsSent' <=> IsSent
    BY <1>19 DEF ReceiveEnds, IsSent
  <2>2. PICK result \in {"zero", "error"} : completions' = completions \cup
             {[op |-> "read", order |-> Head(recvs), data |-> 0, result |-> result]}
    BY <1>19 DEF ReceiveEnds, Complete
  <2>3. /\ recvs # <<>> /\ recvs' = Tail(recvs) /\ arrived' = arrived
        /\ UNCHANGED <<gProtocol, LastSendIssued, IoCountIssued, OutOfOrderSends>>
    BY <1>19 DEF ReceiveEnds, sockobj
  <2>4. QED
    BY <2>1, <2>2, <2>3, ReceiveIsDone
<1>20. CASE ReceiveFails
  <2>1. IsSent' <=> IsSent
    BY <1>20 DEF ReceiveFails, IsSent
  <2>2. PICK result \in {"zero", "error"} : completions' = completions \cup
             {[op |-> "read", order |-> Head(recvs), data |-> 0, result |-> result]}
    BY <1>20 DEF ReceiveFails, Complete
  <2>3. /\ recvs # <<>> /\ recvs' = Tail(recvs) /\ arrived' = arrived
        /\ UNCHANGED <<gProtocol, LastSendIssued, IoCountIssued, OutOfOrderSends>>
    BY <1>20 DEF ReceiveFails, sockobj
  <2>4. QED
    BY <2>1, <2>2, <2>3, ReceiveIsDone
<1>21. CASE SendCompletes
  <2>1. IsSent' <=> IsSent
    BY <1>21, <1>p DEF SendCompletes, sockobj, Complete, IsSent
  <2>2. UNCHANGED <<gProtocol, LastSendIssued, IoCountIssued, OutOfOrderSends, recvs, arrived>>
    BY <1>21 DEF SendCompletes, sockobj, Complete
  <2>3. /\ \A d \in completions' : d \in completions \/ (d.op = "write" /\ d.result \in {"sent", "error"})
        /\ \A d \in completions : d.result = "data" => d \in completions'
    BY <1>21 DEF SendCompletes, sockobj, Complete
  <2>4. QED
    BY <2>1, <2>2, <2>3, NothingMoves
<1>22. CASE PeerCloses
  <2>1. IsSent' <=> IsSent
    BY <1>22, <1>p DEF PeerCloses, sockobj, IsSent
  <2>2. UNCHANGED <<gProtocol, LastSendIssued, IoCountIssued, OutOfOrderSends, recvs, arrived>>
    BY <1>22 DEF PeerCloses, sockobj
  <2>3. /\ \A d \in completions' : d \in completions \/ (d.op = "write" /\ d.result \in {"sent", "error"})
        /\ \A d \in completions : d.result = "data" => d \in completions'
    BY <1>22 DEF PeerCloses, sockobj
  <2>4. QED
    BY <2>1, <2>2, <2>3, NothingMoves
<1>23. CASE PeerResets
  <2>1. IsSent' <=> IsSent
    BY <1>23, <1>p DEF PeerResets, sockobj, IsSent
  <2>2. UNCHANGED <<gProtocol, LastSendIssued, IoCountIssued, OutOfOrderSends, recvs, arrived>>
    BY <1>23 DEF PeerResets, sockobj
  <2>3. /\ \A d \in completions' : d \in completions \/ (d.op = "write" /\ d.result \in {"sent", "error"})
        /\ \A d \in completions : d.result = "data" => d \in completions'
    BY <1>23 DEF PeerResets, sockobj
  <2>4. QED
    BY <2>1, <2>2, <2>3, NothingMoves
<1>24. CASE UNCHANGED vars
  <2>1. IsSent' <=> IsSent
    BY <1>24, <1>p DEF vars, vars, sockobj, stack, IsSent
  <2>2. UNCHANGED <<gProtocol, LastSendIssued, IoCountIssued, OutOfOrderSends, recvs, arrived>>
    BY <1>24 DEF vars, vars, sockobj, stack
  <2>3. /\ \A d \in completions' : d \in completions \/ (d.op = "write" /\ d.result \in {"sent", "error"})
        /\ \A d \in completions : d.result = "data" => d \in completions'
    BY <1>24 DEF vars, vars, sockobj, stack
  <2>4. QED
    BY <2>1, <2>2, <2>3, NothingMoves
<1>25. QED
  BY <1>1, <1>2, <1>3, <1>4, <1>5, <1>6, <1>7, <1>8, <1>9, <1>10, <1>11, <1>12,
     <1>13, <1>14, <1>15, <1>16, <1>17, <1>18, <1>19, <1>20, <1>21, <1>22, <1>23,
     <1>24
  DEF Next, FirstPosts, CompletionThread

-----------------------------------------------------------------------------
(***************************************************************************)
(* A connection whose first send fails stays untouched.                    *)
(***************************************************************************)
LEMMA EchoIsFirst ==
  ASSUME ThreadsOK, [Next]_vars
  PROVE  /\ pc'[Poster] = "echo" => pc[Poster] = "echo" /\ ~EchoAcceptData
         /\ pc[Poster] = "done" => pc'[Poster] = "done"
<1> DEFINE G == /\ pc'[Poster] = "echo" => pc[Poster] = "echo" /\ ~EchoAcceptData
                /\ pc[Poster] = "done" => pc'[Poster] = "done"
<1>p. /\ pc \in [Threads -> Posting \cup Inside \cup Outside] /\ Poster \notin Workers
      /\ Workers \subseteq Threads /\ Poster \in Threads
  BY ThreadsAssumption DEF ThreadsOK, Threads
<1>e. EchoAcceptData => pc[Poster] = "echo" /\ pc'[Poster] \in {"countecho", "giveup"}
  BY <1>p DEF EchoAcceptData, PosterAt, Goto
<1>1. CASE EchoAcceptData
  BY <1>1, <1>e
<1>2. CASE PostFirstRecvs
  BY <1>2, <1>p, <1>e DEF PostFirstRecvs, PosterAt, NextPost, Goto
<1>3. CASE CountFirst
  BY <1>3, <1>p, <1>e DEF CountFirst, PosterAt, NextPost, Goto
<1>4. CASE GiveUp
  BY <1>4, <1>p, <1>e DEF GiveUp, PosterAt, Goto
<1>5. ASSUME NEW w \in Workers, NEW c \in completions, DropFailed(w, c) PROVE G
  BY <1>5, <1>p, <1>e DEF DropFailed, Goto
<1>6. ASSUME NEW w \in Workers, NEW c \in completions, HandleIo(w, c) PROVE G
  BY <1>6, <1>p, <1>e DEF HandleIo, Goto
<1>7. ASSUME NEW w \in Workers, FreeSocketObj(w) PROVE G
  BY <1>7, <1>p, <1>e DEF FreeSocketObj, Goto
<1>8. ASSUME NEW w \in Workers, DoSendsPost(w) PROVE G
  BY <1>8, <1>p, <1>e DEF DoSendsPost, Goto
<1>9. ASSUME NEW w \in Workers, DoSendsCount(w) PROVE G
  BY <1>9, <1>p, <1>e DEF DoSendsCount, Goto
<1>10. ASSUME NEW w \in Workers, DoSendsReturn(w) PROVE G
  BY <1>10, <1>p, <1>e DEF DoSendsReturn, Goto, LeaveCriticalSection
<1>11. ASSUME NEW w \in Workers, DoSendsFail(w) PROVE G
  BY <1>11, <1>p, <1>e DEF DoSendsFail, Goto, LeaveCriticalSection
<1>12. ASSUME NEW w \in Workers, RepostRecv(w) PROVE G
  BY <1>12, <1>p, <1>e DEF RepostRecv, Goto
<1>13. ASSUME NEW w \in Workers, CountRecv(w) PROVE G
  BY <1>13, <1>p, <1>e DEF CountRecv, Goto
<1>14. ASSUME NEW w \in Workers, ZeroByteReceive(w) PROVE G
  BY <1>14, <1>p, <1>e DEF ZeroByteReceive, Goto
<1>15. ASSUME NEW w \in Workers, CheckClosing(w) PROVE G
  BY <1>15, <1>p, <1>e DEF CheckClosing, Goto, LeaveCriticalSection
<1>16. ASSUME NEW w \in Workers, CloseSocket(w) PROVE G
  BY <1>16, <1>p, <1>e DEF CloseSocket, Goto
<1>17. ASSUME NEW t \in Threads, UseAfterFree(t) PROVE G
  BY <1>17, <1>p, <1>e DEF UseAfterFree
<1>18. CASE DataArrives
  BY <1>18, <1>p, <1>e DEF DataArrives
<1>19. CASE ReceiveEnds
  BY <1>19, <1>p, <1>e DEF ReceiveEnds
<1>20. CASE ReceiveFails
  BY <1>20, <1>p, <1>e DEF ReceiveFails
<1>21. CASE SendCompletes
  BY <1>21, <1>p, <1>e DEF SendCompletes
<1>22. CASE PeerCloses
  BY <1>22, <1>p, <1>e DEF PeerCloses
<1>23. CASE PeerResets
  BY <1>23, <1>p, <1>e DEF PeerResets
<1>24. CASE UNCHANGED vars
  BY <1>24, <1>p, <1>e DEF vars
<1>25. QED
  BY <1>1, <1>2, <1>3, <1>4, <1>5, <1>6, <1>7, <1>8, <1>9, <1>10, <1>11, <1>12,
     <1>13, <1>14, <1>15, <1>16, <1>17, <1>18, <1>19, <1>20, <1>21, <1>22, <1>23,
     <1>24
  DEF Next, FirstPosts, CompletionThread

LEMMA UntouchedStays ==
  ASSUME TypeOK, Untouched, pc[Poster] \in {"echo", "giveup", "done"}, [Next]_vars, ~EchoAcceptData
  PROVE  /\ Untouched' /\ LastSendIssued' = LastSendIssued
         /\ pc[Poster] # "echo" => pc'[Poster] \in {"giveup", "done"}
<1> DEFINE G == /\ Untouched' /\ LastSendIssued' = LastSendIssued
                /\ pc[Poster] # "echo" => pc'[Poster] \in {"giveup", "done"}
<1> ThreadsOK /\ DataOK
  BY TypeParts
<1>p. /\ pc \in [Threads -> Posting \cup Inside \cup Outside] /\ Poster \notin Workers
      /\ Workers \subseteq Threads /\ Poster \in Threads
  BY ThreadsAssumption DEF ThreadsOK, Threads
<1>u. /\ completions = {} /\ recvs = <<>> /\ sends = {} /\ \A w \in Workers : pc[w] = "idle"
  BY DEF Untouched
<1>1. CASE EchoAcceptData
  BY <1>1
<1>2. CASE PostFirstRecvs
  BY <1>2 DEF PostFirstRecvs, PosterAt
<1>3. CASE CountFirst
  BY <1>3 DEF CountFirst, PosterAt
<1>4. CASE GiveUp
  BY <1>4, <1>p DEF GiveUp, PosterAt, Goto, Untouched, stack
<1>5. ASSUME NEW w \in Workers, NEW c \in completions, DropFailed(w, c) PROVE G
  BY <1>u
<1>6. ASSUME NEW w \in Workers, NEW c \in completions, HandleIo(w, c) PROVE G
  BY <1>u
<1>7. ASSUME NEW w \in Workers, FreeSocketObj(w) PROVE G
  BY <1>7, <1>u DEF FreeSocketObj, WorkerAt
<1>8. ASSUME NEW w \in Workers, DoSendsPost(w) PROVE G
  BY <1>8, <1>u DEF DoSendsPost, WorkerAt
<1>9. ASSUME NEW w \in Workers, DoSendsCount(w) PROVE G
  BY <1>9, <1>u DEF DoSendsCount, WorkerAt
<1>10. ASSUME NEW w \in Workers, DoSendsReturn(w) PROVE G
  BY <1>10, <1>u DEF DoSendsReturn, WorkerAt
<1>11. ASSUME NEW w \in Workers, DoSendsFail(w) PROVE G
  BY <1>11, <1>u DEF DoSendsFail, WorkerAt
<1>12. ASSUME NEW w \in Workers, RepostRecv(w) PROVE G
  BY <1>12, <1>u DEF RepostRecv, WorkerAt
<1>13. ASSUME NEW w \in Workers, CountRecv(w) PROVE G
  BY <1>13, <1>u DEF CountRecv, WorkerAt
<1>14. ASSUME NEW w \in Workers, ZeroByteReceive(w) PROVE G
  BY <1>14, <1>u DEF ZeroByteReceive, WorkerAt
<1>15. ASSUME NEW w \in Workers, CheckClosing(w) PROVE G
  BY <1>15, <1>u DEF CheckClosing, WorkerAt
<1>16. ASSUME NEW w \in Workers, CloseSocket(w) PROVE G
  BY <1>16, <1>u DEF CloseSocket, WorkerAt
<1>17. ASSUME NEW t \in Threads, UseAfterFree(t) PROVE G
  BY <1>17 DEF UseAfterFree, Untouched, sockobj, stack
<1>18. CASE DataArrives
  BY <1>18, <1>u DEF DataArrives
<1>19. CASE ReceiveEnds
  BY <1>19, <1>u DEF ReceiveEnds
<1>20. CASE ReceiveFails
  BY <1>20, <1>u DEF ReceiveFails
<1>21. CASE SendCompletes
  BY <1>21, <1>u DEF SendCompletes
<1>22. CASE PeerCloses
  BY <1>22 DEF PeerCloses, Untouched, sockobj, stack
<1>23. CASE PeerResets
  BY <1>23 DEF PeerResets, Untouched, sockobj, stack
<1>24. CASE UNCHANGED vars
  BY <1>24 DEF vars, Untouched, sockobj, stack
<1>25. QED
  BY <1>1, <1>2, <1>3, <1>4, <1>5, <1>6, <1>7, <1>8, <1>9, <1>10, <1>11, <1>12,
     <1>13, <1>14, <1>15, <1>16, <1>17, <1>18, <1>19, <1>20, <1>21, <1>22, <1>23,
     <1>24
  DEF Next, FirstPosts, CompletionThread

\* Nothing is sent: what held before holds on.
LEMMA NothingIsSent ==
  ASSUME TypeOK, SendsFollow, [Next]_vars, ~EchoAcceptData,
         UNCHANGED <<LastSendIssued, echoed>>,
         OutOfOrderSends # <<>> /\ ~Listed(1) => OutOfOrderSends' # <<>> /\ ~Listed(1)'
  PROVE  SendsFollow'
<1>1. ThreadsOK
  BY TypeParts
<1>2. EchoInOrder'
  BY DEF SendsFollow, EchoInOrder
<1>3. pc'[Poster] = "echo" => Untouched' /\ LastSendIssued' = 0
  BY <1>1, EchoIsFirst, UntouchedStays DEF SendsFollow
<1>4. CASE Len(echoed) = LastSendIssued
  BY <1>2, <1>3, <1>4 DEF SendsFollow
<1>5. CASE OutOfOrderSends # <<>> /\ ~Listed(1)
  BY <1>2, <1>3, <1>5 DEF SendsFollow
<1>6. CASE Untouched /\ LastSendIssued = 1 /\ pc[Poster] \in {"giveup", "done"}
  <2>1. Untouched' /\ LastSendIssued' = 1 /\ pc'[Poster] \in {"giveup", "done"}
    BY <1>6, UntouchedStays
  <2>2. QED
    BY <1>2, <1>3, <2>1 DEF SendsFollow
<1>7. QED
  BY <1>4, <1>5, <1>6 DEF SendsFollow

LEMMA AppendPlaces ==
  ASSUME NEW q \in Seq(Nat), NEW d \in Nat
  PROVE  /\ Len(Append(q, d)) = Len(q) + 1 /\ DOMAIN Append(q, d) = 1 .. Len(q) + 1
         /\ Append(q, d)[Len(q) + 1] = d /\ \A i \in 1 .. Len(q) : Append(q, d)[i] = q[i]
OBVIOUS

LEMMA SendsKept ==
  ASSUME TypeOK, Ordered, SendsFollow, [Next]_vars
  PROVE  SendsFollow'
<1> ThreadsOK /\ DataOK
  BY TypeParts
<1>p. /\ pc \in [Threads -> Posting \cup Inside \cup Outside] /\ Poster \notin Workers
      /\ Workers \subseteq Threads /\ Poster \in Threads
  BY ThreadsAssumption DEF ThreadsOK, Threads
<1>i. \A w, v \in Workers : pc[w] \in Inside /\ pc[v] \in Inside => v = w
  BY OneInside
<1>e. ~EchoAcceptData /\ pc'[Poster] = "echo" => OutOfOrderSends = <<>>
  BY EchoIsFirst DEF SendsFollow, Untouched
<1>n. ASSUME ~EchoAcceptData, UNCHANGED <<LastSendIssued, echoed, OutOfOrderSends>> PROVE SendsFollow'
  BY <1>n, NothingIsSent DEF Listed
<1>1. CASE EchoAcceptData
  <2>1. /\ pc[Poster] = "echo" /\ Untouched /\ LastSendIssued = 0
        /\ LastSendIssued' = 1 /\ OutOfOrderSends = <<>>
    BY <1>1 DEF EchoAcceptData, PosterAt, PostSend, PostSendFails, SendsFollow, Untouched
  <2>2. echoed = <<>>
    BY <2>1 DEF Untouched
  <2>3. CASE PostSend(0) /\ Goto(Poster, "countecho")
    <3>1. echoed' = <<0>> /\ pc'[Poster] # "echo"
      BY <1>p, <2>2, <2>3 DEF PostSend, Goto
    <3>2. QED
      BY <2>1, <3>1 DEF SendsFollow, EchoInOrder
  <2>4. CASE PostSendFails /\ Goto(Poster, "giveup") /\ UNCHANGED <<sends, echoed>>
    <3>1. /\ pc'[Poster] = "giveup" /\ \A w \in Workers : pc'[w] = pc[w]
      BY <1>p, <2>4 DEF Goto
    <3>2. UNCHANGED <<gProtocol, IoCountIssued, OutOfOrderSends, recvs, sends, completions, echoed>>
      BY <1>1, <2>4 DEF EchoAcceptData
    <3>3. Untouched'
      BY <2>1, <3>1, <3>2 DEF Untouched
    <3>4. QED
      BY <2>1, <2>2, <3>1, <3>2, <3>3 DEF SendsFollow, EchoInOrder
  <2>5. QED
    BY <1>1, <2>3, <2>4 DEF EchoAcceptData
<1>2. CASE PostFirstRecvs
  <2>1. UNCHANGED <<LastSendIssued, echoed, OutOfOrderSends>>
    BY <1>2 DEF PostFirstRecvs, PosterAt
  <2>2. ~EchoAcceptData
    BY <1>2 DEF PostFirstRecvs, EchoAcceptData, PosterAt
  <2>4. QED
    BY <2>1, <2>2, <1>n
<1>3. CASE CountFirst
  <2>1. UNCHANGED <<LastSendIssued, echoed, OutOfOrderSends>>
    BY <1>3 DEF CountFirst
  <2>2. ~EchoAcceptData
    BY <1>3 DEF CountFirst, EchoAcceptData, PosterAt
  <2>4. QED
    BY <2>1, <2>2, <1>n
<1>4. CASE GiveUp
  <2>1. UNCHANGED <<LastSendIssued, echoed, OutOfOrderSends>>
    BY <1>4 DEF GiveUp
  <2>2. ~EchoAcceptData
    BY <1>4 DEF GiveUp, EchoAcceptData, PosterAt
  <2>4. QED
    BY <2>1, <2>2, <1>n
<1>5. ASSUME NEW w \in Workers, NEW c \in completions, DropFailed(w, c) PROVE SendsFollow'
  <2>1. UNCHANGED <<LastSendIssued, echoed, OutOfOrderSends>>
    BY <1>5 DEF DropFailed
  <2>2. pc'[Poster] = pc[Poster]
    BY <1>5, <1>p DEF DropFailed, Goto
  <2>3. ~EchoAcceptData
    BY <2>2, <1>p DEF EchoAcceptData, PosterAt, Goto
  <2>4. QED
    BY <2>1, <2>3, <1>n
<1>6. ASSUME NEW w \in Workers, NEW c \in completions, HandleIo(w, c) PROVE SendsFollow'
  <2>1. pc'[Poster] = pc[Poster] /\ pc[Poster] # "echo" /\ ~EchoAcceptData
    BY <1>6, <1>p DEF HandleIo, Goto, SendsFollow, Untouched, EchoAcceptData, PosterAt
  <2>2. UNCHANGED <<LastSendIssued, echoed>>
    BY <1>6 DEF HandleIo
  <2>3. OutOfOrderSends # <<>> /\ ~Listed(1) => OutOfOrderSends' = OutOfOrderSends
    BY <1>6 DEF HandleIo, HasDangling, Listed, DataOK
  <2>4. QED
    BY <2>1, <2>2, <2>3, NothingIsSent DEF Listed
<1>7. ASSUME NEW w \in Workers, FreeSocketObj(w) PROVE SendsFollow'
  <2>1. UNCHANGED <<LastSendIssued, echoed, OutOfOrderSends>>
    BY <1>7 DEF FreeSocketObj, stack
  <2>2. pc'[Poster] = pc[Poster]
    BY <1>7, <1>p DEF FreeSocketObj, Goto
  <2>3. ~EchoAcceptData
    BY <2>2, <1>p DEF EchoAcceptData, PosterAt, Goto
  <2>4. QED
    BY <2>1, <2>3, <1>n
<1>8. ASSUME NEW w \in Workers, DoSendsPost(w) PROVE SendsFollow'
  <2>1. /\ pc[w] = "sends" /\ OutOfOrderSends # <<>> /\ Listed(1)
        /\ OutOfOrderSends[1].order = LastSendIssued
    BY <1>8 DEF DoSendsPost, WorkerAt, NextIsReady, DataOK, Listed
  <2>2. 1 \in Unsent
    BY <1>i, <2>1 DEF Unsent, IsSent, Inside, DataOK
  <2>3. ~Behind(LastSendIssued)
    BY NumberTypes DEF Behind, Lost
  <2>4. OutOfOrderSends[1].data = LastSendIssued
    BY <2>1, <2>2, <2>3 DEF Ordered, DataFollows
  <2>5. /\ LastSendIssued' = LastSendIssued + 1 /\ echoed' = Append(echoed, LastSendIssued)
        /\ OutOfOrderSends' = OutOfOrderSends /\ pc'[Poster] = pc[Poster]
    BY <1>8, <1>p, <2>1, <2>4 DEF DoSendsPost, PostSend, Goto, DataOK
  <2>6. Len(echoed) = LastSendIssued /\ pc[Poster] # "echo"
    BY <2>1 DEF SendsFollow, Untouched
  <2>7. /\ Len(echoed') = LastSendIssued' /\ echoed'[LastSendIssued + 1] = LastSendIssued
        /\ DOMAIN echoed' = 1 .. LastSendIssued + 1
        /\ \A i \in 1 .. LastSendIssued : echoed'[i] = echoed[i]
    BY <2>5, <2>6, NumberTypes, AppendPlaces DEF DataOK
  <2>8. EchoInOrder'
    <3>1. \A i \in 1 .. LastSendIssued : echoed[i] = i - 1
      <4>1. DOMAIN echoed = 1 .. Len(echoed)
        BY DEF DataOK
      <4>2. QED
        BY <2>6, <4>1 DEF SendsFollow, EchoInOrder
    <3>2. QED
      BY <2>7, <3>1, NumberTypes DEF EchoInOrder
  <2>9. QED
    BY <2>5, <2>6, <2>7, <2>8 DEF SendsFollow
<1>9. ASSUME NEW w \in Workers, DoSendsCount(w) PROVE SendsFollow'
  <2>1. IsSent /\ Listed(1) /\ OutOfOrderSends # <<>>
    BY <1>9 DEF DoSendsCount, WorkerAt, IsSent, Ordered, ListOrdered
  <2>2. pc'[Poster] = pc[Poster] /\ pc[Poster] # "echo" /\ ~EchoAcceptData
    BY <1>9, <1>p, <2>1 DEF DoSendsCount, Goto, SendsFollow, Untouched, EchoAcceptData, PosterAt
  <2>3. UNCHANGED <<LastSendIssued, echoed>>
    BY <1>9 DEF DoSendsCount
  <2>4. QED
    BY <2>1, <2>2, <2>3, NothingIsSent
<1>10. ASSUME NEW w \in Workers, DoSendsReturn(w) PROVE SendsFollow'
  <2>1. UNCHANGED <<LastSendIssued, echoed, OutOfOrderSends>>
    BY <1>10 DEF DoSendsReturn, LeaveCriticalSection
  <2>2. pc'[Poster] = pc[Poster]
    BY <1>10, <1>p DEF DoSendsReturn, Goto, LeaveCriticalSection
  <2>3. ~EchoAcceptData
    BY <2>2, <1>p DEF EchoAcceptData, PosterAt, Goto
  <2>4. QED
    BY <2>1, <2>3, <1>n
<1>11. ASSUME NEW w \in Workers, DoSendsFail(w) PROVE SendsFollow'
  <2>1. OutOfOrderSends # <<>> /\ echoed' = echoed /\ OutOfOrderSends' = <<Dangling>> \o Tail(OutOfOrderSends)
    BY <1>11 DEF DoSendsFail, NextIsReady
  <2>2. pc'[Poster] = pc[Poster]
    BY <1>11, <1>p DEF DoSendsFail, LeaveCriticalSection, Goto
  <2>3. pc[Poster] # "echo"
    BY <2>1 DEF SendsFollow, Untouched
  <2>4. OutOfOrderSends' # <<>> /\ ~Listed(1)'
    BY <2>1 DEF Listed, DataOK
  <2>5. QED
    BY <2>1, <2>2, <2>3, <2>4 DEF SendsFollow, EchoInOrder
<1>12. ASSUME NEW w \in Workers, RepostRecv(w) PROVE SendsFollow'
  <2>1. UNCHANGED <<LastSendIssued, echoed, OutOfOrderSends>>
    BY <1>12 DEF RepostRecv
  <2>2. pc'[Poster] = pc[Poster]
    BY <1>12, <1>p DEF RepostRecv, Goto
  <2>3. ~EchoAcceptData
    BY <2>2, <1>p DEF EchoAcceptData, PosterAt, Goto
  <2>4. QED
    BY <2>1, <2>3, <1>n
<1>13. ASSUME NEW w \in Workers, CountRecv(w) PROVE SendsFollow'
  <2>1. UNCHANGED <<LastSendIssued, echoed, OutOfOrderSends>>
    BY <1>13 DEF CountRecv
  <2>2. pc'[Poster] = pc[Poster]
    BY <1>13, <1>p DEF CountRecv, Goto
  <2>3. ~EchoAcceptData
    BY <2>2, <1>p DEF EchoAcceptData, PosterAt, Goto
  <2>4. QED
    BY <2>1, <2>3, <1>n
<1>14. ASSUME NEW w \in Workers, ZeroByteReceive(w) PROVE SendsFollow'
  <2>1. UNCHANGED <<LastSendIssued, echoed, OutOfOrderSends>>
    BY <1>14 DEF ZeroByteReceive, sockobj
  <2>2. pc'[Poster] = pc[Poster]
    BY <1>14, <1>p DEF ZeroByteReceive, Goto
  <2>3. ~EchoAcceptData
    BY <2>2, <1>p DEF EchoAcceptData, PosterAt, Goto
  <2>4. QED
    BY <2>1, <2>3, <1>n
<1>15. ASSUME NEW w \in Workers, CheckClosing(w) PROVE SendsFollow'
  <2>1. UNCHANGED <<LastSendIssued, echoed, OutOfOrderSends>>
    BY <1>15 DEF CheckClosing, LeaveCriticalSection
  <2>2. pc'[Poster] = pc[Poster]
    BY <1>15, <1>p DEF CheckClosing, Goto, LeaveCriticalSection
  <2>3. ~EchoAcceptData
    BY <2>2, <1>p DEF EchoAcceptData, PosterAt, Goto
  <2>4. QED
    BY <2>1, <2>3, <1>n
<1>16. ASSUME NEW w \in Workers, CloseSocket(w) PROVE SendsFollow'
  <2>1. UNCHANGED <<LastSendIssued, echoed, OutOfOrderSends>>
    BY <1>16 DEF CloseSocket
  <2>2. pc'[Poster] = pc[Poster]
    BY <1>16, <1>p DEF CloseSocket, Goto
  <2>3. ~EchoAcceptData
    BY <2>2, <1>p DEF EchoAcceptData, PosterAt, Goto
  <2>4. QED
    BY <2>1, <2>3, <1>n
<1>17. ASSUME NEW t \in Threads, UseAfterFree(t) PROVE SendsFollow'
  <2>1. UNCHANGED <<LastSendIssued, echoed, OutOfOrderSends>>
    BY <1>17 DEF UseAfterFree, sockobj
  <2>2. pc'[Poster] = pc[Poster]
    BY <1>17, <1>p DEF UseAfterFree, Goto
  <2>3. ~EchoAcceptData
    BY <2>2, <1>p DEF EchoAcceptData, PosterAt, Goto
  <2>4. QED
    BY <2>1, <2>3, <1>n
<1>18. CASE DataArrives
  <2>1. UNCHANGED <<LastSendIssued, echoed, OutOfOrderSends>>
    BY <1>18 DEF DataArrives, sockobj
  <2>2. pc'[Poster] = pc[Poster]
    BY <1>18, <1>p DEF DataArrives, Goto
  <2>3. ~EchoAcceptData
    BY <2>2, <1>p DEF EchoAcceptData, PosterAt, Goto
  <2>4. QED
    BY <2>1, <2>3, <1>n
<1>19. CASE ReceiveEnds
  <2>1. UNCHANGED <<LastSendIssued, echoed, OutOfOrderSends>>
    BY <1>19 DEF ReceiveEnds, sockobj
  <2>2. pc'[Poster] = pc[Poster]
    BY <1>19, <1>p DEF ReceiveEnds, Goto
  <2>3. ~EchoAcceptData
    BY <2>2, <1>p DEF EchoAcceptData, PosterAt, Goto
  <2>4. QED
    BY <2>1, <2>3, <1>n
<1>20. CASE ReceiveFails
  <2>1. UNCHANGED <<LastSendIssued, echoed, OutOfOrderSends>>
    BY <1>20 DEF ReceiveFails, sockobj
  <2>2. pc'[Poster] = pc[Poster]
    BY <1>20, <1>p DEF ReceiveFails, Goto
  <2>3. ~EchoAcceptData
    BY <2>2, <1>p DEF EchoAcceptData, PosterAt, Goto
  <2>4. QED
    BY <2>1, <2>3, <1>n
<1>21. CASE SendCompletes
  <2>1. UNCHANGED <<LastSendIssued, echoed, OutOfOrderSends>>
    BY <1>21 DEF SendCompletes, sockobj
  <2>2. pc'[Poster] = pc[Poster]
    BY <1>21, <1>p DEF SendCompletes, Goto
  <2>3. ~EchoAcceptData
    BY <2>2, <1>p DEF EchoAcceptData, PosterAt, Goto
  <2>4. QED
    BY <2>1, <2>3, <1>n
<1>22. CASE PeerCloses
  <2>1. UNCHANGED <<LastSendIssued, echoed, OutOfOrderSends>>
    BY <1>22 DEF PeerCloses, sockobj
  <2>2. pc'[Poster] = pc[Poster]
    BY <1>22, <1>p DEF PeerCloses, Goto
  <2>3. ~EchoAcceptData
    BY <2>2, <1>p DEF EchoAcceptData, PosterAt, Goto
  <2>4. QED
    BY <2>1, <2>3, <1>n
<1>23. CASE PeerResets
  <2>1. UNCHANGED <<LastSendIssued, echoed, OutOfOrderSends>>
    BY <1>23 DEF PeerResets, sockobj
  <2>2. pc'[Poster] = pc[Poster]
    BY <1>23, <1>p DEF PeerResets, Goto
  <2>3. ~EchoAcceptData
    BY <2>2, <1>p DEF EchoAcceptData, PosterAt, Goto
  <2>4. QED
    BY <2>1, <2>3, <1>n
<1>24. CASE UNCHANGED vars
  <2>1. UNCHANGED <<LastSendIssued, echoed, OutOfOrderSends>>
    BY <1>24 DEF vars, sockobj
  <2>2. ~EchoAcceptData
    BY <1>24, <1>p DEF vars, EchoAcceptData, PosterAt, Goto
  <2>4. QED
    BY <2>1, <2>2, <1>n
<1>25. QED
  BY <1>1, <1>2, <1>3, <1>4, <1>5, <1>6, <1>7, <1>8, <1>9, <1>10, <1>11, <1>12,
     <1>13, <1>14, <1>15, <1>16, <1>17, <1>18, <1>19, <1>20, <1>21, <1>22, <1>23,
     <1>24
  DEF Next, FirstPosts, CompletionThread

LEMMA OrderStarts == Init => OrderInv
<1> SUFFICES ASSUME Init PROVE OrderInv
  OBVIOUS
<1>a. Poster \notin Workers /\ NoThread \notin Workers /\ gOverlappedCount \in Nat \ {0}
  BY ThreadsAssumption, BoundsAssumption
<1>b. /\ pc \in [Threads -> Posting \cup Inside \cup Outside] /\ pc[Poster] \in Posting
      /\ \A w \in Workers : pc[w] = "idle"
  BY <1>a DEF Init, Threads, Posting, Inside, Outside
<1>c. ThreadsOK
  BY <1>a, <1>b DEF Init, ThreadsOK, Inside, Outside
<1>d. /\ arrived \in Nat /\ IoCountIssued \in Nat /\ sends \subseteq Nat
      /\ completions \subseteq Completion
  BY DEF Init, FirstRecv
<1>e. OutOfOrderSends \in Seq(Entries) /\ recvs \in Seq(Nat) /\ echoed \in Seq(Nat)
  BY DEF Init
<1>f. s \in BOOLEAN /\ bClosing \in BOOLEAN /\ freed \in BOOLEAN /\ disturbed \in BOOLEAN /\ ub \in BOOLEAN
  BY DEF Init
<1>g. /\ gProtocol \in Protocols /\ OutstandingOps \in Int /\ LastSendIssued \in Nat
      /\ peer \in {"open", "closed", "reset"}
  BY DEF Init
<1>h. DataOK
  BY <1>d, <1>e, <1>f, <1>g DEF DataOK
<1>1. TypeOK
  BY <1>c, <1>h, TypeParts
<1>2. Ordered
  BY DEF Init, Ordered, ReceivesOrdered, CompletionsOrdered, ListOrdered, DataFollows, Unsent,
         IsSent, Threads, FirstRecv
<1>3. gProtocol = "tcp" => Untouched
  BY ThreadsAssumption DEF Init, Untouched, FirstRecv, Threads
<1>4. SendsFollow
  BY <1>3, BoundsAssumption DEF Init, SendsFollow, EchoInOrder, Threads
<1>5. QED
  BY <1>1, <1>2, <1>4 DEF OrderInv

LEMMA OrderInvKept == OrderInv /\ [Next]_vars => OrderInv'
BY TypeCorrect, OrderKept, SendsKept DEF OrderInv, Ordered

(***************************************************************************)
(* "To preserve the order of data echoed back": for any number of threads, *)
(* receives and data, in whatever order completions are handled and        *)
(* whatever fails.                                                         *)
(***************************************************************************)
THEOREM EchoesInOrder == Spec => []EchoInOrder
<1>1. OrderInv => EchoInOrder
  BY DEF OrderInv, SendsFollow
<1>2. QED
  BY OrderStarts, OrderInvKept, <1>1, PTL DEF Spec

-------------------------------------------------------------------------------
(***************************************************************************)
(* The life of a SOCKET_OBJ: OutstandingOps is what is outstanding, and    *)
(* nothing freed is used.                                                  *)
(***************************************************************************)

(***************************************************************************)
(* Every data posted is new, so that no send is like another one.          *)
(***************************************************************************)
SendsNumbered ==
  /\ IsFiniteSet(sends) /\ IsFiniteSet(completions)
  /\ \A d \in sends : d < Len(echoed)
  /\ \A c \in completions : c.op = "write" => c.data < Len(echoed) /\ c.data \notin sends

(***************************************************************************)
(* The end of a connection: nothing is outstanding any more, and the one   *)
(* thread that is not idle closes the socket and frees the object.         *)
(***************************************************************************)
Ending == freed \/ ~s \/ \E w \in Workers : pc[w] \in {"close", "free"}

Quiet ==
  /\ recvs = <<>> /\ sends = {} /\ completions = {}
  /\ peer = "closed" /\ pc[Poster] = "done"
  /\ \A w \in Workers : pc[w] \in Outside
  /\ \A v, w \in Workers : pc[v] # "idle" /\ pc[w] # "idle" => v = w
  /\ freed => \A w \in Workers : pc[w] = "idle"

(***************************************************************************)
(* No post has failed, and the peer has not gone too early: the socket is  *)
(* closing only when the peer has closed the connection.                   *)
(***************************************************************************)
PeerIsPatient ==
  /\ peer # "reset" /\ (peer = "closed" => pc[Poster] = "done") /\ pc[Poster] # "giveup"
  /\ bClosing => peer = "closed"
  /\ \A w \in Workers : pc[w] = "zero" \/ after[w] = "zero" => peer = "closed"

NoFailures ==
  /\ \A c \in completions : c.result # "error" /\ (c.result = "zero" => peer = "closed")
  /\ \A w \in Workers : error[w] = FALSE /\ bCleanupSocket[w] = FALSE

Undisturbed ==
  PeerIsPatient /\ NoFailures /\ ~HasDangling /\ (Ending => Quiet) /\ ~ub

Accounted == SendsNumbered /\ OperationsCounted

LifeInv == OrderInv /\ Accounted /\ (disturbed \/ Undisturbed)

-----------------------------------------------------------------------------
(***************************************************************************)
(* Counting, one thread at a time.                                         *)
(***************************************************************************)
Uncounting == {"sent", "count", "countecho", "countpost"}

Deciding(w) == \/ pc[w] \in {"recv", "count", "zero", "finish"}
               \/ pc[w] \in {"sends", "sent"} /\ after[w] # "leave"

(***************************************************************************)
(* By how much a number changes.                                           *)
(***************************************************************************)
Changes(new, old, by) == new = old + by

LEMMA SetMoves ==
  ASSUME NEW S, NEW T, NEW x, IsFiniteSet(S),
         \A y : y # x => (y \in T <=> y \in S)
  PROVE  /\ (x \in T <=> x \in S) => Changes(Cardinality(T), Cardinality(S), 0)
         /\ x \in T /\ x \notin S => Changes(Cardinality(T), Cardinality(S), 1)
         /\ x \notin T /\ x \in S => Changes(Cardinality(T), Cardinality(S), -1)
<1>1. Cardinality(S) \in Nat
  BY FS_CardinalityType
<1>2. CASE x \in T <=> x \in S
  <2>1. T = S
    BY <1>2
  <2>2. QED
    BY <1>1, <1>2, <2>1 DEF Changes
<1>3. CASE x \in T /\ x \notin S
  <2>1. T = S \cup {x}
    BY <1>3
  <2>2. QED
    BY <1>1, <1>3, <2>1, FS_AddElement DEF Changes
<1>4. CASE x \notin T /\ x \in S
  <2>1. T = S \ {x}
    BY <1>4
  <2>2. QED
    BY <1>1, <1>4, <2>1, FS_RemoveElement DEF Changes
<1>5. QED
  BY <1>2, <1>3, <1>4

LEMMA UncountedPlace ==
  ASSUME ThreadsOK
  PROVE  Uncounted = {t \in Threads : pc[t] \in Uncounting}
BY ThreadsAssumption DEF ThreadsOK, Uncounted, Uncounting, Threads, Posting, Inside, Outside

LEMMA UncountedPlaceNext ==
  ASSUME ThreadsOK'
  PROVE  Uncounted' = {t \in Threads : pc'[t] \in Uncounting}
BY ThreadsAssumption DEF ThreadsOK, Uncounted, Uncounting, Threads, Posting, Inside, Outside

LEMMA FiniteThreads ==
  ASSUME ThreadsOK
  PROVE  IsFiniteSet(Uncounted) /\ IsFiniteSet(Undecided)
<1>1. IsFiniteSet(Workers) /\ IsFiniteSet(Threads)
  BY ThreadsAssumption, FS_AddElement DEF Threads
<1>2. Uncounted \in SUBSET Threads /\ Undecided \in SUBSET Workers
  BY UncountedPlace DEF Undecided
<1>3. QED
  BY <1>1, <1>2, FS_Subset

\* A thread goes from one place to another.
LEMMA UncountedMoves ==
  ASSUME ThreadsOK, ThreadsOK', NEW t \in Threads,
         \A v \in Threads \ {t} : pc'[v] = pc[v]
  PROVE  /\ (pc'[t] \in Uncounting <=> pc[t] \in Uncounting)
              => Changes(Cardinality(Uncounted'), Cardinality(Uncounted), 0)
         /\ pc'[t] \in Uncounting /\ pc[t] \notin Uncounting
              => Changes(Cardinality(Uncounted'), Cardinality(Uncounted), 1)
         /\ pc'[t] \notin Uncounting /\ pc[t] \in Uncounting
              => Changes(Cardinality(Uncounted'), Cardinality(Uncounted), -1)
<1>1. Uncounted = {v \in Threads : pc[v] \in Uncounting}
  BY UncountedPlace
<1>2. Uncounted' = {v \in Threads : pc'[v] \in Uncounting}
  BY UncountedPlaceNext
<1>3. \A y : y # t => (y \in Uncounted' <=> y \in Uncounted)
  BY <1>1, <1>2
<1>4. IsFiniteSet(Uncounted)
  BY FiniteThreads
<1>5. (t \in Uncounted' <=> pc'[t] \in Uncounting) /\ (t \in Uncounted <=> pc[t] \in Uncounting)
  BY <1>1, <1>2
<1>6. QED
  BY <1>3, <1>4, <1>5, SetMoves

LEMMA UndecidedMoves ==
  ASSUME ThreadsOK, NEW w \in Workers,
         \A v \in Workers \ {w} : pc'[v] = pc[v] /\ after'[v] = after[v]
  PROVE  /\ (Deciding(w)' <=> Deciding(w))
              => Changes(Cardinality(Undecided'), Cardinality(Undecided), 0)
         /\ Deciding(w)' /\ ~Deciding(w)
              => Changes(Cardinality(Undecided'), Cardinality(Undecided), 1)
         /\ ~Deciding(w)' /\ Deciding(w)
              => Changes(Cardinality(Undecided'), Cardinality(Undecided), -1)
<1>1. \A y : y # w => (y \in Undecided' <=> y \in Undecided)
  BY DEF Undecided
<1>2. IsFiniteSet(Undecided)
  BY FiniteThreads
<1>3. (w \in Undecided' <=> Deciding(w)') /\ (w \in Undecided <=> Deciding(w))
  BY DEF Undecided, Deciding
<1>4. QED
  BY <1>1, <1>2, <1>3, SetMoves

LEMMA Balanced ==
  ASSUME ThreadsOK, DataOK, SendsNumbered, OperationsCounted,
         NEW o \in Int, NEW u \in Int, NEW r \in Int, NEW sd \in Int, NEW c \in Int, NEW d \in Int,
         Changes(OutstandingOps', OutstandingOps, o),
         Changes(Cardinality(Uncounted'), Cardinality(Uncounted), u),
         Changes(Len(recvs'), Len(recvs), r),
         Changes(Cardinality(sends'), Cardinality(sends), sd),
         Changes(Cardinality(completions'), Cardinality(completions), c),
         Changes(Cardinality(Undecided'), Cardinality(Undecided), d),
         o + u = r + sd + c + d
  PROVE  OperationsCounted'
<1>0. /\ Cardinality(sends) \in Nat /\ Cardinality(completions) \in Nat
      /\ Cardinality(Uncounted) \in Nat /\ Cardinality(Undecided) \in Nat
  BY FiniteThreads, FS_CardinalityType DEF SendsNumbered
<1>1. PICK o0 \in Int : o0 = OutstandingOps
  BY DEF DataOK
<1>2. PICK r0 \in Int : r0 = Len(recvs)
  BY DEF DataOK
<1>3. PICK s0 \in Int : s0 = Cardinality(sends)
  BY <1>0
<1>4. PICK c0 \in Int : c0 = Cardinality(completions)
  BY <1>0
<1>5. PICK u0 \in Int : u0 = Cardinality(Uncounted)
  BY <1>0
<1>6. PICK d0 \in Int : d0 = Cardinality(Undecided)
  BY <1>0
<1>7. o0 + u0 = r0 + s0 + c0 + d0
  BY <1>1, <1>2, <1>3, <1>4, <1>5, <1>6 DEF OperationsCounted
<1>8. (o0 + o) + (u0 + u) = (r0 + r) + (s0 + sd) + (c0 + c) + (d0 + d)
  BY <1>7
<1>9. QED
  BY <1>1, <1>2, <1>3, <1>4, <1>5, <1>6, <1>8 DEF OperationsCounted, Changes

(***************************************************************************)
(* What is posted, filled and handled.                                     *)
(***************************************************************************)
LEMMA NothingPosted ==
  ASSUME SendsNumbered, UNCHANGED <<sends, completions, echoed>>
  PROVE  /\ SendsNumbered'
         /\ Changes(Cardinality(sends'), Cardinality(sends), 0)
         /\ Changes(Cardinality(completions'), Cardinality(completions), 0)
BY FS_CardinalityType DEF SendsNumbered, Changes

LEMMA SendPosted ==
  ASSUME DataOK, SendsNumbered, NEW d \in Nat, EchoInOrder',
         sends' = sends \cup {d}, echoed' = Append(echoed, d), completions' = completions
  PROVE  /\ SendsNumbered'
         /\ Changes(Cardinality(sends'), Cardinality(sends), 1)
         /\ Changes(Cardinality(completions'), Cardinality(completions), 0)
<1>1. /\ Len(echoed) \in Nat /\ Len(echoed') = Len(echoed) + 1
      /\ DOMAIN echoed' = 1 .. Len(echoed) + 1 /\ echoed'[Len(echoed) + 1] = d
  BY AppendPlaces DEF DataOK
<1>2. d = Len(echoed)
  BY <1>1 DEF EchoInOrder
<1>3. d \notin sends /\ \A c \in completions : c.op = "write" => c.data # d
  BY <1>1, <1>2 DEF SendsNumbered, DataOK
<1>4. /\ IsFiniteSet(sends') /\ IsFiniteSet(completions')
      /\ Changes(Cardinality(sends'), Cardinality(sends), 1)
  BY <1>3, FS_AddElement DEF SendsNumbered, Changes
<1>5. Changes(Cardinality(completions'), Cardinality(completions), 0)
  BY FS_CardinalityType DEF SendsNumbered, Changes
<1>6. \A e \in sends' : e < Len(echoed')
  BY <1>1, <1>2 DEF SendsNumbered, DataOK
<1>7. \A c \in completions : c.op = "write" => c.data < Len(echoed') /\ c.data \notin sends'
  <2>1. \A c \in completions : c.data \in Nat
    BY DEF DataOK, Completion
  <2>2. QED
    BY <1>1, <1>2, <1>3, <2>1 DEF SendsNumbered
<1>8. QED
  BY <1>4, <1>5, <1>6, <1>7 DEF SendsNumbered

LEMMA CompletionTaken ==
  ASSUME SendsNumbered, NEW c \in completions, completions' = completions \ {c},
         UNCHANGED <<sends, echoed>>
  PROVE  /\ SendsNumbered'
         /\ Changes(Cardinality(sends'), Cardinality(sends), 0)
         /\ Changes(Cardinality(completions'), Cardinality(completions), -1)
<1>1. /\ IsFiniteSet(completions') /\ Cardinality(completions') = Cardinality(completions) - 1
      /\ Cardinality(completions) \in Nat /\ Cardinality(sends) \in Nat
  BY FS_RemoveElement, FS_CardinalityType DEF SendsNumbered
<1>2. QED
  BY <1>1 DEF SendsNumbered, Changes

LEMMA ReceiveCompleted ==
  ASSUME DataOK, Ordered, SendsNumbered, recvs # <<>>, recvs' = Tail(recvs),
         NEW result, NEW data,
         completions' = completions \cup
           {[op |-> "read", order |-> Head(recvs), data |-> data, result |-> result]},
         UNCHANGED <<sends, echoed>>
  PROVE  /\ SendsNumbered'
         /\ Changes(Len(recvs'), Len(recvs), -1)
         /\ Changes(Cardinality(sends'), Cardinality(sends), 0)
         /\ Changes(Cardinality(completions'), Cardinality(completions), 1)
<1> DEFINE c == [op |-> "read", order |-> Head(recvs), data |-> data, result |-> result]
<1>1. c \notin completions
  <2>1. Head(recvs) = recvs[1] /\ 1 \in 1 .. Len(recvs)
    BY DEF DataOK
  <2>2. QED
    BY <2>1 DEF Ordered, CompletionsOrdered
<1>2. c.op = "read" /\ completions' = completions \cup {c}
  OBVIOUS
<1> HIDE DEF c
<1>0. IsFiniteSet(completions) /\ IsFiniteSet(sends)
  BY DEF SendsNumbered
<1>a. IsFiniteSet(completions') /\ Cardinality(completions') = Cardinality(completions) + 1
  BY <1>0, <1>1, <1>2, FS_AddElement
<1>3. /\ IsFiniteSet(completions') /\ Cardinality(completions') = Cardinality(completions) + 1
      /\ Cardinality(completions) \in Nat /\ Cardinality(sends) \in Nat
  BY <1>0, <1>a, FS_CardinalityType
<1>4. Changes(Len(recvs'), Len(recvs), -1)
  BY DEF DataOK, Changes
<1>5. SendsNumbered'
  BY <1>2, <1>3 DEF SendsNumbered
<1>6. QED
  BY <1>3, <1>4, <1>5 DEF Changes

LEMMA SendCompleted ==
  ASSUME DataOK, SendsNumbered, NEW d \in sends, sends' = sends \ {d}, NEW result,
         completions' = completions \cup
           {[op |-> "write", order |-> 0, data |-> d, result |-> result]},
         echoed' = echoed
  PROVE  /\ SendsNumbered'
         /\ Changes(Cardinality(sends'), Cardinality(sends), -1)
         /\ Changes(Cardinality(completions'), Cardinality(completions), 1)
<1> DEFINE c == [op |-> "write", order |-> 0, data |-> d, result |-> result]
<1>2. c.op = "write" /\ c.data = d /\ completions' = completions \cup {c}
  OBVIOUS
<1> HIDE DEF c
<1>1. c \notin completions
  BY <1>2 DEF SendsNumbered
<1>3. /\ IsFiniteSet(completions') /\ Cardinality(completions') = Cardinality(completions) + 1
      /\ Cardinality(completions) \in Nat
  BY <1>1, <1>2, FS_AddElement, FS_CardinalityType DEF SendsNumbered
<1>4. /\ IsFiniteSet(sends') /\ Cardinality(sends') = Cardinality(sends) - 1
      /\ Cardinality(sends) \in Nat
  BY FS_RemoveElement, FS_CardinalityType DEF SendsNumbered
<1>5. SendsNumbered'
  BY <1>2, <1>3, <1>4 DEF SendsNumbered
<1>6. QED
  BY <1>3, <1>4, <1>5 DEF Changes

\* The threads do not move.
LEMMA ThreadsRest ==
  ASSUME ThreadsOK, UNCHANGED <<pc, after>>
  PROVE  /\ Changes(Cardinality(Uncounted'), Cardinality(Uncounted), 0)
         /\ Changes(Cardinality(Undecided'), Cardinality(Undecided), 0)
<1>1. Uncounted' = Uncounted /\ Undecided' = Undecided
  BY DEF Uncounted, Undecided
<1>2. QED
  BY <1>1, FiniteThreads, FS_CardinalityType DEF Changes

LEMMA WorkersRest ==
  ASSUME ThreadsOK, \A w \in Workers : pc'[w] = pc[w], after' = after
  PROVE  Changes(Cardinality(Undecided'), Cardinality(Undecided), 0)
<1>1. Undecided' = Undecided
  BY DEF Undecided
<1>2. QED
  BY <1>1, FiniteThreads, FS_CardinalityType DEF Changes

LEMMA NumbersRest ==
  ASSUME DataOK
  PROVE  /\ OutstandingOps' = OutstandingOps => Changes(OutstandingOps', OutstandingOps, 0)
         /\ OutstandingOps' = OutstandingOps + 1 => Changes(OutstandingOps', OutstandingOps, 1)
         /\ OutstandingOps' = OutstandingOps - 1 => Changes(OutstandingOps', OutstandingOps, -1)
         /\ recvs' = recvs => Changes(Len(recvs'), Len(recvs), 0)
         /\ recvs' = Append(recvs, IoCountIssued) => Changes(Len(recvs'), Len(recvs), 1)
BY DEF DataOK, Changes

(***************************************************************************)
(* Every step keeps the account.                                           *)
(***************************************************************************)
LEMMA AccountKept ==
  ASSUME OrderInv, Accounted, [Next]_vars
  PROVE  Accounted'
<1> TypeOK /\ Ordered /\ SendsFollow /\ SendsNumbered /\ OperationsCounted
  BY DEF OrderInv, Accounted
<1> ThreadsOK /\ DataOK
  BY TypeParts
<1> TypeOK' /\ ThreadsOK' /\ EchoInOrder'
  <2>1. TypeOK'
    BY TypeCorrect DEF Ordered
  <2>2. ThreadsOK'
    BY ThreadsCorrect
  <2>3. EchoInOrder'
    BY SendsKept DEF SendsFollow
  <2>4. QED
    BY <2>1, <2>2, <2>3
<1> SUFFICES SendsNumbered' /\ OperationsCounted'
  BY DEF Accounted
<1>p. /\ pc \in [Threads -> Posting \cup Inside \cup Outside] /\ Poster \notin Workers
      /\ Workers \subseteq Threads /\ Poster \in Threads
      /\ after \in [Workers -> {"recv", "zero", "finish", "leave"}]
  BY ThreadsAssumption DEF ThreadsOK, Threads
<1>1. CASE EchoAcceptData
  <2>1. CASE PostSend(0) /\ Goto(Poster, "countecho")
    <3>a. pc[Poster] = "echo" /\ (pc' = [pc EXCEPT ![Poster] = "countecho"])
      BY <1>1, <2>1 DEF EchoAcceptData, PosterAt, Goto
    <3>b. /\ (pc'[Poster] = "countecho") /\ after' = after
          /\ \A v \in Threads \ {Poster} : pc'[v] = pc[v]
          /\ \A v \in Workers : pc'[v] = pc[v]
      BY <1>1, <2>1, <1>p, <3>a DEF EchoAcceptData, locals
    <3>c. pc'[Poster] \in Uncounting /\ pc[Poster] \notin Uncounting
      BY <3>a, <3>b DEF Uncounting
    <3>d. /\ Changes(Cardinality(Uncounted'), Cardinality(Uncounted), 1)
          /\ Changes(Cardinality(Undecided'), Cardinality(Undecided), 0)
      BY <1>p, <3>b, <3>c, UncountedMoves, WorkersRest
    <3>e. sends' = sends \cup {0} /\ completions' = completions /\ echoed' = Append(echoed, 0)
      BY <1>1, <2>1 DEF EchoAcceptData, PostSend
    <3>f. /\ SendsNumbered'
          /\ Changes(Cardinality(sends'), Cardinality(sends), 1)
          /\ Changes(Cardinality(completions'), Cardinality(completions), 0)
      BY <3>e, SendPosted
    <3>g. OutstandingOps' = OutstandingOps /\ recvs' = recvs
      BY <1>1, <2>1 DEF EchoAcceptData, stack, sockobj, locals, CountOperation
    <3>h. /\ Changes(OutstandingOps', OutstandingOps, 0)
          /\ Changes(Len(recvs'), Len(recvs), 0)
      BY <3>g, NumbersRest
    <3>i. QED
      BY <3>d, <3>f, <3>h, Balanced
  <2>2. CASE PostSendFails /\ Goto(Poster, "giveup") /\ UNCHANGED <<sends, echoed>>
    <3>a. pc[Poster] = "echo" /\ (pc' = [pc EXCEPT ![Poster] = "giveup"])
      BY <1>1, <2>2 DEF EchoAcceptData, PosterAt, Goto
    <3>b. /\ (pc'[Poster] = "giveup") /\ after' = after
          /\ \A v \in Threads \ {Poster} : pc'[v] = pc[v]
          /\ \A v \in Workers : pc'[v] = pc[v]
      BY <1>1, <2>2, <1>p, <3>a DEF EchoAcceptData, locals
    <3>c. (pc'[Poster] \in Uncounting <=> pc[Poster] \in Uncounting)
      BY <3>a, <3>b DEF Uncounting
    <3>d. /\ Changes(Cardinality(Uncounted'), Cardinality(Uncounted), 0)
          /\ Changes(Cardinality(Undecided'), Cardinality(Undecided), 0)
      BY <1>p, <3>b, <3>c, UncountedMoves, WorkersRest
    <3>e. UNCHANGED <<sends, completions, echoed>>
      BY <1>1, <2>2 DEF EchoAcceptData, stack, sockobj, locals
    <3>f. /\ SendsNumbered'
          /\ Changes(Cardinality(sends'), Cardinality(sends), 0)
          /\ Changes(Cardinality(completions'), Cardinality(completions), 0)
      BY <3>e, NothingPosted
    <3>g. OutstandingOps' = OutstandingOps /\ recvs' = recvs
      BY <1>1, <2>2 DEF EchoAcceptData, stack, sockobj, locals, CountOperation
    <3>h. /\ Changes(OutstandingOps', OutstandingOps, 0)
          /\ Changes(Len(recvs'), Len(recvs), 0)
      BY <3>g, NumbersRest
    <3>i. QED
      BY <3>d, <3>f, <3>h, Balanced
  <2>3. QED
    BY <1>1, <2>1, <2>2 DEF EchoAcceptData
<1>2. CASE PostFirstRecvs
  <2>1. CASE PostRecv /\ Goto(Poster, "countpost")
    <3>a. pc[Poster] = "post" /\ (pc' = [pc EXCEPT ![Poster] = "countpost"])
      BY <1>2, <2>1 DEF PostFirstRecvs, PosterAt, Goto
    <3>b. /\ (pc'[Poster] = "countpost") /\ after' = after
          /\ \A v \in Threads \ {Poster} : pc'[v] = pc[v]
          /\ \A v \in Workers : pc'[v] = pc[v]
      BY <1>2, <2>1, <1>p, <3>a DEF PostFirstRecvs, locals
    <3>c. pc'[Poster] \in Uncounting /\ pc[Poster] \notin Uncounting
      BY <3>a, <3>b DEF Uncounting
    <3>d. /\ Changes(Cardinality(Uncounted'), Cardinality(Uncounted), 1)
          /\ Changes(Cardinality(Undecided'), Cardinality(Undecided), 0)
      BY <1>p, <3>b, <3>c, UncountedMoves, WorkersRest
    <3>e. UNCHANGED <<sends, completions, echoed>>
      BY <1>2, <2>1 DEF PostFirstRecvs, stack, sockobj, locals
    <3>f. /\ SendsNumbered'
          /\ Changes(Cardinality(sends'), Cardinality(sends), 0)
          /\ Changes(Cardinality(completions'), Cardinality(completions), 0)
      BY <3>e, NothingPosted
    <3>g. OutstandingOps' = OutstandingOps /\ recvs' = Append(recvs, IoCountIssued)
      BY <1>2, <2>1 DEF PostFirstRecvs, stack, sockobj, locals, CountOperation, PostRecv
    <3>h. /\ Changes(OutstandingOps', OutstandingOps, 0)
          /\ Changes(Len(recvs'), Len(recvs), 1)
      BY <3>g, NumbersRest
    <3>i. QED
      BY <3>d, <3>f, <3>h, Balanced
  <2>2. CASE PostRecvFails /\ (\E place \in {"giveup", "post", "done"} : Goto(Poster, place)) /\ UNCHANGED recvs
    <3>a. pc[Poster] = "post" /\ (pc' = [pc EXCEPT ![Poster] = "giveup"] \/ pc' = [pc EXCEPT ![Poster] = "post"] \/ pc' = [pc EXCEPT ![Poster] = "done"])
      BY <1>2, <2>2 DEF PostFirstRecvs, PosterAt, Goto
    <3>b. /\ (pc'[Poster] = "giveup" \/ pc'[Poster] = "post" \/ pc'[Poster] = "done") /\ after' = after
          /\ \A v \in Threads \ {Poster} : pc'[v] = pc[v]
          /\ \A v \in Workers : pc'[v] = pc[v]
      BY <1>2, <2>2, <1>p, <3>a DEF PostFirstRecvs, locals
    <3>c. (pc'[Poster] \in Uncounting <=> pc[Poster] \in Uncounting)
      BY <3>a, <3>b DEF Uncounting
    <3>d. /\ Changes(Cardinality(Uncounted'), Cardinality(Uncounted), 0)
          /\ Changes(Cardinality(Undecided'), Cardinality(Undecided), 0)
      BY <1>p, <3>b, <3>c, UncountedMoves, WorkersRest
    <3>e. UNCHANGED <<sends, completions, echoed>>
      BY <1>2, <2>2 DEF PostFirstRecvs, stack, sockobj, locals
    <3>f. /\ SendsNumbered'
          /\ Changes(Cardinality(sends'), Cardinality(sends), 0)
          /\ Changes(Cardinality(completions'), Cardinality(completions), 0)
      BY <3>e, NothingPosted
    <3>g. OutstandingOps' = OutstandingOps /\ recvs' = recvs
      BY <1>2, <2>2 DEF PostFirstRecvs, stack, sockobj, locals, CountOperation
    <3>h. /\ Changes(OutstandingOps', OutstandingOps, 0)
          /\ Changes(Len(recvs'), Len(recvs), 0)
      BY <3>g, NumbersRest
    <3>i. QED
      BY <3>d, <3>f, <3>h, Balanced
  <2>3. QED
    BY <1>2, <2>1, <2>2 DEF PostFirstRecvs, NextPost
<1>3. CASE CountFirst
  <2>a. pc[Poster] \in {"countecho", "countpost"} /\ (pc' = [pc EXCEPT ![Poster] = "post"] \/ pc' = [pc EXCEPT ![Poster] = "done"])
    BY <1>3 DEF CountFirst, PosterAt, Goto, NextPost
  <2>b. /\ (pc'[Poster] = "post" \/ pc'[Poster] = "done") /\ after' = after
        /\ \A v \in Threads \ {Poster} : pc'[v] = pc[v]
        /\ \A v \in Workers : pc'[v] = pc[v]
    BY <1>3, <1>p, <2>a DEF CountFirst, locals
  <2>c. pc'[Poster] \notin Uncounting /\ pc[Poster] \in Uncounting
    BY <2>a, <2>b DEF Uncounting
  <2>d. /\ Changes(Cardinality(Uncounted'), Cardinality(Uncounted), -1)
        /\ Changes(Cardinality(Undecided'), Cardinality(Undecided), 0)
    BY <1>p, <2>b, <2>c, UncountedMoves, WorkersRest
  <2>e. UNCHANGED <<sends, completions, echoed>>
    BY <1>3 DEF CountFirst, stack, sockobj, locals
  <2>f. /\ SendsNumbered'
        /\ Changes(Cardinality(sends'), Cardinality(sends), 0)
        /\ Changes(Cardinality(completions'), Cardinality(completions), 0)
    BY <2>e, NothingPosted
  <2>g. OutstandingOps' = OutstandingOps + 1 /\ recvs' = recvs
    BY <1>3 DEF CountFirst, stack, sockobj, locals, CountOperation
  <2>h. /\ Changes(OutstandingOps', OutstandingOps, 1)
        /\ Changes(Len(recvs'), Len(recvs), 0)
    BY <2>g, NumbersRest
  <2>i. QED
    BY <2>d, <2>f, <2>h, Balanced
<1>4. CASE GiveUp
  <2>a. pc[Poster] = "giveup" /\ pc' = [pc EXCEPT ![Poster] = "done"]
    BY <1>4 DEF GiveUp, PosterAt, Goto
  <2>b. /\ pc'[Poster] = "done" /\ after' = after
        /\ \A v \in Threads \ {Poster} : pc'[v] = pc[v]
        /\ \A v \in Workers : pc'[v] = pc[v]
    BY <1>4, <1>p, <2>a DEF GiveUp, locals
  <2>c. (pc'[Poster] \in Uncounting <=> pc[Poster] \in Uncounting)
    BY <2>a, <2>b DEF Uncounting
  <2>d. /\ Changes(Cardinality(Uncounted'), Cardinality(Uncounted), 0)
        /\ Changes(Cardinality(Undecided'), Cardinality(Undecided), 0)
    BY <1>p, <2>b, <2>c, UncountedMoves, WorkersRest
  <2>e. UNCHANGED <<sends, completions, echoed>>
    BY <1>4 DEF GiveUp, stack, sockobj, locals
  <2>f. /\ SendsNumbered'
        /\ Changes(Cardinality(sends'), Cardinality(sends), 0)
        /\ Changes(Cardinality(completions'), Cardinality(completions), 0)
    BY <2>e, NothingPosted
  <2>g. OutstandingOps' = OutstandingOps /\ recvs' = recvs
    BY <1>4 DEF GiveUp, stack, sockobj, locals, CountOperation
  <2>h. /\ Changes(OutstandingOps', OutstandingOps, 0)
        /\ Changes(Len(recvs'), Len(recvs), 0)
    BY <2>g, NumbersRest
  <2>i. QED
    BY <2>d, <2>f, <2>h, Balanced
<1>5. ASSUME NEW w \in Workers, NEW c \in completions, DropFailed(w, c) PROVE SendsNumbered' /\ OperationsCounted'
  <2>a. pc[w] = "idle" /\ (pc' = [pc EXCEPT ![w] = "free"] \/ pc' = [pc EXCEPT ![w] = "idle"]) /\ after' = after
    BY <1>5 DEF DropFailed, GetQueuedCompletionStatus, WorkerAt, Goto, locals
  <2>b. /\ (pc'[w] = "free" \/ pc'[w] = "idle") /\ after'[w] = after[w]
        /\ \A v \in Threads \ {w} : pc'[v] = pc[v]
        /\ \A v \in Workers \ {w} : pc'[v] = pc[v] /\ after'[v] = after[v]
    BY <1>p, <2>a
  <2>c. (pc'[w] \in Uncounting <=> pc[w] \in Uncounting) /\ (Deciding(w)' <=> Deciding(w))
    BY <2>a, <2>b DEF Uncounting, Deciding
  <2>d. /\ Changes(Cardinality(Uncounted'), Cardinality(Uncounted), 0)
        /\ Changes(Cardinality(Undecided'), Cardinality(Undecided), 0)
    BY <1>p, <2>b, <2>c, UncountedMoves, UndecidedMoves
  <2>e. completions' = completions \ {c} /\ UNCHANGED <<sends, echoed>>
    BY <1>5 DEF DropFailed, GetQueuedCompletionStatus
  <2>f. /\ SendsNumbered'
        /\ Changes(Cardinality(sends'), Cardinality(sends), 0)
        /\ Changes(Cardinality(completions'), Cardinality(completions), -1)
    BY <2>e, CompletionTaken
  <2>g. OutstandingOps' = OutstandingOps - 1 /\ recvs' = recvs
    BY <1>5 DEF DropFailed, stack, sockobj, locals, CountOperation
  <2>h. /\ Changes(OutstandingOps', OutstandingOps, -1)
        /\ Changes(Len(recvs'), Len(recvs), 0)
    BY <2>g, NumbersRest
  <2>i. QED
    BY <2>d, <2>f, <2>h, Balanced
<1>6. ASSUME NEW w \in Workers, NEW c \in completions, HandleIo(w, c) PROVE SendsNumbered' /\ OperationsCounted'
  <2>x. \E x \in {"finish", "zero", "recv"} : after' = [after EXCEPT ![w] = x]
    <3>1. CASE c.op = "write"
      <4>1. c.result # "zero"
        BY <3>1 DEF Ordered, CompletionsOrdered
      <4>2. QED
        BY <1>6, <3>1, <4>1 DEF HandleIo
    <3>2. CASE c.op # "write" /\ c.result = "zero"
      BY <1>6, <3>2 DEF HandleIo
    <3>3. CASE c.op # "write" /\ c.result # "zero"
      BY <1>6, <3>3 DEF HandleIo
    <3>4. QED
      BY <3>1, <3>2, <3>3
  <2>a. pc[w] = "idle" /\ (pc' = [pc EXCEPT ![w] = "recv"] \/ pc' = [pc EXCEPT ![w] = "sends"])
    BY <1>6 DEF HandleIo, GetQueuedCompletionStatus, WorkerAt, Goto, locals
  <2>b. /\ (pc'[w] = "recv" \/ pc'[w] = "sends") /\ after'[w] # "leave"
        /\ \A v \in Threads \ {w} : pc'[v] = pc[v]
        /\ \A v \in Workers \ {w} : pc'[v] = pc[v] /\ after'[v] = after[v]
    BY <1>p, <2>a, <2>x
  <2>c. (pc'[w] \in Uncounting <=> pc[w] \in Uncounting) /\ Deciding(w)' /\ ~Deciding(w)
    BY <2>a, <2>b DEF Uncounting, Deciding
  <2>d. /\ Changes(Cardinality(Uncounted'), Cardinality(Uncounted), 0)
        /\ Changes(Cardinality(Undecided'), Cardinality(Undecided), 1)
    BY <1>p, <2>b, <2>c, UncountedMoves, UndecidedMoves
  <2>e. completions' = completions \ {c} /\ UNCHANGED <<sends, echoed>>
    BY <1>6 DEF HandleIo, GetQueuedCompletionStatus
  <2>f. /\ SendsNumbered'
        /\ Changes(Cardinality(sends'), Cardinality(sends), 0)
        /\ Changes(Cardinality(completions'), Cardinality(completions), -1)
    BY <2>e, CompletionTaken
  <2>g. OutstandingOps' = OutstandingOps /\ recvs' = recvs
    BY <1>6 DEF HandleIo, stack, sockobj, locals, CountOperation
  <2>h. /\ Changes(OutstandingOps', OutstandingOps, 0)
        /\ Changes(Len(recvs'), Len(recvs), 0)
    BY <2>g, NumbersRest
  <2>i. QED
    BY <2>d, <2>f, <2>h, Balanced
<1>7. ASSUME NEW w \in Workers, FreeSocketObj(w) PROVE SendsNumbered' /\ OperationsCounted'
  <2>a. pc[w] = "free" /\ pc' = [pc EXCEPT ![w] = "idle"] /\ after' = after
    BY <1>7 DEF FreeSocketObj, GetQueuedCompletionStatus, WorkerAt, Goto, locals
  <2>b. /\ (pc'[w] = "idle") /\ after'[w] = after[w]
        /\ \A v \in Threads \ {w} : pc'[v] = pc[v]
        /\ \A v \in Workers \ {w} : pc'[v] = pc[v] /\ after'[v] = after[v]
    BY <1>p, <2>a
  <2>c. (pc'[w] \in Uncounting <=> pc[w] \in Uncounting) /\ (Deciding(w)' <=> Deciding(w))
    BY <2>a, <2>b DEF Uncounting, Deciding
  <2>d. /\ Changes(Cardinality(Uncounted'), Cardinality(Uncounted), 0)
        /\ Changes(Cardinality(Undecided'), Cardinality(Undecided), 0)
    BY <1>p, <2>b, <2>c, UncountedMoves, UndecidedMoves
  <2>e. UNCHANGED <<sends, completions, echoed>>
    BY <1>7 DEF FreeSocketObj, stack, sockobj, locals
  <2>f. /\ SendsNumbered'
        /\ Changes(Cardinality(sends'), Cardinality(sends), 0)
        /\ Changes(Cardinality(completions'), Cardinality(completions), 0)
    BY <2>e, NothingPosted
  <2>g. OutstandingOps' = OutstandingOps /\ recvs' = recvs
    BY <1>7 DEF FreeSocketObj, stack, sockobj, locals, CountOperation
  <2>h. /\ Changes(OutstandingOps', OutstandingOps, 0)
        /\ Changes(Len(recvs'), Len(recvs), 0)
    BY <2>g, NumbersRest
  <2>i. QED
    BY <2>d, <2>f, <2>h, Balanced
<1>8. ASSUME NEW w \in Workers, DoSendsPost(w) PROVE SendsNumbered' /\ OperationsCounted'
  <2>a. pc[w] = "sends" /\ pc' = [pc EXCEPT ![w] = "sent"] /\ after' = after
    BY <1>8 DEF DoSendsPost, GetQueuedCompletionStatus, WorkerAt, Goto, locals
  <2>b. /\ (pc'[w] = "sent") /\ after'[w] = after[w]
        /\ \A v \in Threads \ {w} : pc'[v] = pc[v]
        /\ \A v \in Workers \ {w} : pc'[v] = pc[v] /\ after'[v] = after[v]
    BY <1>p, <2>a
  <2>c. pc'[w] \in Uncounting /\ pc[w] \notin Uncounting /\ (Deciding(w)' <=> Deciding(w))
    BY <2>a, <2>b DEF Uncounting, Deciding
  <2>d. /\ Changes(Cardinality(Uncounted'), Cardinality(Uncounted), 1)
        /\ Changes(Cardinality(Undecided'), Cardinality(Undecided), 0)
    BY <1>p, <2>b, <2>c, UncountedMoves, UndecidedMoves
  <2>x. Head(OutOfOrderSends).data \in Nat
    BY <1>8, Sequences_ DEF DoSendsPost, NextIsReady
  <2>e. /\ sends' = sends \cup {Head(OutOfOrderSends).data} /\ completions' = completions
        /\ echoed' = Append(echoed, Head(OutOfOrderSends).data)
    BY <1>8 DEF DoSendsPost, PostSend
  <2>f. /\ SendsNumbered'
        /\ Changes(Cardinality(sends'), Cardinality(sends), 1)
        /\ Changes(Cardinality(completions'), Cardinality(completions), 0)
    BY <2>e, <2>x, SendPosted
  <2>g. OutstandingOps' = OutstandingOps /\ recvs' = recvs
    BY <1>8 DEF DoSendsPost, stack, sockobj, locals, CountOperation
  <2>h. /\ Changes(OutstandingOps', OutstandingOps, 0)
        /\ Changes(Len(recvs'), Len(recvs), 0)
    BY <2>g, NumbersRest
  <2>i. QED
    BY <2>d, <2>f, <2>h, Balanced
<1>9. ASSUME NEW w \in Workers, DoSendsCount(w) PROVE SendsNumbered' /\ OperationsCounted'
  <2>a. pc[w] = "sent" /\ pc' = [pc EXCEPT ![w] = "sends"] /\ after' = after
    BY <1>9 DEF DoSendsCount, GetQueuedCompletionStatus, WorkerAt, Goto, locals
  <2>b. /\ (pc'[w] = "sends") /\ after'[w] = after[w]
        /\ \A v \in Threads \ {w} : pc'[v] = pc[v]
        /\ \A v \in Workers \ {w} : pc'[v] = pc[v] /\ after'[v] = after[v]
    BY <1>p, <2>a
  <2>c. pc'[w] \notin Uncounting /\ pc[w] \in Uncounting /\ (Deciding(w)' <=> Deciding(w))
    BY <2>a, <2>b DEF Uncounting, Deciding
  <2>d. /\ Changes(Cardinality(Uncounted'), Cardinality(Uncounted), -1)
        /\ Changes(Cardinality(Undecided'), Cardinality(Undecided), 0)
    BY <1>p, <2>b, <2>c, UncountedMoves, UndecidedMoves
  <2>e. UNCHANGED <<sends, completions, echoed>>
    BY <1>9 DEF DoSendsCount, stack, sockobj, locals
  <2>f. /\ SendsNumbered'
        /\ Changes(Cardinality(sends'), Cardinality(sends), 0)
        /\ Changes(Cardinality(completions'), Cardinality(completions), 0)
    BY <2>e, NothingPosted
  <2>g. OutstandingOps' = OutstandingOps + 1 /\ recvs' = recvs
    BY <1>9 DEF DoSendsCount, stack, sockobj, locals, CountOperation
  <2>h. /\ Changes(OutstandingOps', OutstandingOps, 1)
        /\ Changes(Len(recvs'), Len(recvs), 0)
    BY <2>g, NumbersRest
  <2>i. QED
    BY <2>d, <2>f, <2>h, Balanced
<1>10. ASSUME NEW w \in Workers, DoSendsReturn(w) PROVE SendsNumbered' /\ OperationsCounted'
  <2>a. /\ pc[w] = "sends"
        /\ \/ after[w] = "leave" /\ \E place \in {"idle", "close"} : pc' = [pc EXCEPT ![w] = place] /\ after' = [after EXCEPT ![w] = "finish"]
           \/ after[w] # "leave" /\ after' = after /\ \E place \in {"recv", "zero", "finish"} : pc' = [pc EXCEPT ![w] = place]
    BY <1>10, <1>p DEF DoSendsReturn, WorkerAt, Goto, LeaveCriticalSection
  <2>b. /\ (after[w] = "leave" => pc'[w] \in {"idle", "close"})
        /\ (after[w] # "leave" => pc'[w] \in {"recv", "zero", "finish"})
        /\ \A v \in Threads \ {w} : pc'[v] = pc[v]
        /\ \A v \in Workers \ {w} : pc'[v] = pc[v] /\ after'[v] = after[v]
    BY <1>p, <2>a
  <2>c. /\ (pc'[w] \in Uncounting <=> pc[w] \in Uncounting)
        /\ (Deciding(w)' <=> Deciding(w))
    BY <2>a, <2>b DEF Uncounting, Deciding
  <2>d. /\ Changes(Cardinality(Uncounted'), Cardinality(Uncounted), 0)
        /\ Changes(Cardinality(Undecided'), Cardinality(Undecided), 0)
    BY <1>p, <2>b, <2>c, UncountedMoves, UndecidedMoves
  <2>e. UNCHANGED <<sends, completions, echoed>>
    BY <1>10 DEF DoSendsReturn, stack, sockobj, locals, LeaveCriticalSection
  <2>f. /\ SendsNumbered'
        /\ Changes(Cardinality(sends'), Cardinality(sends), 0)
        /\ Changes(Cardinality(completions'), Cardinality(completions), 0)
    BY <2>e, NothingPosted
  <2>g. OutstandingOps' = OutstandingOps /\ recvs' = recvs
    BY <1>10 DEF DoSendsReturn, stack, sockobj, locals, LeaveCriticalSection, CountOperation
  <2>h. /\ Changes(OutstandingOps', OutstandingOps, 0)
        /\ Changes(Len(recvs'), Len(recvs), 0)
    BY <2>g, NumbersRest
  <2>i. QED
    BY <2>d, <2>f, <2>h, Balanced
<1>11. ASSUME NEW w \in Workers, DoSendsFail(w) PROVE SendsNumbered' /\ OperationsCounted'
  <2>a. /\ pc[w] = "sends"
        /\ \/ after[w] = "leave" /\ \E place \in {"idle", "close"} : pc' = [pc EXCEPT ![w] = place] /\ after' = [after EXCEPT ![w] = "finish"]
           \/ after[w] # "leave" /\ after' = after /\ \E place \in {"recv", "zero", "finish"} : pc' = [pc EXCEPT ![w] = place]
    BY <1>11, <1>p DEF DoSendsFail, WorkerAt, Goto, LeaveCriticalSection
  <2>b. /\ (after[w] = "leave" => pc'[w] \in {"idle", "close"})
        /\ (after[w] # "leave" => pc'[w] \in {"recv", "zero", "finish"})
        /\ \A v \in Threads \ {w} : pc'[v] = pc[v]
        /\ \A v \in Workers \ {w} : pc'[v] = pc[v] /\ after'[v] = after[v]
    BY <1>p, <2>a
  <2>c. /\ (pc'[w] \in Uncounting <=> pc[w] \in Uncounting)
        /\ (Deciding(w)' <=> Deciding(w))
    BY <2>a, <2>b DEF Uncounting, Deciding
  <2>d. /\ Changes(Cardinality(Uncounted'), Cardinality(Uncounted), 0)
        /\ Changes(Cardinality(Undecided'), Cardinality(Undecided), 0)
    BY <1>p, <2>b, <2>c, UncountedMoves, UndecidedMoves
  <2>e. UNCHANGED <<sends, completions, echoed>>
    BY <1>11 DEF DoSendsFail, stack, sockobj, locals, LeaveCriticalSection
  <2>f. /\ SendsNumbered'
        /\ Changes(Cardinality(sends'), Cardinality(sends), 0)
        /\ Changes(Cardinality(completions'), Cardinality(completions), 0)
    BY <2>e, NothingPosted
  <2>g. OutstandingOps' = OutstandingOps /\ recvs' = recvs
    BY <1>11 DEF DoSendsFail, stack, sockobj, locals, LeaveCriticalSection, CountOperation
  <2>h. /\ Changes(OutstandingOps', OutstandingOps, 0)
        /\ Changes(Len(recvs'), Len(recvs), 0)
    BY <2>g, NumbersRest
  <2>i. QED
    BY <2>d, <2>f, <2>h, Balanced
<1>12. ASSUME NEW w \in Workers, RepostRecv(w) PROVE SendsNumbered' /\ OperationsCounted'
  <2>1. CASE PostRecv /\ Goto(w, "count") /\ UNCHANGED <<error, disturbed>>
    <3>a. pc[w] = "recv" /\ pc' = [pc EXCEPT ![w] = "count"] /\ after' = after
      BY <1>12, <2>1 DEF RepostRecv, GetQueuedCompletionStatus, WorkerAt, Goto, locals
    <3>b. /\ (pc'[w] = "count") /\ after'[w] = after[w]
          /\ \A v \in Threads \ {w} : pc'[v] = pc[v]
          /\ \A v \in Workers \ {w} : pc'[v] = pc[v] /\ after'[v] = after[v]
      BY <1>p, <3>a
    <3>c. pc'[w] \in Uncounting /\ pc[w] \notin Uncounting /\ (Deciding(w)' <=> Deciding(w))
      BY <3>a, <3>b DEF Uncounting, Deciding
    <3>d. /\ Changes(Cardinality(Uncounted'), Cardinality(Uncounted), 1)
          /\ Changes(Cardinality(Undecided'), Cardinality(Undecided), 0)
      BY <1>p, <3>b, <3>c, UncountedMoves, UndecidedMoves
    <3>e. UNCHANGED <<sends, completions, echoed>>
      BY <1>12, <2>1 DEF RepostRecv, stack, sockobj, locals
    <3>f. /\ SendsNumbered'
          /\ Changes(Cardinality(sends'), Cardinality(sends), 0)
          /\ Changes(Cardinality(completions'), Cardinality(completions), 0)
      BY <3>e, NothingPosted
    <3>g. OutstandingOps' = OutstandingOps /\ recvs' = Append(recvs, IoCountIssued)
      BY <1>12, <2>1 DEF RepostRecv, stack, sockobj, locals, CountOperation, PostRecv
    <3>h. /\ Changes(OutstandingOps', OutstandingOps, 0)
          /\ Changes(Len(recvs'), Len(recvs), 1)
      BY <3>g, NumbersRest
    <3>i. QED
      BY <3>d, <3>f, <3>h, Balanced
  <2>2. CASE PostRecvFails /\ error' = [error EXCEPT ![w] = TRUE] /\ Goto(w, "finish") /\ UNCHANGED recvs
    <3>a. pc[w] = "recv" /\ pc' = [pc EXCEPT ![w] = "finish"] /\ after' = after
      BY <1>12, <2>2 DEF RepostRecv, GetQueuedCompletionStatus, WorkerAt, Goto, locals
    <3>b. /\ (pc'[w] = "finish") /\ after'[w] = after[w]
          /\ \A v \in Threads \ {w} : pc'[v] = pc[v]
          /\ \A v \in Workers \ {w} : pc'[v] = pc[v] /\ after'[v] = after[v]
      BY <1>p, <3>a
    <3>c. (pc'[w] \in Uncounting <=> pc[w] \in Uncounting) /\ (Deciding(w)' <=> Deciding(w))
      BY <3>a, <3>b DEF Uncounting, Deciding
    <3>d. /\ Changes(Cardinality(Uncounted'), Cardinality(Uncounted), 0)
          /\ Changes(Cardinality(Undecided'), Cardinality(Undecided), 0)
      BY <1>p, <3>b, <3>c, UncountedMoves, UndecidedMoves
    <3>e. UNCHANGED <<sends, completions, echoed>>
      BY <1>12, <2>2 DEF RepostRecv, stack, sockobj, locals
    <3>f. /\ SendsNumbered'
          /\ Changes(Cardinality(sends'), Cardinality(sends), 0)
          /\ Changes(Cardinality(completions'), Cardinality(completions), 0)
      BY <3>e, NothingPosted
    <3>g. OutstandingOps' = OutstandingOps /\ recvs' = recvs
      BY <1>12, <2>2 DEF RepostRecv, stack, sockobj, locals, CountOperation
    <3>h. /\ Changes(OutstandingOps', OutstandingOps, 0)
          /\ Changes(Len(recvs'), Len(recvs), 0)
      BY <3>g, NumbersRest
    <3>i. QED
      BY <3>d, <3>f, <3>h, Balanced
  <2>3. QED
    BY <1>12, <2>1, <2>2 DEF RepostRecv
<1>13. ASSUME NEW w \in Workers, CountRecv(w) PROVE SendsNumbered' /\ OperationsCounted'
  <2>a. pc[w] = "count" /\ pc' = [pc EXCEPT ![w] = "finish"] /\ after' = after
    BY <1>13 DEF CountRecv, GetQueuedCompletionStatus, WorkerAt, Goto, locals
  <2>b. /\ (pc'[w] = "finish") /\ after'[w] = after[w]
        /\ \A v \in Threads \ {w} : pc'[v] = pc[v]
        /\ \A v \in Workers \ {w} : pc'[v] = pc[v] /\ after'[v] = after[v]
    BY <1>p, <2>a
  <2>c. pc'[w] \notin Uncounting /\ pc[w] \in Uncounting /\ (Deciding(w)' <=> Deciding(w))
    BY <2>a, <2>b DEF Uncounting, Deciding
  <2>d. /\ Changes(Cardinality(Uncounted'), Cardinality(Uncounted), -1)
        /\ Changes(Cardinality(Undecided'), Cardinality(Undecided), 0)
    BY <1>p, <2>b, <2>c, UncountedMoves, UndecidedMoves
  <2>e. UNCHANGED <<sends, completions, echoed>>
    BY <1>13 DEF CountRecv, stack, sockobj, locals
  <2>f. /\ SendsNumbered'
        /\ Changes(Cardinality(sends'), Cardinality(sends), 0)
        /\ Changes(Cardinality(completions'), Cardinality(completions), 0)
    BY <2>e, NothingPosted
  <2>g. OutstandingOps' = OutstandingOps + 1 /\ recvs' = recvs
    BY <1>13 DEF CountRecv, stack, sockobj, locals, CountOperation
  <2>h. /\ Changes(OutstandingOps', OutstandingOps, 1)
        /\ Changes(Len(recvs'), Len(recvs), 0)
    BY <2>g, NumbersRest
  <2>i. QED
    BY <2>d, <2>f, <2>h, Balanced
<1>14. ASSUME NEW w \in Workers, ZeroByteReceive(w) PROVE SendsNumbered' /\ OperationsCounted'
  <2>a. pc[w] = "zero" /\ pc' = [pc EXCEPT ![w] = "finish"] /\ after' = after
    BY <1>14 DEF ZeroByteReceive, GetQueuedCompletionStatus, WorkerAt, Goto, locals
  <2>b. /\ (pc'[w] = "finish") /\ after'[w] = after[w]
        /\ \A v \in Threads \ {w} : pc'[v] = pc[v]
        /\ \A v \in Workers \ {w} : pc'[v] = pc[v] /\ after'[v] = after[v]
    BY <1>p, <2>a
  <2>c. (pc'[w] \in Uncounting <=> pc[w] \in Uncounting) /\ (Deciding(w)' <=> Deciding(w))
    BY <2>a, <2>b DEF Uncounting, Deciding
  <2>d. /\ Changes(Cardinality(Uncounted'), Cardinality(Uncounted), 0)
        /\ Changes(Cardinality(Undecided'), Cardinality(Undecided), 0)
    BY <1>p, <2>b, <2>c, UncountedMoves, UndecidedMoves
  <2>e. UNCHANGED <<sends, completions, echoed>>
    BY <1>14 DEF ZeroByteReceive, stack, sockobj, locals
  <2>f. /\ SendsNumbered'
        /\ Changes(Cardinality(sends'), Cardinality(sends), 0)
        /\ Changes(Cardinality(completions'), Cardinality(completions), 0)
    BY <2>e, NothingPosted
  <2>g. OutstandingOps' = OutstandingOps /\ recvs' = recvs
    BY <1>14 DEF ZeroByteReceive, stack, sockobj, locals, CountOperation
  <2>h. /\ Changes(OutstandingOps', OutstandingOps, 0)
        /\ Changes(Len(recvs'), Len(recvs), 0)
    BY <2>g, NumbersRest
  <2>i. QED
    BY <2>d, <2>f, <2>h, Balanced
<1>15. ASSUME NEW w \in Workers, CheckClosing(w) PROVE SendsNumbered' /\ OperationsCounted'
  <2>a. /\ pc[w] = "finish"
        /\ \/ \E place \in {"idle", "close"} : pc' = [pc EXCEPT ![w] = place] /\ after' = [after EXCEPT ![w] = "finish"]
           \/ pc' = [pc EXCEPT ![w] = "sends"] /\ after' = [after EXCEPT ![w] = "leave"]
    BY <1>15 DEF CheckClosing, WorkerAt, Goto, LeaveCriticalSection
  <2>b. /\ pc'[w] \in {"sends", "idle", "close"} /\ (pc'[w] = "sends" => after'[w] = "leave")
        /\ \A v \in Threads \ {w} : pc'[v] = pc[v]
        /\ \A v \in Workers \ {w} : pc'[v] = pc[v] /\ after'[v] = after[v]
    BY <1>p, <2>a
  <2>c. /\ (pc'[w] \in Uncounting <=> pc[w] \in Uncounting)
        /\ ~Deciding(w)' /\ Deciding(w)
    BY <2>a, <2>b DEF Uncounting, Deciding
  <2>d. /\ Changes(Cardinality(Uncounted'), Cardinality(Uncounted), 0)
        /\ Changes(Cardinality(Undecided'), Cardinality(Undecided), -1)
    BY <1>p, <2>b, <2>c, UncountedMoves, UndecidedMoves
  <2>e. UNCHANGED <<sends, completions, echoed>>
    BY <1>15 DEF CheckClosing, stack, sockobj, locals, LeaveCriticalSection
  <2>f. /\ SendsNumbered'
        /\ Changes(Cardinality(sends'), Cardinality(sends), 0)
        /\ Changes(Cardinality(completions'), Cardinality(completions), 0)
    BY <2>e, NothingPosted
  <2>g. OutstandingOps' = OutstandingOps - 1 /\ recvs' = recvs
    BY <1>15 DEF CheckClosing, stack, sockobj, locals, LeaveCriticalSection, CountOperation
  <2>h. /\ Changes(OutstandingOps', OutstandingOps, -1)
        /\ Changes(Len(recvs'), Len(recvs), 0)
    BY <2>g, NumbersRest
  <2>i. QED
    BY <2>d, <2>f, <2>h, Balanced
<1>16. ASSUME NEW w \in Workers, CloseSocket(w) PROVE SendsNumbered' /\ OperationsCounted'
  <2>a. pc[w] = "close" /\ pc' = [pc EXCEPT ![w] = "free"] /\ after' = after
    BY <1>16 DEF CloseSocket, GetQueuedCompletionStatus, WorkerAt, Goto, locals
  <2>b. /\ (pc'[w] = "free") /\ after'[w] = after[w]
        /\ \A v \in Threads \ {w} : pc'[v] = pc[v]
        /\ \A v \in Workers \ {w} : pc'[v] = pc[v] /\ after'[v] = after[v]
    BY <1>p, <2>a
  <2>c. (pc'[w] \in Uncounting <=> pc[w] \in Uncounting) /\ (Deciding(w)' <=> Deciding(w))
    BY <2>a, <2>b DEF Uncounting, Deciding
  <2>d. /\ Changes(Cardinality(Uncounted'), Cardinality(Uncounted), 0)
        /\ Changes(Cardinality(Undecided'), Cardinality(Undecided), 0)
    BY <1>p, <2>b, <2>c, UncountedMoves, UndecidedMoves
  <2>e. UNCHANGED <<sends, completions, echoed>>
    BY <1>16 DEF CloseSocket, stack, sockobj, locals
  <2>f. /\ SendsNumbered'
        /\ Changes(Cardinality(sends'), Cardinality(sends), 0)
        /\ Changes(Cardinality(completions'), Cardinality(completions), 0)
    BY <2>e, NothingPosted
  <2>g. OutstandingOps' = OutstandingOps /\ recvs' = recvs
    BY <1>16 DEF CloseSocket, stack, sockobj, locals, CountOperation
  <2>h. /\ Changes(OutstandingOps', OutstandingOps, 0)
        /\ Changes(Len(recvs'), Len(recvs), 0)
    BY <2>g, NumbersRest
  <2>i. QED
    BY <2>d, <2>f, <2>h, Balanced
<1>17. ASSUME NEW t \in Threads, UseAfterFree(t) PROVE SendsNumbered' /\ OperationsCounted'
  <2>a. UNCHANGED <<pc, after>>
    BY <1>17 DEF UseAfterFree, locals
  <2>d. /\ Changes(Cardinality(Uncounted'), Cardinality(Uncounted), 0)
        /\ Changes(Cardinality(Undecided'), Cardinality(Undecided), 0)
    BY <2>a, ThreadsRest
  <2>e. UNCHANGED <<sends, completions, echoed>>
    BY <1>17 DEF UseAfterFree, stack, sockobj, locals
  <2>f. /\ SendsNumbered'
        /\ Changes(Cardinality(sends'), Cardinality(sends), 0)
        /\ Changes(Cardinality(completions'), Cardinality(completions), 0)
    BY <2>e, NothingPosted
  <2>g. OutstandingOps' = OutstandingOps /\ recvs' = recvs
    BY <1>17 DEF UseAfterFree, stack, sockobj, locals, CountOperation
  <2>h. /\ Changes(OutstandingOps', OutstandingOps, 0)
        /\ Changes(Len(recvs'), Len(recvs), 0)
    BY <2>g, NumbersRest
  <2>i. QED
    BY <2>d, <2>f, <2>h, Balanced
<1>18. CASE DataArrives
  <2>a. UNCHANGED <<pc, after>>
    BY <1>18 DEF DataArrives, locals
  <2>d. /\ Changes(Cardinality(Uncounted'), Cardinality(Uncounted), 0)
        /\ Changes(Cardinality(Undecided'), Cardinality(Undecided), 0)
    BY <2>a, ThreadsRest
  <2>e. /\ recvs # <<>> /\ recvs' = Tail(recvs) /\ UNCHANGED <<sends, echoed>>
        /\ completions' = completions \cup
             {[op |-> "read", order |-> Head(recvs), data |-> arrived, result |-> "data"]}
    BY <1>18 DEF DataArrives, Complete
  <2>f. /\ SendsNumbered'
        /\ Changes(Cardinality(sends'), Cardinality(sends), 0)
        /\ Changes(Cardinality(completions'), Cardinality(completions), 1)
        /\ Changes(Len(recvs'), Len(recvs), -1)
    BY <2>e, ReceiveCompleted
  <2>g. OutstandingOps' = OutstandingOps
    BY <1>18 DEF DataArrives, stack, sockobj, locals, CountOperation
  <2>h. /\ Changes(OutstandingOps', OutstandingOps, 0)
    BY <2>g, NumbersRest
  <2>i. QED
    BY <2>d, <2>f, <2>h, Balanced
<1>19. CASE ReceiveEnds
  <2>a. UNCHANGED <<pc, after>>
    BY <1>19 DEF ReceiveEnds, locals
  <2>d. /\ Changes(Cardinality(Uncounted'), Cardinality(Uncounted), 0)
        /\ Changes(Cardinality(Undecided'), Cardinality(Undecided), 0)
    BY <2>a, ThreadsRest
  <2>e. /\ recvs # <<>> /\ recvs' = Tail(recvs) /\ UNCHANGED <<sends, echoed>>
        /\ completions' = completions \cup
             {[op |-> "read", order |-> Head(recvs), data |-> 0, result |-> IF peer = "closed" /\ s THEN "zero" ELSE "error"]}
    BY <1>19 DEF ReceiveEnds, Complete
  <2>f. /\ SendsNumbered'
        /\ Changes(Cardinality(sends'), Cardinality(sends), 0)
        /\ Changes(Cardinality(completions'), Cardinality(completions), 1)
        /\ Changes(Len(recvs'), Len(recvs), -1)
    BY <2>e, ReceiveCompleted
  <2>g. OutstandingOps' = OutstandingOps
    BY <1>19 DEF ReceiveEnds, stack, sockobj, locals, CountOperation
  <2>h. /\ Changes(OutstandingOps', OutstandingOps, 0)
    BY <2>g, NumbersRest
  <2>i. QED
    BY <2>d, <2>f, <2>h, Balanced
<1>20. CASE ReceiveFails
  <2>a. UNCHANGED <<pc, after>>
    BY <1>20 DEF ReceiveFails, locals
  <2>d. /\ Changes(Cardinality(Uncounted'), Cardinality(Uncounted), 0)
        /\ Changes(Cardinality(Undecided'), Cardinality(Undecided), 0)
    BY <2>a, ThreadsRest
  <2>e. /\ recvs # <<>> /\ recvs' = Tail(recvs) /\ UNCHANGED <<sends, echoed>>
        /\ completions' = completions \cup
             {[op |-> "read", order |-> Head(recvs), data |-> 0, result |-> "error"]}
    BY <1>20 DEF ReceiveFails, Complete
  <2>f. /\ SendsNumbered'
        /\ Changes(Cardinality(sends'), Cardinality(sends), 0)
        /\ Changes(Cardinality(completions'), Cardinality(completions), 1)
        /\ Changes(Len(recvs'), Len(recvs), -1)
    BY <2>e, ReceiveCompleted
  <2>g. OutstandingOps' = OutstandingOps
    BY <1>20 DEF ReceiveFails, stack, sockobj, locals, CountOperation
  <2>h. /\ Changes(OutstandingOps', OutstandingOps, 0)
    BY <2>g, NumbersRest
  <2>i. QED
    BY <2>d, <2>f, <2>h, Balanced
<1>21. CASE SendCompletes
  <2>a. UNCHANGED <<pc, after>>
    BY <1>21 DEF SendCompletes, locals
  <2>d. /\ Changes(Cardinality(Uncounted'), Cardinality(Uncounted), 0)
        /\ Changes(Cardinality(Undecided'), Cardinality(Undecided), 0)
    BY <2>a, ThreadsRest
  <2>e. echoed' = echoed /\ \E d \in sends : sends' = sends \ {d} /\ \E result \in {"error", "sent"} :
         completions' = completions \cup {[op |-> "write", order |-> 0, data |-> d, result |-> result]}
    BY <1>21 DEF SendCompletes, Complete
  <2>f. /\ SendsNumbered'
        /\ Changes(Cardinality(sends'), Cardinality(sends), -1)
        /\ Changes(Cardinality(completions'), Cardinality(completions), 1)
    BY <2>e, SendCompleted
  <2>g. OutstandingOps' = OutstandingOps /\ recvs' = recvs
    BY <1>21 DEF SendCompletes, stack, sockobj, locals, CountOperation
  <2>h. /\ Changes(OutstandingOps', OutstandingOps, 0)
        /\ Changes(Len(recvs'), Len(recvs), 0)
    BY <2>g, NumbersRest
  <2>i. QED
    BY <2>d, <2>f, <2>h, Balanced
<1>22. CASE PeerCloses
  <2>a. UNCHANGED <<pc, after>>
    BY <1>22 DEF PeerCloses, locals
  <2>d. /\ Changes(Cardinality(Uncounted'), Cardinality(Uncounted), 0)
        /\ Changes(Cardinality(Undecided'), Cardinality(Undecided), 0)
    BY <2>a, ThreadsRest
  <2>e. UNCHANGED <<sends, completions, echoed>>
    BY <1>22 DEF PeerCloses, stack, sockobj, locals
  <2>f. /\ SendsNumbered'
        /\ Changes(Cardinality(sends'), Cardinality(sends), 0)
        /\ Changes(Cardinality(completions'), Cardinality(completions), 0)
    BY <2>e, NothingPosted
  <2>g. OutstandingOps' = OutstandingOps /\ recvs' = recvs
    BY <1>22 DEF PeerCloses, stack, sockobj, locals, CountOperation
  <2>h. /\ Changes(OutstandingOps', OutstandingOps, 0)
        /\ Changes(Len(recvs'), Len(recvs), 0)
    BY <2>g, NumbersRest
  <2>i. QED
    BY <2>d, <2>f, <2>h, Balanced
<1>23. CASE PeerResets
  <2>a. UNCHANGED <<pc, after>>
    BY <1>23 DEF PeerResets, locals
  <2>d. /\ Changes(Cardinality(Uncounted'), Cardinality(Uncounted), 0)
        /\ Changes(Cardinality(Undecided'), Cardinality(Undecided), 0)
    BY <2>a, ThreadsRest
  <2>e. UNCHANGED <<sends, completions, echoed>>
    BY <1>23 DEF PeerResets, stack, sockobj, locals
  <2>f. /\ SendsNumbered'
        /\ Changes(Cardinality(sends'), Cardinality(sends), 0)
        /\ Changes(Cardinality(completions'), Cardinality(completions), 0)
    BY <2>e, NothingPosted
  <2>g. OutstandingOps' = OutstandingOps /\ recvs' = recvs
    BY <1>23 DEF PeerResets, stack, sockobj, locals, CountOperation
  <2>h. /\ Changes(OutstandingOps', OutstandingOps, 0)
        /\ Changes(Len(recvs'), Len(recvs), 0)
    BY <2>g, NumbersRest
  <2>i. QED
    BY <2>d, <2>f, <2>h, Balanced
<1>24. CASE UNCHANGED vars
  <2>a. UNCHANGED <<pc, after>>
    BY <1>24 DEF vars, locals
  <2>d. /\ Changes(Cardinality(Uncounted'), Cardinality(Uncounted), 0)
        /\ Changes(Cardinality(Undecided'), Cardinality(Undecided), 0)
    BY <2>a, ThreadsRest
  <2>e. UNCHANGED <<sends, completions, echoed>>
    BY <1>24 DEF vars, stack, sockobj, locals
  <2>f. /\ SendsNumbered'
        /\ Changes(Cardinality(sends'), Cardinality(sends), 0)
        /\ Changes(Cardinality(completions'), Cardinality(completions), 0)
    BY <2>e, NothingPosted
  <2>g. OutstandingOps' = OutstandingOps /\ recvs' = recvs
    BY <1>24 DEF vars, stack, sockobj, locals, CountOperation
  <2>h. /\ Changes(OutstandingOps', OutstandingOps, 0)
        /\ Changes(Len(recvs'), Len(recvs), 0)
    BY <2>g, NumbersRest
  <2>i. QED
    BY <2>d, <2>f, <2>h, Balanced
<1>25. QED
  BY <1>1, <1>2, <1>3, <1>4, <1>5, <1>6, <1>7, <1>8, <1>9, <1>10, <1>11, <1>12,
     <1>13, <1>14, <1>15, <1>16, <1>17, <1>18, <1>19, <1>20, <1>21, <1>22, <1>23,
     <1>24
  DEF Next, FirstPosts, CompletionThread

\* Once something has failed, it has.
LEMMA DisturbedStays ==
  ASSUME disturbed, [Next]_vars
  PROVE  disturbed'
<1>1. CASE EchoAcceptData
  BY <1>1 DEF EchoAcceptData, PostSendFails
<1>2. CASE PostFirstRecvs
  BY <1>2 DEF PostFirstRecvs, PostRecvFails
<1>3. CASE CountFirst
  BY <1>3 DEF CountFirst
<1>4. CASE GiveUp
  BY <1>4 DEF GiveUp
<1>5. ASSUME NEW w \in Workers, NEW c \in completions, DropFailed(w, c) PROVE disturbed'
  BY <1>5 DEF DropFailed
<1>6. ASSUME NEW w \in Workers, NEW c \in completions, HandleIo(w, c) PROVE disturbed'
  BY <1>6 DEF HandleIo
<1>7. ASSUME NEW w \in Workers, FreeSocketObj(w) PROVE disturbed'
  BY <1>7 DEF FreeSocketObj
<1>8. ASSUME NEW w \in Workers, DoSendsPost(w) PROVE disturbed'
  BY <1>8 DEF DoSendsPost
<1>9. ASSUME NEW w \in Workers, DoSendsCount(w) PROVE disturbed'
  BY <1>9 DEF DoSendsCount
<1>10. ASSUME NEW w \in Workers, DoSendsReturn(w) PROVE disturbed'
  BY <1>10 DEF DoSendsReturn
<1>11. ASSUME NEW w \in Workers, DoSendsFail(w) PROVE disturbed'
  BY <1>11 DEF DoSendsFail, PostSendFails
<1>12. ASSUME NEW w \in Workers, RepostRecv(w) PROVE disturbed'
  BY <1>12 DEF RepostRecv, PostRecvFails
<1>13. ASSUME NEW w \in Workers, CountRecv(w) PROVE disturbed'
  BY <1>13 DEF CountRecv
<1>14. ASSUME NEW w \in Workers, ZeroByteReceive(w) PROVE disturbed'
  BY <1>14 DEF ZeroByteReceive
<1>15. ASSUME NEW w \in Workers, CheckClosing(w) PROVE disturbed'
  BY <1>15 DEF CheckClosing
<1>16. ASSUME NEW w \in Workers, CloseSocket(w) PROVE disturbed'
  BY <1>16 DEF CloseSocket
<1>17. ASSUME NEW t \in Threads, UseAfterFree(t) PROVE disturbed'
  BY <1>17 DEF UseAfterFree
<1>18. CASE DataArrives
  BY <1>18 DEF DataArrives
<1>19. CASE ReceiveEnds
  BY <1>19 DEF ReceiveEnds
<1>20. CASE ReceiveFails
  BY <1>20 DEF ReceiveFails
<1>21. CASE SendCompletes
  BY <1>21 DEF SendCompletes
<1>22. CASE PeerCloses
  BY <1>22 DEF PeerCloses
<1>23. CASE PeerResets
  BY <1>23 DEF PeerResets
<1>24. CASE UNCHANGED vars
  BY <1>24 DEF vars
<1>25. QED
  BY <1>1, <1>2, <1>3, <1>4, <1>5, <1>6, <1>7, <1>8, <1>9, <1>10, <1>11, <1>12,
     <1>13, <1>14, <1>15, <1>16, <1>17, <1>18, <1>19, <1>20, <1>21, <1>22, <1>23,
     <1>24
  DEF Next, FirstPosts, CompletionThread

(***************************************************************************)
(* Nothing is outstanding and no thread is in HandleIo: the sums are zero. *)
(***************************************************************************)
LEMMA SumIsZero ==
  ASSUME NEW R, NEW S, NEW C, NEW D, NEW U, NEW o,
         Len(R) \in Nat, IsFiniteSet(S), IsFiniteSet(C), IsFiniteSet(D), U = {}, o = 0,
         o + Cardinality(U) = Len(R) + Cardinality(S) + Cardinality(C) + Cardinality(D)
  PROVE  Len(R) = 0 /\ S = {} /\ C = {} /\ D = {}
<1>2. Cardinality(U) = 0
  BY FS_EmptySet
<1>3. PICK r0 \in Nat : r0 = Len(R)
  OBVIOUS
<1>4. PICK s0 \in Nat : s0 = Cardinality(S)
  BY FS_CardinalityType
<1>5. PICK c0 \in Nat : c0 = Cardinality(C)
  BY FS_CardinalityType
<1>6. PICK d0 \in Nat : d0 = Cardinality(D)
  BY FS_CardinalityType
<1>7. 0 + 0 = r0 + s0 + c0 + d0
  BY <1>2, <1>3, <1>4, <1>5, <1>6
<1>8. r0 = 0 /\ s0 = 0 /\ c0 = 0 /\ d0 = 0
  BY <1>7
<1>9. QED
  BY <1>3, <1>4, <1>5, <1>6, <1>8, FS_EmptySet

\* The data put in the list is data.
LEMMA InsertedIsData ==
  ASSUME DataOK, NEW c \in completions, ~HasDangling
  PROVE  LET r == InsertPendingSend(OutOfOrderSends, [order |-> c.order, data |-> c.data])
         IN  \A i \in DOMAIN r : r[i] # Dangling
<1> DEFINE e == [order |-> c.order, data |-> c.data]
           r == InsertPendingSend(OutOfOrderSends, e)
<1>1. e \in Entries /\ e # Dangling
  BY DEF DataOK, Completion, Entries, Dangling
<1>2. OutOfOrderSends \in Seq(Entries) /\ \A i \in 1 .. Len(OutOfOrderSends) : OutOfOrderSends[i] # Dangling
  BY DEF DataOK, HasDangling
<1> HIDE DEF e
<1>3. r \in Seq(Entries) /\ \E q \in Nat : Inserted(r, OutOfOrderSends, e, q)
  BY <1>1, <1>2, InsertPendingSendPlace
<1> HIDE DEF r
<1>4. PICK q \in Nat : Inserted(r, OutOfOrderSends, e, q)
  BY <1>3
<1>5. \A i \in 1 .. Len(r) : r[i] # Dangling
  <2>1. TAKE i \in 1 .. Len(r)
  <2>2. CASE i = q
    BY <1>1, <1>4, <2>2 DEF Inserted
  <2>3. CASE i # q
    BY <1>2, <1>4, <2>3, InsertedFrom
  <2>4. QED
    BY <2>2, <2>3
<1>6. QED
  BY <1>3, <1>5 DEF r, e

(***************************************************************************)
(* At the end nobody is in HandleIo any more, and nobody comes.            *)
(***************************************************************************)
LEMMA NotYetEnding ==
  ASSUME Ending => Quiet
  PROVE  /\ pc[Poster] # "done" => ~Ending
         /\ peer # "closed" => ~Ending
         /\ \A w \in Workers : pc[w] \in Inside => ~Ending
         /\ recvs # <<>> \/ sends # {} \/ completions # {} => ~Ending
BY DEF Quiet, Inside, Outside

LEMMA NotEndingNow ==
  ASSUME ThreadsOK, ~Ending, UNCHANGED <<s, freed>>, NEW t \in Threads,
         \A v \in Threads \ {t} : pc'[v] = pc[v], pc'[t] \notin {"close", "free"}
  PROVE  ~Ending'
BY DEF Ending, Threads

LEMMA UndisturbedKept ==
  ASSUME OrderInv, Accounted, Undisturbed, [Next]_vars, ~disturbed'
  PROVE  Undisturbed'
<1> TypeOK /\ Ordered /\ SendsNumbered /\ OperationsCounted
  BY DEF OrderInv, Accounted
<1> ThreadsOK /\ DataOK
  BY TypeParts
<1> PeerIsPatient /\ NoFailures /\ ~HasDangling /\ (Ending => Quiet) /\ ~ub
  BY DEF Undisturbed
<1>p. /\ pc \in [Threads -> Posting \cup Inside \cup Outside] /\ Poster \notin Workers
      /\ Workers \subseteq Threads /\ Poster \in Threads
      /\ after \in [Workers -> {"recv", "zero", "finish", "leave"}]
      /\ error \in [Workers -> BOOLEAN] /\ bCleanupSocket \in [Workers -> BOOLEAN]
  BY ThreadsAssumption DEF ThreadsOK, Threads
<1>n. SendsNumbered' /\ OperationsCounted' /\ ThreadsOK' /\ DataOK'
  BY AccountKept, ThreadsCorrect, DataCorrect DEF Accounted, Ordered
<1>1. CASE EchoAcceptData
  <2>1. pc[Poster] = "echo" /\ peer # "closed" /\ ~Ending
    BY <1>1, NotYetEnding DEF EchoAcceptData, PosterAt, PeerIsPatient
  <2>2. \E place \in {"countecho", "countpost", "post", "done"} : Goto(Poster, place)
    BY <1>1 DEF EchoAcceptData, PostSendFails, PostRecvFails, NextPost
  <2>3. /\ UNCHANGED <<s, freed, bClosing, OutOfOrderSends, completions, peer, ub>>
        /\ UNCHANGED <<after, error, bCleanupSocket>>
    BY <1>1 DEF EchoAcceptData, stack, sockobj, locals
  <2>4. /\ pc'[Poster] \in {"countecho", "countpost", "post", "done"}
        /\ \A v \in Threads \ {Poster} : pc'[v] = pc[v]
        /\ \A v \in Workers : pc'[v] = pc[v]
    BY <1>p, <2>2 DEF Goto
  <2>p. PeerIsPatient'
    BY <2>1, <2>3, <2>4 DEF PeerIsPatient
  <2>f. NoFailures'
    BY <2>3 DEF NoFailures
  <2>d. ~HasDangling'
    BY <2>3 DEF HasDangling
  <2>e. ~Ending'
    BY <1>p, <2>1, <2>3, <2>4, NotEndingNow
  <2>u. ~ub'
    BY <2>3
  <2>9. QED
    BY <2>p, <2>f, <2>d, <2>e, <2>u DEF Undisturbed
<1>2. CASE PostFirstRecvs
  <2>1. pc[Poster] = "post" /\ peer # "closed" /\ ~Ending
    BY <1>2, NotYetEnding DEF PostFirstRecvs, PosterAt, PeerIsPatient
  <2>2. \E place \in {"countecho", "countpost", "post", "done"} : Goto(Poster, place)
    BY <1>2 DEF PostFirstRecvs, PostSendFails, PostRecvFails, NextPost
  <2>3. /\ UNCHANGED <<s, freed, bClosing, OutOfOrderSends, completions, peer, ub>>
        /\ UNCHANGED <<after, error, bCleanupSocket>>
    BY <1>2 DEF PostFirstRecvs, stack, sockobj, locals
  <2>4. /\ pc'[Poster] \in {"countecho", "countpost", "post", "done"}
        /\ \A v \in Threads \ {Poster} : pc'[v] = pc[v]
        /\ \A v \in Workers : pc'[v] = pc[v]
    BY <1>p, <2>2 DEF Goto
  <2>p. PeerIsPatient'
    BY <2>1, <2>3, <2>4 DEF PeerIsPatient
  <2>f. NoFailures'
    BY <2>3 DEF NoFailures
  <2>d. ~HasDangling'
    BY <2>3 DEF HasDangling
  <2>e. ~Ending'
    BY <1>p, <2>1, <2>3, <2>4, NotEndingNow
  <2>u. ~ub'
    BY <2>3
  <2>9. QED
    BY <2>p, <2>f, <2>d, <2>e, <2>u DEF Undisturbed
<1>3. CASE CountFirst
  <2>1. pc[Poster] \in {"countecho", "countpost"} /\ peer # "closed" /\ ~Ending
    BY <1>3, NotYetEnding DEF CountFirst, PosterAt, PeerIsPatient
  <2>2. \E place \in {"countecho", "countpost", "post", "done"} : Goto(Poster, place)
    BY <1>3 DEF CountFirst, PostSendFails, PostRecvFails, NextPost
  <2>3. /\ UNCHANGED <<s, freed, bClosing, OutOfOrderSends, completions, peer, ub>>
        /\ UNCHANGED <<after, error, bCleanupSocket>>
    BY <1>3 DEF CountFirst, stack, sockobj, locals
  <2>4. /\ pc'[Poster] \in {"countecho", "countpost", "post", "done"}
        /\ \A v \in Threads \ {Poster} : pc'[v] = pc[v]
        /\ \A v \in Workers : pc'[v] = pc[v]
    BY <1>p, <2>2 DEF Goto
  <2>p. PeerIsPatient'
    BY <2>1, <2>3, <2>4 DEF PeerIsPatient
  <2>f. NoFailures'
    BY <2>3 DEF NoFailures
  <2>d. ~HasDangling'
    BY <2>3 DEF HasDangling
  <2>e. ~Ending'
    BY <1>p, <2>1, <2>3, <2>4, NotEndingNow
  <2>u. ~ub'
    BY <2>3
  <2>9. QED
    BY <2>p, <2>f, <2>d, <2>e, <2>u DEF Undisturbed
<1>4. CASE GiveUp
  BY <1>4 DEF GiveUp, PosterAt, PeerIsPatient
<1>5. ASSUME NEW w \in Workers, NEW c \in completions, DropFailed(w, c) PROVE Undisturbed'
  BY <1>5 DEF DropFailed, NoFailures
<1>6. ASSUME NEW w \in Workers, NEW c \in completions, HandleIo(w, c) PROVE Undisturbed'
  <2>1. pc[w] = "idle" /\ ~Ending /\ c.result # "error" /\ (c.result = "zero" => peer = "closed")
    BY <1>6, NotYetEnding DEF HandleIo, GetQueuedCompletionStatus, WorkerAt, NoFailures
  <2>2. Goto(w, "recv") \/ Goto(w, "sends")
    BY <1>6 DEF HandleIo
  <2>3. UNCHANGED <<s, freed, peer, ub, bCleanupSocket>>
    BY <1>6 DEF HandleIo
  <2>4. /\ pc'[w] \in {"recv", "sends"} /\ pc'[Poster] = pc[Poster]
        /\ \A v \in Threads \ {w} : pc'[v] = pc[v]
        /\ \A v \in Workers \ {w} : pc'[v] = pc[v]
    BY <1>p, <2>2 DEF Goto
  <2>5. \A v \in Workers : after'[v] = "zero" => after[v] = "zero" \/ c.result = "zero"
    <3>1. c.op = "write" => c.result # "zero"
      BY DEF Ordered, CompletionsOrdered
    <3>2. CASE c.op = "write"
      BY <1>6, <1>p, <3>1, <3>2 DEF HandleIo
    <3>3. CASE c.op # "write" /\ c.result # "zero"
      BY <1>6, <1>p, <3>3 DEF HandleIo
    <3>4. CASE c.result = "zero"
      BY <1>6, <1>p, <3>4 DEF HandleIo
    <3>5. QED
      BY <3>2, <3>3, <3>4
  <2>6. bClosing' => bClosing \/ c.result = "zero"
    BY <1>6 DEF HandleIo
  <2>p. PeerIsPatient'
    BY <2>1, <2>3, <2>4, <2>5, <2>6 DEF PeerIsPatient
  <2>7. \A v \in Workers : error'[v] = FALSE
    <3>1. \A v \in Workers : error'[v] = IF v = w THEN c.result = "error" ELSE error[v]
      BY <1>6, <1>p DEF HandleIo
    <3>2. QED
      BY <2>1, <3>1 DEF NoFailures
  <2>8. completions' = completions \ {c}
    BY <1>6 DEF HandleIo, GetQueuedCompletionStatus
  <2>f. NoFailures'
    BY <2>3, <2>7, <2>8 DEF NoFailures
  <2>d. ~HasDangling'
    <3>1. CASE c.result = "data"
      <4>1. OutOfOrderSends' = InsertPendingSend(OutOfOrderSends, [order |-> c.order, data |-> c.data])
        BY <1>6, <3>1 DEF HandleIo
      <4>2. QED
        BY <4>1, InsertedIsData DEF HasDangling
    <3>2. CASE c.result # "data"
      BY <1>6, <3>2 DEF HandleIo, HasDangling
    <3>3. QED
      BY <3>1, <3>2
  <2>e. ~Ending'
    BY <1>p, <2>1, <2>3, <2>4, NotEndingNow
  <2>u. ~ub'
    BY <2>3
  <2>9. QED
    BY <2>p, <2>f, <2>d, <2>e, <2>u DEF Undisturbed
<1>7. ASSUME NEW w \in Workers, FreeSocketObj(w) PROVE Undisturbed'
  <2>1. pc[w] = "free" /\ Quiet /\ freed = FALSE
    BY <1>7 DEF FreeSocketObj, WorkerAt, Ending, DataOK
  <2>2. Goto(w, "idle")
    BY <1>7 DEF FreeSocketObj
  <2>3. UNCHANGED <<bClosing, OutOfOrderSends, recvs, sends, completions, peer, ub, after, error, bCleanupSocket>>
    BY <1>7 DEF FreeSocketObj, stack, locals
  <2>4. /\ pc'[w] = "idle" /\ pc'[Poster] = pc[Poster]
        /\ \A v \in Threads \ {w} : pc'[v] = pc[v]
        /\ \A v \in Workers \ {w} : pc'[v] = pc[v]
    BY <1>p, <2>2 DEF Goto
  <2>5. \A v \in Workers : v # w => pc'[v] = "idle"
    BY <2>1, <2>4 DEF Quiet
  <2>p. PeerIsPatient'
    BY <2>3, <2>4, <2>5 DEF PeerIsPatient
  <2>f. NoFailures'
    BY <2>3 DEF NoFailures
  <2>d. ~HasDangling'
    BY <2>3 DEF HasDangling
  <2>6. TRUE
    OBVIOUS
  <2>e. Quiet'
    BY <2>1, <2>3, <2>4, <2>5, <2>6 DEF Quiet, Outside
  <2>u. ~ub'
    BY <2>3
  <2>9. QED
    BY <2>p, <2>f, <2>d, <2>e, <2>u DEF Undisturbed
<1>8. ASSUME NEW w \in Workers, DoSendsPost(w) PROVE Undisturbed'
  <2>1. pc[w] = "sends" /\ ~Ending
    BY <1>8, NotYetEnding DEF DoSendsPost, WorkerAt, Inside
  <2>2. \E place \in {"sent"} : Goto(w, place)
    BY <1>8 DEF DoSendsPost
  <2>3. UNCHANGED <<s, freed, bClosing, OutOfOrderSends, completions, peer, ub, after, error, bCleanupSocket>>
    BY <1>8 DEF DoSendsPost, stack, sockobj, locals
  <2>4. /\ pc'[w] \in {"sent"} /\ pc'[Poster] = pc[Poster]
        /\ \A v \in Threads \ {w} : pc'[v] = pc[v]
        /\ \A v \in Workers \ {w} : pc'[v] = pc[v]
    BY <1>p, <2>2 DEF Goto
  <2>p. PeerIsPatient'
    BY <2>1, <2>3, <2>4 DEF PeerIsPatient
  <2>f. NoFailures'
    BY <2>3 DEF NoFailures
  <2>d. ~HasDangling'
    BY <2>3 DEF HasDangling
  <2>e. ~Ending'
    BY <1>p, <2>1, <2>3, <2>4, NotEndingNow
  <2>u. ~ub'
    BY <2>3
  <2>9. QED
    BY <2>p, <2>f, <2>d, <2>e, <2>u DEF Undisturbed
<1>9. ASSUME NEW w \in Workers, DoSendsCount(w) PROVE Undisturbed'
  <2>1. pc[w] = "sent" /\ ~Ending
    BY <1>9, NotYetEnding DEF DoSendsCount, WorkerAt, Inside
  <2>2. \E place \in {"sends"} : Goto(w, place)
    BY <1>9 DEF DoSendsCount
  <2>3. UNCHANGED <<s, freed, bClosing, completions, peer, ub, after, error, bCleanupSocket>>
    BY <1>9 DEF DoSendsCount, stack, sockobj, locals
  <2>4. /\ pc'[w] \in {"sends"} /\ pc'[Poster] = pc[Poster]
        /\ \A v \in Threads \ {w} : pc'[v] = pc[v]
        /\ \A v \in Workers \ {w} : pc'[v] = pc[v]
    BY <1>p, <2>2 DEF Goto
  <2>p. PeerIsPatient'
    BY <2>1, <2>3, <2>4 DEF PeerIsPatient
  <2>f. NoFailures'
    BY <2>3 DEF NoFailures
  <2>d. ~HasDangling'
    BY <1>9, NumberTypes DEF DoSendsCount, HasDangling, IsSent, Ordered, ListOrdered, DataOK, WorkerAt
  <2>e. ~Ending'
    BY <1>p, <2>1, <2>3, <2>4, NotEndingNow
  <2>u. ~ub'
    BY <2>3
  <2>9. QED
    BY <2>p, <2>f, <2>d, <2>e, <2>u DEF Undisturbed
<1>10. ASSUME NEW w \in Workers, DoSendsReturn(w) PROVE Undisturbed'
  <2>1. pc[w] = "sends" /\ ~Ending
    BY <1>10, NotYetEnding DEF DoSendsReturn, WorkerAt, Inside
  <2>2. \/ after[w] = "leave" /\ Goto(w, "idle") /\ after' = [after EXCEPT ![w] = "finish"]
        \/ after[w] # "leave" /\ Goto(w, after[w]) /\ after' = after
    BY <1>10, <1>p DEF DoSendsReturn, LeaveCriticalSection, NoFailures
  <2>3. UNCHANGED <<s, freed, bClosing, OutOfOrderSends, completions, peer, ub>>
    BY <1>10 DEF DoSendsReturn, stack, sockobj, locals
  <2>4. /\ pc'[w] \in {"idle", "recv", "zero", "finish"} /\ pc'[Poster] = pc[Poster]
        /\ pc'[w] = "zero" => after[w] = "zero"
        /\ after'[w] = "zero" => after[w] = "zero"
        /\ \A v \in Threads \ {w} : pc'[v] = pc[v]
        /\ \A v \in Workers \ {w} : pc'[v] = pc[v] /\ after'[v] = after[v]
    BY <1>p, <2>2 DEF Goto
  <2>p. PeerIsPatient'
    BY <2>3, <2>4 DEF PeerIsPatient
  <2>c. \A v \in Workers : error'[v] = FALSE /\ bCleanupSocket'[v] = FALSE
    BY <1>10, <1>p DEF DoSendsReturn, LeaveCriticalSection, NoFailures
  <2>f. NoFailures'
    BY <2>3, <2>c DEF NoFailures
  <2>d. ~HasDangling'
    BY <2>3 DEF HasDangling
  <2>e. ~Ending'
    BY <1>p, <2>1, <2>3, <2>4, NotEndingNow
  <2>u. ~ub'
    BY <2>3
  <2>9. QED
    BY <2>p, <2>f, <2>d, <2>e, <2>u DEF Undisturbed
<1>11. ASSUME NEW w \in Workers, DoSendsFail(w) PROVE Undisturbed'
  BY <1>11 DEF DoSendsFail, PostSendFails
<1>12. ASSUME NEW w \in Workers, RepostRecv(w) PROVE Undisturbed'
  <2>1. pc[w] = "recv" /\ ~Ending
    BY <1>12, NotYetEnding DEF RepostRecv, WorkerAt, Inside
  <2>2. \E place \in {"count", "finish"} : Goto(w, place)
    BY <1>12 DEF RepostRecv
  <2>3. UNCHANGED <<s, freed, bClosing, OutOfOrderSends, completions, peer, ub, after, error, bCleanupSocket>>
    BY <1>12 DEF RepostRecv, stack, sockobj, locals, PostRecvFails
  <2>4. /\ pc'[w] \in {"count", "finish"} /\ pc'[Poster] = pc[Poster]
        /\ \A v \in Threads \ {w} : pc'[v] = pc[v]
        /\ \A v \in Workers \ {w} : pc'[v] = pc[v]
    BY <1>p, <2>2 DEF Goto
  <2>p. PeerIsPatient'
    BY <2>1, <2>3, <2>4 DEF PeerIsPatient
  <2>f. NoFailures'
    BY <2>3 DEF NoFailures
  <2>d. ~HasDangling'
    BY <2>3 DEF HasDangling
  <2>e. ~Ending'
    BY <1>p, <2>1, <2>3, <2>4, NotEndingNow
  <2>u. ~ub'
    BY <2>3
  <2>9. QED
    BY <2>p, <2>f, <2>d, <2>e, <2>u DEF Undisturbed
<1>13. ASSUME NEW w \in Workers, CountRecv(w) PROVE Undisturbed'
  <2>1. pc[w] = "count" /\ ~Ending
    BY <1>13, NotYetEnding DEF CountRecv, WorkerAt, Inside
  <2>2. \E place \in {"finish"} : Goto(w, place)
    BY <1>13 DEF CountRecv
  <2>3. UNCHANGED <<s, freed, bClosing, OutOfOrderSends, completions, peer, ub, after, error, bCleanupSocket>>
    BY <1>13 DEF CountRecv, stack, sockobj, locals
  <2>4. /\ pc'[w] \in {"finish"} /\ pc'[Poster] = pc[Poster]
        /\ \A v \in Threads \ {w} : pc'[v] = pc[v]
        /\ \A v \in Workers \ {w} : pc'[v] = pc[v]
    BY <1>p, <2>2 DEF Goto
  <2>p. PeerIsPatient'
    BY <2>1, <2>3, <2>4 DEF PeerIsPatient
  <2>f. NoFailures'
    BY <2>3 DEF NoFailures
  <2>d. ~HasDangling'
    BY <2>3 DEF HasDangling
  <2>e. ~Ending'
    BY <1>p, <2>1, <2>3, <2>4, NotEndingNow
  <2>u. ~ub'
    BY <2>3
  <2>9. QED
    BY <2>p, <2>f, <2>d, <2>e, <2>u DEF Undisturbed
<1>14. ASSUME NEW w \in Workers, ZeroByteReceive(w) PROVE Undisturbed'
  <2>1. pc[w] = "zero" /\ ~Ending
    BY <1>14, NotYetEnding DEF ZeroByteReceive, WorkerAt, Inside
  <2>2. \E place \in {"finish"} : Goto(w, place)
    BY <1>14 DEF ZeroByteReceive
  <2>3. UNCHANGED <<s, freed, bClosing, OutOfOrderSends, completions, peer, ub, after, error>>
    BY <1>14 DEF ZeroByteReceive, stack, sockobj, locals
  <2>4. /\ pc'[w] \in {"finish"} /\ pc'[Poster] = pc[Poster]
        /\ \A v \in Threads \ {w} : pc'[v] = pc[v]
        /\ \A v \in Workers \ {w} : pc'[v] = pc[v]
    BY <1>p, <2>2 DEF Goto
  <2>p. PeerIsPatient'
    BY <2>1, <2>3, <2>4 DEF PeerIsPatient
  <2>5. pc[Poster] = "done" /\ w \in Undecided
    BY <2>1 DEF PeerIsPatient, Undecided
  <2>6. \A v \in Workers : pc[v] \notin {"sent", "count"}
    BY <2>1, OneInside DEF Inside
  <2>7. Uncounted = {}
    BY <2>5, <2>6 DEF Uncounted
  <2>y. IsFiniteSet(sends) /\ IsFiniteSet(completions) /\ IsFiniteSet(Undecided) /\ Len(recvs) \in Nat
    BY FiniteThreads DEF SendsNumbered, DataOK
  <2>8. OutstandingOps # 0
    BY <2>5, <2>7, <2>y, SumIsZero DEF OperationsCounted
  <2>c. \A v \in Workers : bCleanupSocket'[v] = FALSE
    BY <1>14, <1>p, <2>8 DEF ZeroByteReceive, NoFailures
  <2>f. NoFailures'
    BY <2>3, <2>c DEF NoFailures
  <2>d. ~HasDangling'
    BY <2>3 DEF HasDangling
  <2>e. ~Ending'
    BY <1>p, <2>1, <2>3, <2>4, NotEndingNow
  <2>u. ~ub'
    BY <2>3
  <2>9. QED
    BY <2>p, <2>f, <2>d, <2>e, <2>u DEF Undisturbed
<1>15. ASSUME NEW w \in Workers, CheckClosing(w) PROVE Undisturbed'
  <2>1. pc[w] = "finish" /\ ~Ending
    BY <1>15, NotYetEnding DEF CheckClosing, WorkerAt, Inside
  <2>2. \/ /\ Goto(w, "close") /\ after' = [after EXCEPT ![w] = "finish"]
           /\ OutstandingOps' = 0 /\ bClosing'
        \/ Goto(w, "sends") /\ after' = [after EXCEPT ![w] = "leave"]
    BY <1>15 DEF CheckClosing, LeaveCriticalSection
  <2>3. UNCHANGED <<s, freed, OutOfOrderSends, recvs, sends, completions, peer, ub>>
    BY <1>15 DEF CheckClosing, stack
  <2>b. bClosing' <=> bClosing
    BY <1>15 DEF CheckClosing, NoFailures
  <2>4. /\ pc'[w] \in {"close", "sends"} /\ pc'[Poster] = pc[Poster]
        /\ pc'[w] = "close" => OutstandingOps' = 0 /\ bClosing'
        /\ after'[w] # "zero"
        /\ \A v \in Threads \ {w} : pc'[v] = pc[v]
        /\ \A v \in Workers \ {w} : pc'[v] = pc[v] /\ after'[v] = after[v]
    BY <1>p, <2>2 DEF Goto
  <2>p. PeerIsPatient'
    BY <2>3, <2>4, <2>b DEF PeerIsPatient
  <2>c. \A v \in Workers : error'[v] = FALSE /\ bCleanupSocket'[v] = FALSE
    BY <1>15, <1>p DEF CheckClosing, LeaveCriticalSection, NoFailures
  <2>f. NoFailures'
    BY <2>3, <2>c DEF NoFailures
  <2>d. ~HasDangling'
    BY <2>3 DEF HasDangling
  <2>5. CASE pc'[w] = "sends"
    <3>1. ~Ending'
      BY <1>p, <2>1, <2>3, <2>4, <2>5, NotEndingNow
    <3>2. QED
      BY <3>1, <2>p, <2>f, <2>d, <2>3 DEF Undisturbed
  <2>6. CASE pc'[w] = "close"
    <3>1. peer' = "closed" /\ pc'[Poster] = "done" /\ freed' = FALSE
      BY <2>1, <2>3, <2>4, <2>6, <2>p DEF PeerIsPatient, Ending, DataOK
    <3>2. \A v \in Workers : v # w => pc'[v] = "idle"
      <4>1. TAKE v \in Workers
      <4>2. v # w => pc[v] \in Outside /\ pc[v] \notin {"close", "free"}
        BY <2>1, OneInside DEF Inside, Ending, ThreadsOK
      <4>3. QED
        BY <2>4, <4>2 DEF Outside
    <3>3. Uncounted' = {}
      BY <2>6, <3>1, <3>2 DEF Uncounted
    <3>4. recvs' = <<>> /\ sends' = {} /\ completions' = {}
      <4>1. OutstandingOps' = 0
        BY <2>4, <2>6
      <4>2. IsFiniteSet(Undecided')
        <5>1. Undecided' \in SUBSET Workers
          BY DEF Undecided
        <5>2. QED
          BY <5>1, ThreadsAssumption, FS_Subset
      <4>3. /\ IsFiniteSet(sends') /\ IsFiniteSet(completions')
            /\ recvs' \in Seq(Nat) /\ Len(recvs') \in Nat
        BY <1>n DEF SendsNumbered, DataOK
      <4>4. OutstandingOps' + Cardinality(Uncounted') = Len(recvs') + Cardinality(sends')
              + Cardinality(completions') + Cardinality(Undecided')
        BY <1>n DEF OperationsCounted
      <4>5. Len(recvs') = 0 /\ sends' = {} /\ completions' = {}
        BY <3>3, <4>1, <4>2, <4>3, <4>4, SumIsZero
      <4>6. QED
        BY <4>3, <4>5
    <3>5. Quiet'
      BY <2>6, <3>1, <3>2, <3>4 DEF Quiet, Outside
    <3>6. QED
      BY <3>5, <2>p, <2>f, <2>d, <2>3 DEF Undisturbed
  <2>9. QED
    BY <2>4, <2>5, <2>6
<1>16. ASSUME NEW w \in Workers, CloseSocket(w) PROVE Undisturbed'
  <2>1. pc[w] = "close" /\ Quiet /\ freed = FALSE
    BY <1>16 DEF CloseSocket, WorkerAt, Ending, DataOK
  <2>2. Goto(w, "free")
    BY <1>16 DEF CloseSocket
  <2>3. UNCHANGED <<bClosing, OutOfOrderSends, recvs, sends, completions, peer, ub, after, error, bCleanupSocket>>
    BY <1>16 DEF CloseSocket, stack, locals
  <2>4. /\ pc'[w] = "free" /\ pc'[Poster] = pc[Poster]
        /\ \A v \in Threads \ {w} : pc'[v] = pc[v]
        /\ \A v \in Workers \ {w} : pc'[v] = pc[v]
    BY <1>p, <2>2 DEF Goto
  <2>5. \A v \in Workers : v # w => pc'[v] = "idle"
    BY <2>1, <2>4 DEF Quiet
  <2>p. PeerIsPatient'
    BY <2>3, <2>4, <2>5 DEF PeerIsPatient
  <2>f. NoFailures'
    BY <2>3 DEF NoFailures
  <2>d. ~HasDangling'
    BY <2>3 DEF HasDangling
  <2>6. freed' = freed
    BY <1>16 DEF CloseSocket
  <2>e. Quiet'
    BY <2>1, <2>3, <2>4, <2>5, <2>6 DEF Quiet, Outside
  <2>u. ~ub'
    BY <2>3
  <2>9. QED
    BY <2>p, <2>f, <2>d, <2>e, <2>u DEF Undisturbed
<1>17. ASSUME NEW t \in Threads, UseAfterFree(t) PROVE Undisturbed'
  <2>1. CASE freed
    <3>1. Quiet /\ \A w \in Workers : pc[w] = "idle"
      BY <2>1 DEF Ending, Quiet
    <3>2. pc[t] = "idle" \/ pc[t] = "done"
      BY <3>1 DEF Quiet, Threads
    <3>3. completions = {}
      BY <3>1 DEF Quiet
    <3>4. QED
      BY <1>17, <3>2, <3>3 DEF UseAfterFree
  <2>2. CASE ~freed
    <3>1. OutOfOrderSends # <<>> => Head(OutOfOrderSends) # Dangling
      BY DEF HasDangling, DataOK
    <3>2. QED
      BY <1>17, <2>2, <3>1 DEF UseAfterFree
  <2>3. QED
    BY <2>1, <2>2
<1>18. CASE DataArrives
  <2>1. ~Ending /\ s
    BY <1>18, NotYetEnding DEF DataArrives, Ending
  <2>2. UNCHANGED <<s, freed, pc, bClosing, OutOfOrderSends, peer, ub, after, error, bCleanupSocket>>
    BY <1>18 DEF DataArrives, sockobj, locals
  <2>4. \A c \in completions' : c \in completions \/ c.result = "data"
    BY <1>18, <2>1 DEF DataArrives, Complete
  <2>p. PeerIsPatient'
    BY <2>2 DEF PeerIsPatient
  <2>f. NoFailures'
    BY <2>2, <2>4 DEF NoFailures
  <2>d. ~HasDangling'
    BY <2>2 DEF HasDangling
  <2>e. ~Ending'
    BY <2>1, <2>2 DEF Ending
  <2>u. ~ub'
    BY <2>2
  <2>9. QED
    BY <2>p, <2>f, <2>d, <2>e, <2>u DEF Undisturbed
<1>19. CASE ReceiveEnds
  <2>1. ~Ending /\ s
    BY <1>19, NotYetEnding DEF ReceiveEnds, Ending
  <2>2. UNCHANGED <<s, freed, pc, bClosing, OutOfOrderSends, peer, ub, after, error, bCleanupSocket>>
    BY <1>19 DEF ReceiveEnds, sockobj, locals
  <2>3. peer = "closed"
    BY <1>19, <2>1 DEF ReceiveEnds, PeerIsPatient, DataOK
  <2>4. \A c \in completions' : c \in completions \/ c.result = "zero"
    BY <1>19, <2>1, <2>3 DEF ReceiveEnds, Complete
  <2>p. PeerIsPatient'
    BY <2>2 DEF PeerIsPatient
  <2>f. NoFailures'
    BY <2>2, <2>4, <2>3 DEF NoFailures
  <2>d. ~HasDangling'
    BY <2>2 DEF HasDangling
  <2>e. ~Ending'
    BY <2>1, <2>2 DEF Ending
  <2>u. ~ub'
    BY <2>2
  <2>9. QED
    BY <2>p, <2>f, <2>d, <2>e, <2>u DEF Undisturbed
<1>20. CASE ReceiveFails
  BY <1>20 DEF ReceiveFails
<1>21. CASE SendCompletes
  <2>1. ~Ending /\ s
    BY <1>21, NotYetEnding DEF SendCompletes, Ending
  <2>2. UNCHANGED <<s, freed, pc, bClosing, OutOfOrderSends, peer, ub, after, error, bCleanupSocket>>
    BY <1>21 DEF SendCompletes, sockobj, locals
  <2>3. peer # "reset"
    BY DEF PeerIsPatient
  <2>4. \A c \in completions' : c \in completions \/ c.result = "sent"
    BY <1>21, <2>1, <2>3 DEF SendCompletes, Complete
  <2>p. PeerIsPatient'
    BY <2>2 DEF PeerIsPatient
  <2>f. NoFailures'
    BY <2>2, <2>4 DEF NoFailures
  <2>d. ~HasDangling'
    BY <2>2 DEF HasDangling
  <2>e. ~Ending'
    BY <2>1, <2>2 DEF Ending
  <2>u. ~ub'
    BY <2>2
  <2>9. QED
    BY <2>p, <2>f, <2>d, <2>e, <2>u DEF Undisturbed
<1>22. CASE PeerCloses
  <2>1. ~Ending /\ pc[Poster] = "done" /\ peer' = "closed"
    BY <1>22, NotYetEnding DEF PeerCloses
  <2>2. UNCHANGED <<s, freed, pc, bClosing, OutOfOrderSends, completions, ub, after, error, bCleanupSocket>>
    BY <1>22 DEF PeerCloses, sockobj, locals
  <2>p. PeerIsPatient'
    BY <2>1, <2>2 DEF PeerIsPatient
  <2>f. NoFailures'
    BY <2>1, <2>2 DEF NoFailures
  <2>d. ~HasDangling'
    BY <2>2 DEF HasDangling
  <2>e. ~Ending'
    BY <2>1, <2>2 DEF Ending
  <2>u. ~ub'
    BY <2>2
  <2>9. QED
    BY <2>p, <2>f, <2>d, <2>e, <2>u DEF Undisturbed
<1>23. CASE PeerResets
  BY <1>23 DEF PeerResets
<1>24. CASE UNCHANGED vars
  BY <1>24 DEF vars, sockobj, locals, stack, Undisturbed, PeerIsPatient, NoFailures, HasDangling, Ending, Quiet
<1>25. QED
  BY <1>1, <1>2, <1>3, <1>4, <1>5, <1>6, <1>7, <1>8, <1>9, <1>10, <1>11, <1>12,
     <1>13, <1>14, <1>15, <1>16, <1>17, <1>18, <1>19, <1>20, <1>21, <1>22, <1>23,
     <1>24
  DEF Next, FirstPosts, CompletionThread

(***************************************************************************)
(* "See if there are any more outstanding operations": OutstandingOps is   *)
(* the number of operations that are posted or being handled, less those   *)
(* not yet counted; and no thread touches a freed object unless a post     *)
(* failed or the peer was gone before the receives were posted.            *)
(***************************************************************************)
THEOREM LifetimeKept == Spec => []LifetimeInvariant
<1>1. Init => LifeInv
  <2> SUFFICES ASSUME Init PROVE LifeInv
    OBVIOUS
  <2>1. OrderInv
    BY OrderStarts
  <2>2. SendsNumbered
    BY FS_EmptySet DEF Init, SendsNumbered
  <2>3. Uncounted = {} /\ Undecided = {}
    BY ThreadsAssumption DEF Init, Uncounted, Undecided, Threads
  <2>4. Len(recvs) = 0 /\ sends = {} /\ completions = {} /\ OutstandingOps = 0
    BY DEF Init
  <2>5. OperationsCounted
    BY <2>3, <2>4, FS_EmptySet DEF OperationsCounted
  <2>6. PeerIsPatient
    BY ThreadsAssumption DEF Init, PeerIsPatient, Threads
  <2>7. NoFailures
    BY DEF Init, NoFailures
  <2>8. ~HasDangling
    BY DEF Init, HasDangling
  <2>9. ~Ending
    BY ThreadsAssumption DEF Init, Ending, Threads
  <2>10. ub = FALSE
    BY DEF Init
  <2>11. QED
    BY <2>1, <2>2, <2>5, <2>6, <2>7, <2>8, <2>9, <2>10 DEF LifeInv, Accounted, Undisturbed
<1>2. LifeInv /\ [Next]_vars => LifeInv'
  <2> SUFFICES ASSUME LifeInv, [Next]_vars PROVE LifeInv'
    OBVIOUS
  <2>1. OrderInv'
    BY OrderInvKept DEF LifeInv
  <2>2. Accounted'
    BY AccountKept DEF LifeInv
  <2>3. disturbed' \/ Undisturbed'
    BY DisturbedStays, UndisturbedKept DEF LifeInv
  <2>4. QED
    BY <2>1, <2>2, <2>3 DEF LifeInv
<1>3. LifeInv => LifetimeInvariant
  BY DEF LifeInv, OrderInv, Accounted, Undisturbed, LifetimeInvariant, NoUseAfterFree
<1>4. QED
  BY <1>1, <1>2, <1>3, PTL DEF Spec

=============================================================================
