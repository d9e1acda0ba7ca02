------------------------ MODULE ThrottleServerProofs ------------------------
(***************************************************************************)
(* Two properties of ThrottleServer, for any number of workers,            *)
(* connections, buffers, messages and failures.                            *)
(*                                                                         *)
(* The throttle.  A thread counts against it from its test of              *)
(* gOutstandingSends until it has raised it (InSend).  Between the two it  *)
(* may be any number of other threads' turn, so gOutstandingSends alone is *)
(* bounded only because a thread that passes the test is not yet among     *)
(* those it has to reckon with.                                            *)
(*                                                                         *)
(* The counters of the operations.  They can only be right when no buffer  *)
(* is handed out while an operation uses it, which is a matter of the      *)
(* three lists the field next makes: until an accept fails they are        *)
(* disjoint and end (Steady), and every operation is counted once (Exact). *)
(***************************************************************************)
EXTENDS ThrottleServer, FiniteSetTheorems, WellFoundedInduction, TLAPS

InSend == {w \in Workers : worker[w].pc \in {"dequeue", "sent"}}

(***************************************************************************)
(* What the steps need to know of the two variables the throttle is made   *)
(* of: the fields are there, and the counter is a number.                  *)
(***************************************************************************)
WorkersAreRecords == DOMAIN worker = Workers /\ \A w \in Workers : "pc" \in DOMAIN worker[w]

CountIsRecord == "gOutstandingSends" \in DOMAIN count /\ count.gOutstandingSends \in Int

ThrottleInv == WorkersAreRecords /\ CountIsRecord /\ SendsThrottled

Shape == WorkersAreRecords /\ CountIsRecord

(***************************************************************************)
(* What a step may do to the throttle.                                     *)
(***************************************************************************)

\* Nobody passes the test, and the counter does not rise.
Unthrottled ==
  /\ Shape'
  /\ count'.gOutstandingSends <= count.gOutstandingSends
  /\ InSend' \subseteq InSend

\* w passes the test.
Passes(w) ==
  /\ Shape'
  /\ count.gOutstandingSends < gMaxSends
  /\ count'.gOutstandingSends = count.gOutstandingSends
  /\ w \notin InSend /\ InSend' \subseteq InSend \cup {w}

\* w raises the counter and is past its send.
Counts(w) ==
  /\ Shape'
  /\ count'.gOutstandingSends = count.gOutstandingSends + 1
  /\ w \in InSend /\ InSend' \subseteq InSend \ {w}

-----------------------------------------------------------------------------
LEMMA InSendFinite ==
  /\ IsFiniteSet(InSend) /\ Cardinality(InSend) \in Nat
  /\ Cardinality(Workers) \in Nat /\ Cardinality(Workers) > 0
<1>1. IsFiniteSet(Workers) /\ Workers # {}
  BY ThrottleAssumption
<1>2. InSend \in SUBSET Workers
  BY DEF InSend
<1>3. QED
  BY <1>1, <1>2, FS_Subset, FS_CardinalityType, FS_EmptySet

LEMMA WorkerSteps ==
  ASSUME Shape, NEW w \in Workers, HandleIo(w)
  PROVE  Unthrottled \/ Passes(w) \/ Counts(w)
<1> USE DEF Shape, WorkersAreRecords, CountIsRecord, InSend, Idle
<1>1. ASSUME NEW b \in Bufs, AcceptError(w, b) PROVE Unthrottled
  BY <1>1 DEF AcceptError, Unthrottled
<1>2. ASSUME NEW b \in Bufs, HandleAccept(w, b) PROVE Unthrottled
  <2>1. CASE RemoveSpins(mem, b)
    <3>1. count' = count /\ Goto(w, "hung")
      BY <1>2, <2>1 DEF HandleAccept
    <3>2. QED
      BY <3>1 DEF Goto, Unthrottled
  <2>2. CASE ~RemoveSpins(mem, b)
    <3>1. count' = Repost(OneAcceptLess(0)) /\ Goto(w, "test")
      BY <1>2, <2>2 DEF HandleAccept
    <3>2. QED
      BY <3>1 DEF Goto, Repost, OneAcceptLess, Unthrottled
  <2>3. QED
    BY <2>1, <2>2
<1>3. ASSUME NEW b \in Bufs, AcceptWithoutPort(w, b) PROVE Unthrottled
  BY <1>3 DEF AcceptWithoutPort, OneAcceptLess, Unthrottled
<1>4. ASSUME NEW b \in Bufs, AcceptWithoutObject(w, b) PROVE Unthrottled
  BY <1>4 DEF AcceptWithoutObject, Accepted, Ready, Goto, Repost, OneAcceptLess, Unthrottled
<1>5. ASSUME NEW b \in Bufs, ReadOrWriteError(w, b) PROVE Unthrottled
  BY <1>5 DEF ReadOrWriteError, Unthrottled
<1>6. ASSUME NEW b \in Bufs, HandleRead(w, b) PROVE Unthrottled
  BY <1>6 DEF HandleRead, At, Unthrottled
<1>7. ASSUME NEW b \in Bufs, HandleEnd(w, b) PROVE Unthrottled
  BY <1>7 DEF HandleEnd, At, Unthrottled
<1>8. ASSUME NEW b \in Bufs, HandleWrite(w, b) PROVE Unthrottled
  <2>1. /\ count' = [count EXCEPT !.gOutstandingSends = @ - 1]
        /\ \/ At(w, "test", buf[b].c)
           \/ worker' = [worker EXCEPT ![w] = [Idle EXCEPT !.pc = "receive", !.c = buf[b].c, !.b = b]]
    BY <1>8 DEF HandleWrite
  <2>2. WorkersAreRecords' /\ InSend' \subseteq InSend
    BY <2>1 DEF At
  <2>3. QED
    BY <2>1, <2>2 DEF Unthrottled
<1>9. ASSUME NEW b \in Bufs, PostSend(w, b) PROVE Unthrottled
  BY <1>9 DEF PostSend, Dequeues, Posted, Unthrottled
<1>10. ASSUME NEW b \in Bufs, PostSendFails(w, b) PROVE Unthrottled
  BY <1>10 DEF PostSendFails, Processed, Unthrottled
<1>11. ASSUME TestEnd(w) PROVE Unthrottled
  BY <1>11 DEF TestEnd, Unthrottled
<1>12. ASSUME PostRecv(w) PROVE Unthrottled
  BY <1>12 DEF PostRecv, Posted, Unthrottled
<1>13. ASSUME PostRecvFails(w) PROVE Unthrottled
  BY <1>13 DEF PostRecvFails, Unthrottled
<1>14. ASSUME ReceivePosted(w) PROVE Unthrottled
  BY <1>14 DEF ReceivePosted, Counted, Unthrottled
<1>15. ASSUME ProcessPendingOperations(w) PROVE Unthrottled \/ Passes(w)
  BY <1>15 DEF ProcessPendingOperations, Goto, Processed, Unthrottled, Passes
<1>16. ASSUME NothingPending(w) PROVE Unthrottled
  BY <1>16 DEF NothingPending, Processed, Unthrottled
<1>17. ASSUME SendPosted(w) PROVE Counts(w)
  BY <1>17 DEF SendPosted, Counted, Counts
<1>18. ASSUME TestClosing(w) PROVE Unthrottled
  BY <1>18 DEF TestClosing, Goto, Return, Unthrottled
<1>19. ASSUME CleanupSocket(w) PROVE Unthrottled
  BY <1>19 DEF CleanupSocket, Return, Unthrottled
<1>20. QED
  BY <1>1, <1>2, <1>3, <1>4, <1>5, <1>6, <1>7, <1>8, <1>9, <1>10, <1>11, <1>12, <1>13,
     <1>14, <1>15, <1>16, <1>17, <1>18, <1>19 DEF HandleIo

\* The main thread posts accepts; a wild buffer stops every worker.
LEMMA PostingSteps ==
  ASSUME Shape, NEW limit, NEW unlimited, NEW n, Posting(limit, unlimited, n),
         DOMAIN n = DOMAIN count, n.gOutstandingSends = count.gOutstandingSends
  PROVE  Unthrottled
<1>1. PICK bad \in IF count.faults > 0 THEN 0..limit ELSE {0} :
        \E t \in {PostAccepts(limit, unlimited, bad)} :
          /\ count' = [n EXCEPT !.PendingAcceptCount = t.count.PendingAcceptCount,
                                !.faults = t.count.faults]
          /\ worker' = IF t.wild THEN [w \in Workers |-> [Idle EXCEPT !.pc = "stopped"]]
                                 ELSE worker
  BY DEF Posting
<1>2. /\ "gOutstandingSends" \in DOMAIN count'
      /\ count'.gOutstandingSends = count.gOutstandingSends
      /\ count.gOutstandingSends \in Int
  BY <1>1 DEF Shape, CountIsRecord
<1>3. WorkersAreRecords' /\ InSend' \subseteq InSend
  BY <1>1 DEF Shape, WorkersAreRecords, InSend, Idle
<1>4. QED
  BY <1>2, <1>3 DEF Unthrottled, Shape, CountIsRecord

LEMMA OtherSteps ==
  ASSUME Shape, MainThread \/ (\E stale \in SUBSET Bufs : Sweep(stale)) \/ Peers
  PROVE  Unthrottled
<1> USE DEF Shape, WorkersAreRecords, CountIsRecord, InSend
<1>1. CASE Start
  <2>1. Posting(gInitialAccepts, TRUE, count) /\ count.gOutstandingSends = count.gOutstandingSends
    BY <1>1 DEF Start
  <2>2. QED
    BY <2>1, PostingSteps
<1>2. CASE OnAcceptEvent
  BY <1>2, PostingSteps DEF OnAcceptEvent
<1>3. CASE OnRepostAccept
  BY <1>3 DEF OnRepostAccept, Unthrottled
<1>4. CASE ResetRepostAccept
  <2> DEFINE reset == [count EXCEPT !.RepostAccept = FALSE]
  <2>1. Posting(main.limit, FALSE, reset)
    BY <1>4 DEF ResetRepostAccept
  <2>2. DOMAIN reset = DOMAIN count /\ reset.gOutstandingSends = count.gOutstandingSends
    OBVIOUS
  <2> HIDE DEF reset
  <2>3. QED
    BY <2>1, <2>2, PostingSteps
<1>5. ASSUME NEW stale \in SUBSET Bufs, Sweep(stale) PROVE Unthrottled
  BY <1>5 DEF Sweep, Unthrottled
<1>6. ASSUME NEW c \in Conns, Connect(c) \/ Send(c) \/ Close(c) PROVE Unthrottled
  BY <1>6 DEF Connect, Send, Close, Unthrottled
<1>7. QED
  BY <1>1, <1>2, <1>3, <1>4, <1>5, <1>6 DEF MainThread, Peers

(***************************************************************************)
(* The numbers.  A thread that passes the test was not among those between *)
(* test and count, so these are at most all the others, and it saw a       *)
(* counter below the maximum.                                              *)
(***************************************************************************)
LEMMA ThrottleHolds ==
  ASSUME Shape, SendsThrottled,
         Unthrottled \/ \E w \in Workers : Passes(w) \/ Counts(w)
  PROVE  ThrottleInv'
<1>1. /\ IsFiniteSet(InSend) /\ Cardinality(InSend) \in Nat
      /\ IsFiniteSet(Workers) /\ Cardinality(Workers) \in Nat
  BY InSendFinite, ThrottleAssumption
<1>2. count.gOutstandingSends \in Int /\ gMaxSends \in Nat
  BY ThrottleAssumption DEF Shape, CountIsRecord
<1>3. count.gOutstandingSends + Cardinality(InSend) <= gMaxSends + Cardinality(Workers) - 1
  BY DEF SendsThrottled, InSend
<1>4. ASSUME Unthrottled PROVE ThrottleInv'
  <2>1. Cardinality(InSend') <= Cardinality(InSend) /\ Cardinality(InSend') \in Nat
    BY <1>1, <1>4, FS_Subset, FS_CardinalityType DEF Unthrottled
  <2>2. count'.gOutstandingSends \in Int
    BY <1>4 DEF Unthrottled, Shape, CountIsRecord
  <2>3. count'.gOutstandingSends + Cardinality(InSend') <= gMaxSends + Cardinality(Workers) - 1
    BY <1>1, <1>2, <1>3, <1>4, <2>1, <2>2 DEF Unthrottled
  <2>4. QED
    BY <1>4, <2>3 DEF Unthrottled, Shape, ThrottleInv, SendsThrottled, InSend
<1>5. ASSUME NEW w \in Workers, Passes(w) PROVE ThrottleInv'
  <2>1. InSend' \in SUBSET Workers /\ InSend \in SUBSET Workers
    BY DEF InSend
  <2>2. InSend \in SUBSET (Workers \ {w})
    BY <1>5, <2>1 DEF Passes
  <2>3. Cardinality(Workers \ {w}) = Cardinality(Workers) - 1 /\ IsFiniteSet(Workers \ {w})
    BY <1>1, FS_RemoveElement
  <2>4. Cardinality(InSend) <= Cardinality(Workers) - 1
    BY <2>2, <2>3, FS_Subset
  <2>5. /\ IsFiniteSet(InSend \cup {w})
        /\ Cardinality(InSend \cup {w}) = Cardinality(InSend) + 1
    BY <1>1, <1>5, FS_AddElement DEF Passes
  <2>6. Cardinality(InSend') <= Cardinality(InSend) + 1 /\ Cardinality(InSend') \in Nat
    BY <1>5, <2>5, FS_Subset, FS_CardinalityType DEF Passes
  <2>7. count'.gOutstandingSends + Cardinality(InSend') <= gMaxSends + Cardinality(Workers) - 1
    BY <1>1, <1>2, <1>5, <2>4, <2>6 DEF Passes
  <2>8. QED
    BY <1>5, <2>7 DEF Passes, Shape, ThrottleInv, SendsThrottled, InSend
<1>6. ASSUME NEW w \in Workers, Counts(w) PROVE ThrottleInv'
  <2>1. /\ IsFiniteSet(InSend \ {w})
        /\ Cardinality(InSend \ {w}) = Cardinality(InSend) - 1
    BY <1>1, <1>6, FS_RemoveElement DEF Counts
  <2>2. Cardinality(InSend') <= Cardinality(InSend) - 1 /\ Cardinality(InSend') \in Nat
    BY <1>6, <2>1, FS_Subset, FS_CardinalityType DEF Counts
  <2>3. count'.gOutstandingSends + Cardinality(InSend') <= gMaxSends + Cardinality(Workers) - 1
    BY <1>1, <1>2, <1>3, <1>6, <2>2 DEF Counts
  <2>4. QED
    BY <1>6, <2>3 DEF Counts, Shape, ThrottleInv, SendsThrottled, InSend
<1>7. QED
  BY <1>4, <1>5, <1>6

(***************************************************************************)
(* ProcessPendingOperations tests gOutstandingSends without a lock that    *)
(* covers the send and the count.  Still gOutstandingSends, with the sends *)
(* that are under way, never exceeds gMaxSends by as much as the number of *)
(* completion threads.                                                     *)
(***************************************************************************)
THEOREM Throttled == Spec => []SendsThrottled
<1>1. Init => ThrottleInv
  <2> SUFFICES ASSUME Init PROVE ThrottleInv
    OBVIOUS
  <2>1. WorkersAreRecords /\ CountIsRecord /\ InSend = {}
    BY DEF Init, Idle, WorkersAreRecords, CountIsRecord, InSend
  <2>2. Cardinality(InSend) = 0 /\ Cardinality(Workers) \in Nat /\ Cardinality(Workers) > 0
    BY <2>1, InSendFinite, FS_EmptySet
  <2>3. count.gOutstandingSends = 0 /\ gMaxSends \in Nat
    BY ThrottleAssumption DEF Init
  <2>4. QED
    BY <2>1, <2>2, <2>3 DEF ThrottleInv, SendsThrottled, InSend
<1>2. ThrottleInv /\ [Next]_vars => ThrottleInv'
  <2> SUFFICES ASSUME ThrottleInv, [Next]_vars PROVE ThrottleInv'
    OBVIOUS
  <2>1. Shape /\ SendsThrottled
    BY DEF ThrottleInv, Shape
  <2>2. CASE \E w \in Workers : HandleIo(w)
    BY <2>1, <2>2, WorkerSteps, ThrottleHolds
  <2>3. CASE MainThread \/ (\E stale \in SUBSET Bufs : Sweep(stale)) \/ Peers
    BY <2>1, <2>3, OtherSteps, ThrottleHolds
  <2>4. CASE UNCHANGED vars
    BY <2>4 DEF vars, ThrottleInv, WorkersAreRecords, CountIsRecord, SendsThrottled
  <2>5. QED
    BY <2>2, <2>3, <2>4 DEF Next
<1>3. ThrottleInv => SendsThrottled
  BY DEF ThrottleInv
<1>4. QED
  BY <1>1, <1>2, <1>3, PTL DEF Spec

-----------------------------------------------------------------------------
(***************************************************************************)
(* The buffers in one state, by what the code does with them.              *)
(***************************************************************************)
With(bs, at) == {b \in Bufs : bs[b].at = at}

Accepts(bs) == {b \in Bufs : bs[b].at = "posted" /\ bs[b].operation = "accept"}

(***************************************************************************)
(* The field next links the buffers of S from head: it leads from S to S,  *)
(* and no two ways lead to one buffer.                                     *)
(***************************************************************************)
Chain(next, head, S) ==
  /\ head \in S \cup {Null}
  /\ \A x \in S : next[x] \in S \cup {Null} /\ (next[x] = head => head = Null)
  /\ \A x, y \in S : next[x] = next[y] => x = y \/ next[x] = Null

(***************************************************************************)
(* The buffers that are reached from head, in order, are q[1] to q[n].     *)
(***************************************************************************)
Path(next, head, n, q) ==
  /\ n \in Nat /\ q \in [1..n -> Bufs]
  /\ \A i, j \in 1..n : q[i] = q[j] => i = j
  /\ head = IF n = 0 THEN Null ELSE q[1]
  /\ \A i \in 1..n : next[q[i]] = IF i = n THEN Null ELSE q[i + 1]

(***************************************************************************)
(* The three lists, when F are the free buffers, Q those with a pending    *)
(* send, A the pending accepts and X those that were lost: every pending   *)
(* accept is listed, and what else is listed was lost when PostAccept      *)
(* failed.                                                                 *)
(***************************************************************************)
SendList(m, Q) ==
  /\ Chain(m.next, m.gPendingSendList, Q)
  /\ m.gPendingSendListEnd \in Q \cup {Null}
  /\ m.gPendingSendListEnd # Null => m.next[m.gPendingSendListEnd] = Null

Holds(n, q, A, X) ==
  /\ \A b \in A : \E i \in 1..n : q[i] = b
  /\ \A i \in 1..n : q[i] \in A \cup X

AcceptList(m, A, X) ==
  \E n \in 0..NBufs : \E q \in [1..n -> Bufs] : Path(m.next, m.PendingAccepts, n, q) /\ Holds(n, q, A, X)

Lists(m, F, Q, A, X) ==
  /\ Chain(m.next, m.gFreeBufferList, F)
  /\ SendList(m, Q)
  /\ AcceptList(m, A, X)

Listed(m, bs) == Lists(m, With(bs, "free"), With(bs, "queued"), Accepts(bs), With(bs, "lost"))

-----------------------------------------------------------------------------
BufRecords ==
  [at : {"heap", "free", "posted", "queued", "held", "lost"}, operation : {"none", "accept", "read", "write"},
   c : 0..NConns, data : {0, 1}, res : {"none", "error", "swept"}]

MemRecords ==
  [next : [Bufs -> 0..NBufs], PendingAccepts : 0..NBufs, gFreeBufferList : 0..NBufs,
   gPendingSendList : 0..NBufs, gPendingSendListEnd : 0..NBufs]

PeerRecords == [at : {"away", "backlog", "connected", "closed"}, unread : Int, owed : Int]

SockRecords ==
  [obj : {"none", "used", "freed"}, frees : Nat, OutstandingRecv : Int, OutstandingSend : Int,
   bClosing : BOOLEAN]

WorkerRecords ==
  [pc : {"idle", "test", "end", "receive", "received", "dequeue", "sent", "close", "free", "stopped"},
   c : 0..NConns, b : 0..NBufs, lock : 0..NConns, bCleanupSocket : BOOLEAN]

CountRecords ==
  [gOutstandingSends : Int, PendingAcceptCount : Int, RepostCount : Nat, AcceptEvent : BOOLEAN,
   RepostAccept : BOOLEAN, sendErrors : Int, acceptErrors : Nat, sent : Int, faults : Int]

Types ==
  /\ buf \in [Bufs -> BufRecords] /\ mem \in MemRecords /\ peer \in [Conns -> PeerRecords]
  /\ sock \in [Conns -> SockRecords] /\ worker \in [Workers -> WorkerRecords]
  /\ count \in CountRecords /\ main.limit \in Nat

(***************************************************************************)
(* Buffers, connections and threads.                                       *)
(***************************************************************************)

\* One accept takes a connection, and it has no socket object until then.
Taken(bs, ps) ==
  /\ \A b \in Accepts(bs) : bs[b].c # NoConn => /\ sock[bs[b].c].obj = "none"
                                                /\ ps[bs[b].c].at \in {"connected", "closed"}
  /\ \A b \in Accepts(bs) : bs[b].res # "none" => bs[b].c # NoConn
  /\ \A a, b \in Accepts(bs) : bs[a].c = bs[b].c => a = b \/ bs[a].c = NoConn
  /\ \A c \in Conns : ps[c].at \in {"away", "backlog"} => sock[c].obj = "none"

HasObject(c) == c \in Conns /\ sock[c].obj # "none"

\* What is read or sent is read from or sent to a connection with an object.
InUse(bs) ==
  \A b \in Bufs :
    /\ bs[b].operation = "accept" => bs[b].at = "posted"
    /\ bs[b].at = "queued" => bs[b].operation = "write" /\ HasObject(bs[b].c)
    /\ bs[b].at = "posted" => bs[b].operation = "accept"
                              \/ (bs[b].operation \in {"read", "write"} /\ HasObject(bs[b].c))

Working == \A w \in Workers : worker[w].c # NoConn => HasObject(worker[w].c)

\* The buffer a thread is about to post a receive with is nobody else's.
Holding ==
  \A w \in Workers : worker[w].pc = "receive" =>
    /\ worker[w].b \in Bufs /\ buf[worker[w].b].at = "held"
    /\ worker[w].c \in Conns /\ buf[worker[w].b].c = worker[w].c
    /\ \A v \in Workers : worker[v].pc = "receive" /\ worker[v].b = worker[w].b => v = w

Steady ==
  /\ Types /\ main.pc \notin {"wild", "hung"} /\ Listed(mem, buf)
  /\ Taken(buf, peer) /\ InUse(buf) /\ Working /\ Holding

(***************************************************************************)
(* OperationsCounted, part by part, and of connections without an object.  *)
(***************************************************************************)
Reads(c) ==
  sock[c].OutstandingRecv = Cardinality(InFlight("read", c)) - Cardinality(Uncounted("received", c))

Sends(c) ==
  sock[c].OutstandingSend = Cardinality(InFlight("write", c)) - Cardinality(Uncounted("sent", c))

PostedSends == {b \in Bufs : buf[b].at = "posted" /\ buf[b].operation = "write"}

LateSends == {w \in Workers : worker[w].pc = "sent"}

Slots == count.gOutstandingSends = count.sendErrors + Cardinality(PostedSends) - Cardinality(LateSends)

Exact == (\A c \in Conns : sock[c].obj # "freed" => Reads(c) /\ Sends(c)) /\ Slots

-----------------------------------------------------------------------------
(***************************************************************************)
(* The lists one by one: what is pushed, popped, appended or written       *)
(* elsewhere leaves a chain a chain.                                       *)
(***************************************************************************)
(* The links but that of x are the same.                                   *)
Written(next, after, x) == \A y \in Bufs : y # x => after[y] = next[y]

LEMMA ChainPush ==
  ASSUME NEW next, NEW head, NEW S \in SUBSET Bufs, NEW b \in Bufs, NEW after,
         Chain(next, head, S), b \notin S, Written(next, after, b), after[b] = head
  PROVE  Chain(after, b, S \cup {b})
  BY DEF Chain, Written, Bufs, Null

LEMMA ChainPop ==
  ASSUME NEW next, NEW head, NEW S \in SUBSET Bufs, NEW after,
         Chain(next, head, S), head # Null, Written(next, after, head)
  PROVE  Chain(after, next[head], S \ {head}) /\ head \in S
  BY DEF Chain, Written, Bufs, Null

LEMMA ChainApart ==
  ASSUME NEW next, NEW head, NEW S \in SUBSET Bufs, NEW x, NEW after,
         Chain(next, head, S), x \notin S, Written(next, after, x)
  PROVE  Chain(after, head, S)
  BY DEF Chain, Written

LEMMA ChainAppend ==
  ASSUME NEW next, NEW head, NEW S \in SUBSET Bufs, NEW last \in S, NEW b \in Bufs, NEW after,
         Chain(next, head, S), b \notin S, next[last] = Null, Written(next, after, last),
         after[last] = b, after[b] = Null
  PROVE  Chain(after, head, S \cup {b})
  BY DEF Chain, Written, Bufs, Null

LEMMA ChainStart ==
  ASSUME NEW next, NEW head, NEW S \in SUBSET Bufs, NEW b \in Bufs, NEW after,
         Chain(next, head, S), b \notin S, Written(next, after, b), after[b] = Null
  PROVE  Chain(after, b, S \cup {b})
  BY DEF Chain, Written, Bufs, Null

(***************************************************************************)
(* The pending accepts.                                                    *)
(***************************************************************************)
Misses(n, q, x) == \A i \in 1..n : q[i] # x

LEMMA PathApart ==
  ASSUME NEW next, NEW after, NEW head, NEW n, NEW q, NEW x,
         Path(next, head, n, q), Misses(n, q, x), Written(next, after, x)
  PROVE  Path(after, head, n, q)
<1>1. \A i \in 1..n : q[i] \in Bufs
  BY DEF Path
<1>2. \A i \in 1..n : after[q[i]] = next[q[i]]
  BY <1>1 DEF Written, Misses
<1>3. QED
  BY <1>2 DEF Path

LEMMA PathShort ==
  ASSUME NEW next, NEW head, NEW n, NEW q, Path(next, head, n, q)
  PROVE  n \in 0..NBufs
<1>1. n \in Nat /\ q \in Injection(1..n, Bufs)
  <2>1. n \in Nat /\ q \in [1..n -> Bufs] /\ \A i, j \in 1..n : q[i] = q[j] => i = j
    BY DEF Path
  <2>2. IsInjective(q)
    BY <2>1 DEF IsInjective
  <2>3. QED
    BY <2>1, <2>2 DEF Injection
<1>2. IsFiniteSet(Bufs) /\ Cardinality(Bufs) = NBufs
  <2>1. 1 \in Int /\ NBufs \in Int /\ NBufs \in Nat
    BY ThrottleAssumption
  <2>2. QED
    BY <2>1, FS_Interval DEF Bufs
<1>3. IsFiniteSet(1..n) /\ Cardinality(1..n) = n
  BY <1>1, FS_Interval
<1>4. Cardinality(1..n) <= Cardinality(Bufs)
  BY <1>1, <1>2, FS_Injection
<1>5. QED
  BY <1>1, <1>2, <1>3, <1>4, ThrottleAssumption

LEMMA Least ==
  ASSUME NEW S \in SUBSET Nat, S # {}
  PROVE  \E i \in S : \A j \in S : i <= j
<1> DEFINE less == OpToRel(<, Nat)
<1>1. IsWellFoundedOn(less, Nat)
  BY NatLessThanWellFounded
<1>2. \E i \in S : \A j \in S : ~ (<<j, i>> \in less)
  <2> HIDE DEF less
  <2>1. QED
    BY <1>1, WFMin, Zenon
<1>3. PICK i \in S : \A j \in S : ~ (<<j, i>> \in OpToRel(<, Nat))
  BY <1>2
<1>4. \A j \in S : ~ (j < i)
  BY <1>3 DEF OpToRel
<1>5. QED
  BY <1>4

(* What Entries gives for a path, Null behind its end.                     *)
LEMMA EntriesOfPath ==
  ASSUME NEW m, NEW n, NEW q, Path(m.next, m.PendingAccepts, n, q)
  PROVE  \A k \in 0..NBufs : Entries(m, m.PendingAccepts)[k] = IF k < n THEN q[k + 1] ELSE Null
<1> DEFINE places == 0..NBufs
           head == m.PendingAccepts
           next == m.next
           step(e) == [k \in places |-> IF k = 0 THEN head
                                       ELSE IF e[k-1] = Null THEN Null ELSE next[e[k-1]]]
           path == [k \in places |-> IF k < n THEN q[k + 1] ELSE Null]
           entry == Entries(m, head)
<1>0. NBufs \in Nat /\ n \in Nat /\ q \in [1..n -> Bufs]
  BY ThrottleAssumption DEF Path
<1>1. path = step(path)
  <2>1. ASSUME NEW k \in places
        PROVE  path[k] = IF k = 0 THEN head ELSE IF path[k-1] = Null THEN Null ELSE next[path[k-1]]
    <3>1. CASE k = 0
      BY <1>0, <3>1 DEF Path
    <3>2. CASE k # 0 /\ k < n
      <4>1. k - 1 \in places /\ k \in 1..n /\ path[k-1] = q[k] /\ q[k] # Null /\ next[q[k]] = q[k + 1]
        BY <1>0, <3>2 DEF Path, Bufs, Null
      <4>2. QED
        BY <3>2, <4>1
    <3>3. CASE k # 0 /\ k = n
      <4>1. k - 1 \in places /\ k \in 1..n /\ path[k-1] = q[k] /\ q[k] # Null /\ next[q[k]] = Null
        BY <1>0, <3>3 DEF Path, Bufs, Null
      <4>2. path[k] = Null
        BY <1>0, <3>3
      <4> HIDE DEF path
      <4>3. QED
        BY <3>3, <4>1, <4>2
    <3>4. CASE k # 0 /\ k > n
      <4>1. k - 1 \in places /\ path[k-1] = Null
        BY <1>0, <3>4
      <4>2. path[k] = Null
        BY <1>0, <3>4
      <4> HIDE DEF path
      <4>3. QED
        BY <3>4, <4>1, <4>2
    <3>5. k = 0 \/ (k # 0 /\ k < n) \/ (k # 0 /\ k = n) \/ (k # 0 /\ k > n)
      BY <1>0
    <3> HIDE DEF path
    <3>6. QED
      BY <3>1, <3>2, <3>3, <3>4, <3>5
  <2>2. QED
    BY <2>1
<1>2. entry = step(entry)
  <2>1. entry = CHOOSE e : e = step(e)
    BY DEF Entries
  <2> HIDE DEF step, path, entry
  <2>2. QED
    BY <1>1, <2>1
<1>3. ASSUME NEW k \in places, entry[k] # path[k] PROVE FALSE
  <2> DEFINE wrong == {i \in places : entry[i] # path[i]}
  <2>1. PICK i \in wrong : \A j \in wrong : i <= j
    <3>1. wrong \in SUBSET Nat /\ wrong # {}
      BY <1>0, <1>3
    <3> HIDE DEF wrong
    <3>2. QED
      BY <3>1, Least
  <2>2. i \in places /\ entry[i] # path[i]
    BY <2>1
  <2>3. i # 0 => i - 1 \in places /\ entry[i-1] = path[i-1]
    BY <1>0, <2>1
  <2>4. step(entry)[i] = step(path)[i]
    BY <2>2, <2>3
  <2> HIDE DEF step, path, entry
  <2>5. QED
    BY <1>1, <1>2, <2>2, <2>4
<1>4. QED
  BY <1>3

LEMMA MinIs ==
  ASSUME NEW S \in SUBSET Nat, NEW k \in S, \A j \in S : k <= j
  PROVE  Min(S) = k
<1>1. \A x \in S : (\A y \in S : x <= y) => x = k
  OBVIOUS
<1>2. (CHOOSE x \in S : \A y \in S : x <= y) = k
  BY <1>1
<1>3. QED
  BY <1>2 DEF Min

(* What RemovePendingAccept finds in front of a listed accept.             *)
LEMMA BeforeOnPath ==
  ASSUME NEW m, NEW n, NEW q, Path(m.next, m.PendingAccepts, n, q), NEW i \in 1..n
  PROVE  Before(m, q[i]) = IF i = 1 THEN Null ELSE q[i - 1]
<1> DEFINE e == Entries(m, m.PendingAccepts)
           ends == {k \in 0..NBufs : e[k] \in {q[i], Null}}
<1>0. /\ NBufs \in Nat /\ n \in 0..NBufs /\ q \in [1..n -> Bufs]
      /\ \A j, k \in 1..n : q[j] = q[k] => j = k
  <2>1. n \in 0..NBufs
    BY PathShort
  <2>2. NBufs \in Nat
    BY ThrottleAssumption
  <2>3. QED
    BY <2>1, <2>2 DEF Path
<1>1. \A k \in 0..NBufs : e[k] = IF k < n THEN q[k + 1] ELSE Null
  BY EntriesOfPath
<1> HIDE DEF e
<1>2. i - 1 \in ends
  BY <1>0, <1>1
<1>3. \A k \in ends : i - 1 <= k
  <2> SUFFICES ASSUME NEW k \in ends, k < i - 1 PROVE FALSE
    BY <1>0
  <2>1. k + 1 \in 1..n /\ k + 1 # i /\ e[k] = q[k + 1] /\ q[k + 1] \in Bufs
    BY <1>0, <1>1
  <2>2. e[k] # q[i] /\ e[k] # Null
    BY <1>0, <2>1 DEF Bufs, Null
  <2>3. QED
    BY <2>2
<1>4. Min(ends) = i - 1
  <2>1. ends \in SUBSET Nat
    OBVIOUS
  <2> HIDE DEF ends
  <2>2. QED
    BY <1>2, <1>3, <2>1, MinIs
<1>5. Before(m, q[i]) = IF Min(ends) = 0 THEN Null ELSE e[Min(ends) - 1]
  BY Zenon DEF Before, e
<1>6. i # 1 => e[i - 1 - 1] = q[i - 1]
  BY <1>0, <1>1
<1> HIDE DEF ends
<1>7. QED
  BY <1>0, <1>4, <1>5, <1>6

Visits(n, q, x) == \E i \in 1..n : q[i] = x

Without(n, q, p, b) == \A x : Visits(n - 1, p, x) <=> x # b /\ Visits(n, q, x)

WithOne(n, q, p, b) == \A x : Visits(n + 1, p, x) <=> x = b \/ Visits(n, q, x)

(* The heads of the other lists.                                           *)
OthersKept(m, r) ==
  /\ r.gFreeBufferList = m.gFreeBufferList /\ r.gPendingSendList = m.gPendingSendList
  /\ r.gPendingSendListEnd = m.gPendingSendListEnd

LEMMA PathRemove ==
  ASSUME NEW m \in MemRecords, NEW n, NEW q, Path(m.next, m.PendingAccepts, n, q), NEW i \in 1..n
  PROVE  LET r == RemovePendingAccept(m, q[i])
         IN /\ \E p : Path(r.next, r.PendingAccepts, n - 1, p) /\ Without(n, q, p, q[i])
            /\ r \in MemRecords /\ OthersKept(m, r)
            /\ \E j \in 1..n : Written(m.next, r.next, q[j])
<1> DEFINE r == RemovePendingAccept(m, q[i])
           next == m.next
           p == [j \in 1..(n - 1) |-> IF j < i THEN q[j] ELSE q[j + 1]]
<1>0. /\ NBufs \in Nat /\ n \in Nat /\ q \in [1..n -> Bufs] /\ Bufs = 1..NBufs /\ Null = 0
      /\ \A j, k \in 1..n : q[j] = q[k] => j = k
      /\ m.PendingAccepts = q[1]
      /\ \A j \in 1..n : next[q[j]] = IF j = n THEN Null ELSE q[j + 1]
      /\ next \in [Bufs -> 0..NBufs]
  <2>1. NBufs \in Nat /\ next \in [Bufs -> 0..NBufs] /\ Bufs = 1..NBufs /\ Null = 0
    BY ThrottleAssumption DEF MemRecords, Bufs, Null
  <2>2. QED
    BY <2>1 DEF Path
<1>1. Before(m, q[i]) = IF i = 1 THEN Null ELSE q[i - 1]
  BY BeforeOnPath
<1>2. r = IF i = 1 THEN [m EXCEPT !.PendingAccepts = next[q[1]]]
                   ELSE [m EXCEPT !.next[q[i - 1]] = next[q[i]]]
  <2>1. i # 1 => q[i - 1] # Null
    BY <1>0
  <2>2. QED
    BY <1>1, <2>1 DEF RemovePendingAccept
<1>3. /\ r.PendingAccepts = IF i = 1 THEN next[q[1]] ELSE q[1]
      /\ r.next = IF i = 1 THEN next ELSE [next EXCEPT ![q[i - 1]] = next[q[i]]]
      /\ r = [m EXCEPT !.next = r.next, !.PendingAccepts = r.PendingAccepts]
  BY <1>0, <1>2 DEF MemRecords
<1> HIDE DEF r
<1>4. /\ p \in [1..(n - 1) -> Bufs]
      /\ \A j \in 1..(n - 1) : /\ j < i => j \in 1..n /\ p[j] = q[j]
                               /\ ~ (j < i) => j + 1 \in 1..n /\ p[j] = q[j + 1]
  BY <1>0
<1> HIDE DEF p, next
<1>5. Path(r.next, r.PendingAccepts, n - 1, p)
  <2>1. ASSUME NEW j \in 1..(n - 1), NEW k \in 1..(n - 1), p[j] = p[k] PROVE j = k
    <3>1. CASE j < i /\ k < i
      <4>1. j \in 1..n /\ k \in 1..n /\ q[j] = q[k]
        BY <1>4, <2>1, <3>1
      <4>2. QED
        BY <1>0, <4>1
    <3>2. CASE j < i /\ ~ (k < i)
      <4>1. j \in 1..n /\ k + 1 \in 1..n /\ q[j] = q[k + 1]
        BY <1>4, <2>1, <3>2
      <4>2. j = k + 1
        BY <1>0, <4>1
      <4>3. QED
        BY <3>2, <4>2
    <3>3. CASE ~ (j < i) /\ k < i
      <4>1. j + 1 \in 1..n /\ k \in 1..n /\ q[j + 1] = q[k]
        BY <1>4, <2>1, <3>3
      <4>2. j + 1 = k
        BY <1>0, <4>1
      <4>3. QED
        BY <3>3, <4>2
    <3>4. CASE ~ (j < i) /\ ~ (k < i)
      <4>1. j + 1 \in 1..n /\ k + 1 \in 1..n /\ q[j + 1] = q[k + 1]
        BY <1>4, <2>1, <3>4
      <4>2. j + 1 = k + 1
        BY <1>0, <4>1
      <4>3. QED
        BY <4>2
    <3>5. QED
      BY <3>1, <3>2, <3>3, <3>4
  <2>2. r.PendingAccepts = IF n - 1 = 0 THEN Null ELSE p[1]
    <3>1. CASE i = 1
      <4>1. 1 \in 1..n /\ next[q[1]] = IF 1 = n THEN Null ELSE q[1 + 1]
        BY <1>0, <3>1
      <4>2. n # 1 => 1 \in 1..(n - 1) /\ ~ (1 < i) /\ p[1] = q[1 + 1]
        BY <1>0, <1>4, <3>1
      <4>3. QED
        BY <1>0, <1>3, <3>1, <4>1, <4>2
    <3>2. CASE i # 1
      <4>1. n # 1 /\ 1 \in 1..(n - 1) /\ p[1] = q[1]
        BY <1>0, <1>4, <3>2
      <4>2. QED
        BY <1>0, <1>3, <3>2, <4>1
    <3>3. QED
      BY <3>1, <3>2
  <2>3. ASSUME NEW j \in 1..(n - 1)
        PROVE  r.next[p[j]] = IF j = n - 1 THEN Null ELSE p[j + 1]
    <3>1. CASE j < i - 1
      <4>0. j \in 1..n /\ i - 1 \in 1..n /\ j + 1 \in 1..(n - 1) /\ j + 1 < i /\ j # n
        BY <1>0, <3>1
      <4>1. p[j] = q[j] /\ p[j + 1] = q[j + 1] /\ q[j] # q[i - 1] /\ j # n - 1 /\ q[j] \in Bufs
        <5>1. p[j] = q[j] /\ p[j + 1] = q[j + 1]
          BY <1>4, <3>1, <4>0
        <5>2. q[j] # q[i - 1] /\ j # n - 1 /\ q[j] \in Bufs
          BY <1>0, <3>1, <4>0
        <5>3. QED
          BY <5>1, <5>2
      <4>2. r.next[q[j]] = next[q[j]] /\ next[q[j]] = q[j + 1]
        BY <1>0, <1>3, <3>1, <4>1
      <4>3. QED
        BY <4>1, <4>2
    <3>2. CASE j = i - 1
      <4>1. p[j] = q[i - 1] /\ q[i - 1] \in Bufs /\ r.next[q[i - 1]] = next[q[i]]
        BY <1>0, <1>3, <1>4, <3>2
      <4>2. next[q[i]] = IF i = n THEN Null ELSE q[i + 1]
        BY <1>0
      <4>3. i # n => p[j + 1] = q[i + 1]
        BY <1>0, <1>4, <3>2
      <4>4. QED
        BY <1>0, <3>2, <4>1, <4>2, <4>3
    <3>3. CASE j > i - 1
      <4>0. j + 1 \in 1..n /\ (i # 1 => i - 1 \in 1..n) /\ j + 1 # i - 1 /\ ~ (j < i)
        BY <1>0, <3>3
      <4>1. p[j] = q[j + 1] /\ (i # 1 => q[j + 1] # q[i - 1]) /\ q[j + 1] \in Bufs
        BY <1>0, <1>4, <3>3, <4>0
      <4>2. r.next[p[j]] = next[q[j + 1]]
        BY <1>0, <1>3, <4>1
      <4>3. next[q[j + 1]] = IF j + 1 = n THEN Null ELSE q[j + 1 + 1]
        BY <1>0
      <4>4. j + 1 # n => p[j + 1] = q[j + 1 + 1]
        BY <1>0, <1>4, <3>3
      <4>5. QED
        BY <1>0, <4>2, <4>3, <4>4
    <3>4. QED
      BY <1>0, <3>1, <3>2, <3>3
  <2>4. n - 1 \in Nat
    BY <1>0
  <2>5. QED
    BY <1>4, <2>1, <2>2, <2>3, <2>4 DEF Path
<1>6. ASSUME NEW x
      PROVE  (\E j \in 1..(n - 1) : p[j] = x) <=> x # q[i] /\ \E j \in 1..n : q[j] = x
  <2>1. ASSUME NEW j \in 1..(n - 1), p[j] = x PROVE x # q[i] /\ \E k \in 1..n : q[k] = x
    <3>1. PICK a \in 1..n : a # i /\ p[j] = q[a]
      <4>1. CASE j < i
        BY <1>4, <4>1
      <4>2. CASE ~ (j < i)
        <5>1. j + 1 # i
          BY <4>2
        <5>2. QED
          BY <1>4, <4>2, <5>1
      <4>3. QED
        BY <4>1, <4>2
    <3>2. QED
      BY <1>0, <2>1, <3>1
  <2>2. ASSUME x # q[i], NEW k \in 1..n, q[k] = x PROVE \E j \in 1..(n - 1) : p[j] = x
    <3>1. CASE k < i
      <4>1. k \in 1..(n - 1) /\ p[k] = x
        BY <1>0, <1>4, <2>2, <3>1
      <4>2. QED
        BY <4>1
    <3>2. CASE k > i
      <4>1. k - 1 \in 1..(n - 1) /\ p[k - 1] = x
        BY <1>0, <1>4, <2>2, <3>2
      <4>2. QED
        BY <4>1
    <3>3. QED
      BY <1>0, <2>2, <3>1, <3>2
  <2>3. QED
    BY <2>1, <2>2
<1>7. r \in MemRecords /\ OthersKept(m, r)
  <2>1. r.PendingAccepts \in 0..NBufs /\ r.next \in [Bufs -> 0..NBufs]
    BY <1>0, <1>3
  <2>2. QED
    BY <1>3, <2>1 DEF MemRecords, OthersKept
<1>8. \E j \in 1..n : Written(m.next, r.next, q[j])
  <2>1. CASE i = 1
    BY <1>3, <2>1 DEF next, Written
  <2>2. CASE i # 1
    <3>1. i - 1 \in 1..n /\ q[i - 1] \in Bufs
      BY <1>0, <2>2
    <3>2. Written(m.next, r.next, q[i - 1])
      BY <1>0, <1>3, <2>2, <3>1 DEF next, Written
    <3>3. QED
      BY <3>1, <3>2
  <2>3. QED
    BY <2>1, <2>2
<1>9. Without(n, q, p, q[i])
  BY <1>6 DEF Without, Visits
<1>10. QED
  BY <1>5, <1>7, <1>8, <1>9 DEF r

LEMMA PathInsert ==
  ASSUME NEW m \in MemRecords, NEW n, NEW q, Path(m.next, m.PendingAccepts, n, q),
         NEW b \in Bufs, Misses(n, q, b)
  PROVE  LET r == InsertPendingAccept(m, b)
         IN /\ r \in MemRecords /\ OthersKept(m, r) /\ Written(m.next, r.next, b)
            /\ \E p : Path(r.next, r.PendingAccepts, n + 1, p) /\ WithOne(n, q, p, b)
<1> DEFINE r == InsertPendingAccept(m, b)
           next == m.next
           p == [j \in 1..(n + 1) |-> IF j = 1 THEN b ELSE q[j - 1]]
<1>0. /\ NBufs \in Nat /\ n \in Nat /\ q \in [1..n -> Bufs] /\ Bufs = 1..NBufs /\ Null = 0
      /\ \A j, k \in 1..n : q[j] = q[k] => j = k
      /\ m.PendingAccepts = IF n = 0 THEN Null ELSE q[1]
      /\ \A j \in 1..n : next[q[j]] = IF j = n THEN Null ELSE q[j + 1]
      /\ next \in [Bufs -> 0..NBufs] /\ m.PendingAccepts \in 0..NBufs
      /\ \A j \in 1..n : q[j] # b
  <2>1. NBufs \in Nat /\ m.PendingAccepts \in 0..NBufs /\ next \in [Bufs -> 0..NBufs] /\ Bufs = 1..NBufs /\ Null = 0
    BY ThrottleAssumption DEF MemRecords, Bufs, Null
  <2>2. QED
    BY <2>1 DEF Path, Misses
<1>1. /\ r = [m EXCEPT !.next = [m.next EXCEPT ![b] = m.PendingAccepts], !.PendingAccepts = b]
      /\ r.next = [next EXCEPT ![b] = m.PendingAccepts] /\ r.PendingAccepts = b
  BY DEF InsertPendingAccept, MemRecords
<1> HIDE DEF r
<1>2. p \in [1..(n + 1) -> Bufs]
  BY <1>0
<1>3. Path(r.next, r.PendingAccepts, n + 1, p)
  <2>1. \A j, k \in 1..(n + 1) : p[j] = p[k] => j = k
    BY <1>0
  <2>2. r.PendingAccepts = IF n + 1 = 0 THEN Null ELSE p[1]
    BY <1>0, <1>1
  <2>3. ASSUME NEW j \in 1..(n + 1)
        PROVE  r.next[p[j]] = IF j = n + 1 THEN Null ELSE p[j + 1]
    <3>1. CASE j = 1
      BY <1>0, <1>1, <3>1
    <3>2. CASE j # 1
      <4>1. j - 1 \in 1..n /\ p[j] = q[j - 1] /\ q[j - 1] # b /\ q[j - 1] \in Bufs
        BY <1>0, <3>2
      <4>2. r.next[p[j]] = next[q[j - 1]]
        BY <1>0, <1>1, <4>1
      <4>3. QED
        BY <1>0, <3>2, <4>1, <4>2
    <3>3. QED
      BY <3>1, <3>2
  <2> HIDE DEF p
  <2>4. n + 1 \in Nat
    BY <1>0
  <2>5. QED
    BY <1>2, <2>1, <2>2, <2>3, <2>4 DEF Path
<1>4. ASSUME NEW x
      PROVE  (\E j \in 1..(n + 1) : p[j] = x) <=> x = b \/ \E j \in 1..n : q[j] = x
  <2>1. ASSUME NEW j \in 1..(n + 1), p[j] = x PROVE x = b \/ \E k \in 1..n : q[k] = x
    <3>1. j = 1 \/ (j - 1 \in 1..n /\ q[j - 1] = x)
      BY <1>0, <2>1
    <3>2. QED
      BY <2>1, <3>1
  <2>2. x = b => \E j \in 1..(n + 1) : p[j] = x
    <3>1. 1 \in 1..(n + 1) /\ p[1] = b
      BY <1>0
    <3>2. QED
      BY <3>1
  <2>3. ASSUME NEW k \in 1..n, q[k] = x PROVE \E j \in 1..(n + 1) : p[j] = x
    <3>1. k + 1 \in 1..(n + 1) /\ p[k + 1] = x
      BY <1>0, <2>3
    <3>2. QED
      BY <3>1
  <2>4. QED
    BY <2>1, <2>2, <2>3
<1> HIDE DEF p
<1>5. WithOne(n, q, p, b)
  BY <1>4 DEF WithOne, Visits
<1>6. r \in MemRecords /\ OthersKept(m, r) /\ Written(m.next, r.next, b)
  <2>1. b \in 0..NBufs /\ r.next \in [Bufs -> 0..NBufs]
    BY <1>0, <1>1
  <2>2. r \in MemRecords /\ OthersKept(m, r)
    BY <1>0, <1>1, <2>1 DEF MemRecords, OthersKept
  <2>3. Written(m.next, r.next, b)
    BY <1>0, <1>1 DEF Written
  <2>4. QED
    BY <2>2, <2>3
<1>7. QED
  BY <1>3, <1>5, <1>6 DEF r
-----------------------------------------------------------------------------
(***************************************************************************)
(* The operations of the lists.  A buffer that is put on one of them is on *)
(* none before.                                                            *)
(***************************************************************************)
Apart(F, Q, A, X) ==
  /\ F \in SUBSET Bufs /\ Q \in SUBSET Bufs /\ A \in SUBSET Bufs /\ X \in SUBSET Bufs
  /\ F \cap Q = {} /\ F \cap A = {} /\ F \cap X = {} /\ Q \cap A = {} /\ Q \cap X = {} /\ A \cap X = {}

Nowhere(b, F, Q, A, X) == b \in Bufs /\ b \notin F /\ b \notin Q /\ b \notin A /\ b \notin X

LEMMA AcceptsApart ==
  ASSUME NEW m, NEW r, NEW A, NEW X, NEW x, AcceptList(m, A, X), x \notin A \cup X,
         Written(m.next, r.next, x), r.PendingAccepts = m.PendingAccepts
  PROVE  AcceptList(r, A, X)
<1>1. PICK n, q : /\ n \in 0..NBufs /\ q \in [1..n -> Bufs]
                  /\ Path(m.next, m.PendingAccepts, n, q) /\ Holds(n, q, A, X)
  BY DEF AcceptList
<1>2. Misses(n, q, x)
  BY <1>1 DEF Holds, Misses
<1>3. Path(r.next, r.PendingAccepts, n, q)
  BY <1>1, <1>2, PathApart
<1>4. QED
  BY <1>1, <1>3 DEF AcceptList

LEMMA SendsApart ==
  ASSUME NEW m \in MemRecords, NEW r, NEW Q \in SUBSET Bufs, NEW x, SendList(m, Q), x \notin Q,
         Written(m.next, r.next, x), r.gPendingSendList = m.gPendingSendList,
         r.gPendingSendListEnd = m.gPendingSendListEnd
  PROVE  SendList(r, Q)
<1>1. Chain(r.next, r.gPendingSendList, Q)
  BY ChainApart DEF SendList
<1>2. ASSUME m.gPendingSendListEnd # Null PROVE r.next[m.gPendingSendListEnd] = Null
  BY <1>2 DEF SendList, Written
<1>3. QED
  BY <1>1, <1>2 DEF SendList

LEMMA FreeLists ==
  ASSUME NEW m \in MemRecords, NEW F, NEW Q, NEW A, NEW X, Apart(F, Q, A, X), Lists(m, F, Q, A, X),
         NEW b, Nowhere(b, F, Q, A, X)
  PROVE  Lists(FreeBufferObj(m, b), F \cup {b}, Q, A, X) /\ FreeBufferObj(m, b) \in MemRecords
<1> DEFINE r == FreeBufferObj(m, b)
<1>0. /\ m.next \in [Bufs -> 0..NBufs] /\ m.gFreeBufferList \in 0..NBufs /\ b \in Bufs /\ b \in 0..NBufs
      /\ F \in SUBSET Bufs /\ Q \in SUBSET Bufs
  BY DEF MemRecords, Bufs, Nowhere, Apart
<1>1. /\ r \in MemRecords
      /\ r.next = [m.next EXCEPT ![b] = m.gFreeBufferList] /\ r.gFreeBufferList = b
      /\ r.PendingAccepts = m.PendingAccepts /\ r.gPendingSendList = m.gPendingSendList
      /\ r.gPendingSendListEnd = m.gPendingSendListEnd
  BY <1>0 DEF FreeBufferObj, MemRecords
<1> HIDE DEF r
<1>2. Written(m.next, r.next, b) /\ r.next[b] = m.gFreeBufferList
  BY <1>0, <1>1 DEF Written
<1>3. Chain(r.next, r.gFreeBufferList, F \cup {b})
  BY <1>0, <1>1, <1>2, ChainPush DEF Lists, Nowhere
<1>4. SendList(r, Q)
  BY <1>0, <1>1, <1>2, SendsApart DEF Lists, Nowhere
<1>5. AcceptList(r, A, X)
  BY <1>1, <1>2, AcceptsApart DEF Lists, Nowhere
<1>6. QED
  BY <1>1, <1>3, <1>4, <1>5 DEF Lists, r

LEMMA PopLists ==
  ASSUME NEW m \in MemRecords, NEW F, NEW Q, NEW A, NEW X, Apart(F, Q, A, X), Lists(m, F, Q, A, X),
         m.gFreeBufferList # Null
  PROVE  /\ m.gFreeBufferList \in F
         /\ Lists(WithoutFirst(m), F \ {m.gFreeBufferList}, Q, A, X) /\ WithoutFirst(m) \in MemRecords
<1> DEFINE r == WithoutFirst(m)
           b == m.gFreeBufferList
<1>0. /\ m.next \in [Bufs -> 0..NBufs] /\ F \in SUBSET Bufs /\ Q \in SUBSET Bufs
      /\ Chain(m.next, b, F) /\ SendList(m, Q) /\ AcceptList(m, A, X) /\ Null \in 0..NBufs
  BY ThrottleAssumption DEF MemRecords, Apart, Lists, Null
<1>1. b \in F
  BY <1>0 DEF Chain
<1>2. /\ r \in MemRecords
      /\ r.next = [m.next EXCEPT ![b] = Null] /\ r.gFreeBufferList = m.next[b]
      /\ r.PendingAccepts = m.PendingAccepts /\ r.gPendingSendList = m.gPendingSendList
      /\ r.gPendingSendListEnd = m.gPendingSendListEnd
  <2>1. b \in Bufs /\ m.next[b] \in 0..NBufs
    BY <1>0, <1>1
  <2>2. QED
    BY <1>0, <2>1 DEF WithoutFirst, MemRecords
<1>3. b \notin Q /\ b \notin A \cup X /\ b # Null
  BY <1>1 DEF Apart
<1> HIDE DEF r, b
<1>4. Written(m.next, r.next, b)
  BY <1>0, <1>2 DEF Written
<1>5. Chain(r.next, r.gFreeBufferList, F \ {b})
  BY <1>0, <1>2, <1>3, <1>4, ChainPop
<1>6. SendList(r, Q)
  BY <1>0, <1>2, <1>3, <1>4, SendsApart
<1>7. AcceptList(r, A, X)
  BY <1>0, <1>2, <1>3, <1>4, AcceptsApart
<1>8. QED
  BY <1>1, <1>2, <1>5, <1>6, <1>7 DEF Lists, r, b

LEMMA DequeueLists ==
  ASSUME NEW m \in MemRecords, NEW F, NEW Q, NEW A, NEW X, Apart(F, Q, A, X), Lists(m, F, Q, A, X),
         m.gPendingSendList # Null
  PROVE  /\ m.gPendingSendList \in Q
         /\ Lists(DequeuePendingOperation(m), F, Q \ {m.gPendingSendList}, A, X)
         /\ DequeuePendingOperation(m) \in MemRecords
<1> DEFINE r == DequeuePendingOperation(m)
           b == m.gPendingSendList
           last == m.gPendingSendListEnd
<1>0. /\ m.next \in [Bufs -> 0..NBufs] /\ F \in SUBSET Bufs /\ Q \in SUBSET Bufs /\ Null \in 0..NBufs
      /\ Chain(m.next, m.gFreeBufferList, F) /\ SendList(m, Q) /\ AcceptList(m, A, X)
      /\ last \in 0..NBufs /\ b # Null
  BY ThrottleAssumption DEF MemRecords, Apart, Lists, Null
<1>1. b \in Q /\ Chain(m.next, b, Q)
  BY <1>0 DEF SendList, Chain
<1>2. /\ r \in MemRecords
      /\ r.next = [m.next EXCEPT ![b] = Null] /\ r.gPendingSendList = m.next[b]
      /\ r.PendingAccepts = m.PendingAccepts /\ r.gFreeBufferList = m.gFreeBufferList
      /\ r.gPendingSendListEnd = IF m.next[b] = Null THEN Null ELSE last
  <2>1. b \in Bufs /\ m.next[b] \in 0..NBufs
    BY <1>0, <1>1
  <2>2. QED
    BY <1>0, <2>1 DEF DequeuePendingOperation, MemRecords
<1>3. b \notin F /\ b \notin A \cup X
  BY <1>1 DEF Apart
<1> HIDE DEF r, b, last
<1>4. Written(m.next, r.next, b)
  BY <1>0, <1>2 DEF Written
<1>5. Chain(r.next, r.gPendingSendList, Q \ {b})
  BY <1>0, <1>1, <1>2, <1>4, ChainPop
<1>6. SendList(r, Q \ {b})
  <2>1. CASE m.next[b] = Null
    BY <1>2, <1>5, <2>1 DEF SendList
  <2>2. CASE m.next[b] # Null
    <3>1. last # Null => last \in Q /\ m.next[last] = Null /\ last # b
      BY <1>0, <2>2 DEF SendList, last
    <3>2. last # Null => r.next[last] = Null
      BY <1>0, <1>4, <3>1 DEF Written
    <3>3. QED
      BY <1>2, <1>5, <2>2, <3>1, <3>2 DEF SendList
  <2>3. QED
    BY <2>1, <2>2
<1>7. Chain(r.next, r.gFreeBufferList, F)
  BY <1>0, <1>2, <1>3, <1>4, ChainApart
<1>8. AcceptList(r, A, X)
  BY <1>0, <1>2, <1>3, <1>4, AcceptsApart
<1>9. QED
  BY <1>1, <1>2, <1>6, <1>7, <1>8 DEF Lists, r, b

LEMMA EnqueueLists ==
  ASSUME NEW m \in MemRecords, NEW F, NEW Q, NEW A, NEW X, Apart(F, Q, A, X), Lists(m, F, Q, A, X),
         NEW b, Nowhere(b, F, Q, A, X)
  PROVE  /\ Lists(EnqueuePendingOperation(m, b), F, Q \cup {b}, A, X)
         /\ EnqueuePendingOperation(m, b) \in MemRecords
<1> DEFINE r == EnqueuePendingOperation(m, b)
           last == m.gPendingSendListEnd
           first == [m.next EXCEPT ![b] = Null]
           m1 == [m EXCEPT !.next = first]
<1>0. /\ m.next \in [Bufs -> 0..NBufs] /\ F \in SUBSET Bufs /\ Q \in SUBSET Bufs
      /\ b \in Bufs /\ b \in 0..NBufs /\ Null \in 0..NBufs /\ b # Null /\ b \notin Q /\ b \notin F /\ b \notin A \cup X
      /\ SendList(m, Q) /\ Chain(m.next, m.gPendingSendList, Q)
      /\ Chain(m.next, m.gFreeBufferList, F) /\ AcceptList(m, A, X)
  BY ThrottleAssumption DEF MemRecords, Apart, Nowhere, Null, Bufs, Lists, SendList
<1>1. /\ m1 \in MemRecords /\ m1.next = first /\ m1.gPendingSendList = m.gPendingSendList
      /\ m1.gPendingSendListEnd = last /\ m1.PendingAccepts = m.PendingAccepts
      /\ m1.gFreeBufferList = m.gFreeBufferList
  BY <1>0 DEF MemRecords
<1>2. Written(m.next, first, b) /\ first[b] = Null /\ first \in [Bufs -> 0..NBufs]
  BY <1>0 DEF Written
<1>3. CASE last = Null
  <2>1. /\ r \in MemRecords
        /\ r.next = first /\ r.gPendingSendList = b /\ r.gPendingSendListEnd = b
        /\ r.PendingAccepts = m.PendingAccepts /\ r.gFreeBufferList = m.gFreeBufferList
    BY <1>0, <1>3 DEF EnqueuePendingOperation, MemRecords
  <2> HIDE DEF r, first, m1
  <2>2. Chain(r.next, b, Q \cup {b})
    BY <1>0, <1>2, <2>1, ChainStart
  <2>3. SendList(r, Q \cup {b})
    BY <1>2, <2>1, <2>2 DEF SendList
  <2>4. Chain(r.next, r.gFreeBufferList, F)
    BY <1>0, <1>2, <2>1, ChainApart
  <2>5. AcceptList(r, A, X)
    BY <1>0, <1>2, <2>1, AcceptsApart
  <2>6. QED
    BY <2>1, <2>3, <2>4, <2>5 DEF Lists, r
<1>4. CASE last # Null
  <2>0. /\ last \in Q /\ last \in Bufs /\ last # b /\ m.next[last] = Null
        /\ last \notin F /\ last \notin A \cup X
    BY <1>0, <1>4 DEF SendList, Apart
  <2>1. /\ r \in MemRecords
        /\ r.next = [first EXCEPT ![last] = b]
        /\ r.gPendingSendList = m.gPendingSendList /\ r.gPendingSendListEnd = b
        /\ r.PendingAccepts = m.PendingAccepts /\ r.gFreeBufferList = m.gFreeBufferList
    BY <1>0, <1>4, <2>0 DEF EnqueuePendingOperation, MemRecords
  <2>2. Written(first, r.next, last) /\ r.next[last] = b /\ r.next[b] = Null
    BY <1>2, <2>0, <2>1, <1>0 DEF Written
  <2>3. first[last] = Null
    BY <1>0, <2>0
  <2> HIDE DEF r, first, m1, last
  <2>4. Chain(first, m.gPendingSendList, Q)
    BY <1>0, <1>2, ChainApart
  <2>5. Chain(r.next, r.gPendingSendList, Q \cup {b})
    BY <1>0, <2>0, <2>1, <2>2, <2>3, <2>4, ChainAppend
  <2>6. SendList(r, Q \cup {b})
    BY <2>1, <2>2, <2>5 DEF SendList
  <2>7. Chain(first, m.gFreeBufferList, F)
    BY <1>0, <1>2, ChainApart
  <2>8. Chain(r.next, r.gFreeBufferList, F)
    BY <1>0, <2>0, <2>1, <2>2, <2>7, ChainApart
  <2>9. AcceptList(m1, A, X)
    BY <1>0, <1>1, <1>2, AcceptsApart
  <2>10. AcceptList(r, A, X)
    BY <1>1, <2>0, <2>1, <2>2, <2>9, AcceptsApart
  <2>11. QED
    BY <2>1, <2>6, <2>8, <2>10 DEF Lists, r
<1>5. QED
  BY <1>3, <1>4

LEMMA RemoveLists ==
  ASSUME NEW m \in MemRecords, NEW F, NEW Q, NEW A, NEW X, Apart(F, Q, A, X), Lists(m, F, Q, A, X),
         NEW b \in A
  PROVE  /\ Lists(RemovePendingAccept(m, b), F, Q, A \ {b}, X)
         /\ RemovePendingAccept(m, b) \in MemRecords
<1> DEFINE r == RemovePendingAccept(m, b)
<1>0. /\ F \in SUBSET Bufs /\ Q \in SUBSET Bufs /\ b \in Bufs
      /\ Chain(m.next, m.gFreeBufferList, F) /\ SendList(m, Q)
  BY DEF Apart, Lists
<1>1. PICK n, q : /\ n \in 0..NBufs /\ q \in [1..n -> Bufs]
                  /\ Path(m.next, m.PendingAccepts, n, q) /\ Holds(n, q, A, X)
  BY DEF Lists, AcceptList
<1>2. PICK i \in 1..n : q[i] = b
  BY <1>1 DEF Holds
<1>3. /\ \E p : Path(r.next, r.PendingAccepts, n - 1, p) /\ Without(n, q, p, b)
      /\ r \in MemRecords /\ OthersKept(m, r)
      /\ \E j \in 1..n : Written(m.next, r.next, q[j])
  BY <1>1, <1>2, PathRemove
<1> HIDE DEF r
<1>4. PICK p : Path(r.next, r.PendingAccepts, n - 1, p) /\ Without(n, q, p, b)
  BY <1>3
<1>5. AcceptList(r, A \ {b}, X)
  <2>1. n - 1 \in 0..NBufs /\ p \in [1..(n - 1) -> Bufs]
    <3>1. p \in [1..(n - 1) -> Bufs]
      BY <1>4 DEF Path
    <3>2. QED
      BY <1>4, <3>1, PathShort
  <2>2. \A a \in A \ {b} : \E j \in 1..(n - 1) : p[j] = a
    BY <1>1, <1>4 DEF Holds, Without, Visits
  <2>3. ASSUME NEW j \in 1..(n - 1) PROVE p[j] \in (A \ {b}) \cup X
    <3>1. p[j] # b /\ \E k \in 1..n : q[k] = p[j]
      BY <1>4 DEF Without, Visits
    <3>2. QED
      BY <1>1, <3>1 DEF Holds
  <2>4. QED
    BY <1>4, <2>1, <2>2, <2>3 DEF AcceptList, Holds
<1>6. PICK j \in 1..n : Written(m.next, r.next, q[j])
  BY <1>3
<1>7. q[j] \notin F /\ q[j] \notin Q
  BY <1>1 DEF Holds, Apart
<1>8. Chain(r.next, r.gFreeBufferList, F)
  BY <1>0, <1>3, <1>6, <1>7, ChainApart DEF OthersKept
<1>9. SendList(r, Q)
  BY <1>0, <1>3, <1>6, <1>7, SendsApart DEF OthersKept
<1>10. QED
  BY <1>3, <1>5, <1>8, <1>9 DEF Lists, r

LEMMA InsertLists ==
  ASSUME NEW m \in MemRecords, NEW F, NEW Q, NEW A, NEW X, Apart(F, Q, A, X), Lists(m, F, Q, A, X),
         NEW b, Nowhere(b, F, Q, A, X)
  PROVE  /\ Lists(InsertPendingAccept(m, b), F, Q, A \cup {b}, X)
         /\ Lists(InsertPendingAccept(m, b), F, Q, A, X \cup {b})
         /\ InsertPendingAccept(m, b) \in MemRecords
<1> DEFINE r == InsertPendingAccept(m, b)
<1>0. /\ F \in SUBSET Bufs /\ Q \in SUBSET Bufs /\ b \in Bufs
      /\ b \notin F /\ b \notin Q /\ b \notin A \cup X
      /\ Chain(m.next, m.gFreeBufferList, F) /\ SendList(m, Q)
  BY DEF Apart, Nowhere, Lists
<1>1. PICK n, q : /\ n \in 0..NBufs /\ q \in [1..n -> Bufs]
                  /\ Path(m.next, m.PendingAccepts, n, q) /\ Holds(n, q, A, X)
  BY DEF Lists, AcceptList
<1>2. Misses(n, q, b)
  BY <1>0, <1>1 DEF Holds, Misses
<1>3. /\ r \in MemRecords /\ OthersKept(m, r) /\ Written(m.next, r.next, b)
      /\ \E p : Path(r.next, r.PendingAccepts, n + 1, p) /\ WithOne(n, q, p, b)
  BY <1>0, <1>1, <1>2, PathInsert
<1> HIDE DEF r
<1>4. PICK p : Path(r.next, r.PendingAccepts, n + 1, p) /\ WithOne(n, q, p, b)
  BY <1>3
<1>5. n + 1 \in 0..NBufs /\ p \in [1..(n + 1) -> Bufs]
  <2>1. p \in [1..(n + 1) -> Bufs]
    BY <1>4 DEF Path
  <2>2. QED
    BY <1>4, <2>1, PathShort
<1>6. /\ \A j \in 1..(n + 1) : p[j] = b \/ p[j] \in A \cup X
      /\ \A a \in A \cup {b} : \E j \in 1..(n + 1) : p[j] = a
  <2>1. ASSUME NEW j \in 1..(n + 1) PROVE p[j] = b \/ p[j] \in A \cup X
    <3>1. p[j] = b \/ \E k \in 1..n : q[k] = p[j]
      BY <1>4 DEF WithOne, Visits
    <3>2. QED
      BY <1>1, <3>1 DEF Holds
  <2>2. ASSUME NEW a \in A \cup {b} PROVE \E j \in 1..(n + 1) : p[j] = a
    BY <1>1, <1>4 DEF Holds, WithOne, Visits
  <2>3. QED
    BY <2>1, <2>2
<1>7. Holds(n + 1, p, A \cup {b}, X) /\ Holds(n + 1, p, A, X \cup {b})
  BY <1>6 DEF Holds
<1>8. AcceptList(r, A \cup {b}, X) /\ AcceptList(r, A, X \cup {b})
  BY <1>4, <1>5, <1>7 DEF AcceptList
<1>9. Chain(r.next, r.gFreeBufferList, F)
  BY <1>0, <1>3, ChainApart DEF OthersKept
<1>10. SendList(r, Q)
  BY <1>0, <1>3, SendsApart DEF OthersKept
<1>11. QED
  BY <1>3, <1>8, <1>9, <1>10 DEF Lists, r

LEMMA LoseLists ==
  ASSUME NEW m, NEW F, NEW Q, NEW A, NEW X, Lists(m, F, Q, A, X), NEW b
  PROVE  Lists(m, F, Q, A, X \cup {b})
  BY DEF Lists, AcceptList, Holds
-----------------------------------------------------------------------------
(***************************************************************************)
(* Counting.  A step keeps the counters exact when every counter moves by  *)
(* as much as the operations in flight less those not yet counted.         *)
(***************************************************************************)
ReadsMove(c) ==
  sock'[c].OutstandingRecv - sock[c].OutstandingRecv
    = (Cardinality(InFlight("read", c)') - Cardinality(InFlight("read", c)))
        - (Cardinality(Uncounted("received", c)') - Cardinality(Uncounted("received", c)))

SendsMove(c) ==
  sock'[c].OutstandingSend - sock[c].OutstandingSend
    = (Cardinality(InFlight("write", c)') - Cardinality(InFlight("write", c)))
        - (Cardinality(Uncounted("sent", c)') - Cardinality(Uncounted("sent", c)))

SlotsMove ==
  (count'.gOutstandingSends - count.gOutstandingSends) - (count'.sendErrors - count.sendErrors)
    = (Cardinality(PostedSends') - Cardinality(PostedSends)) - (Cardinality(LateSends') - Cardinality(LateSends))

Moves ==
  /\ \A c \in Conns : sock'[c].obj # "freed" => sock[c].obj # "freed" /\ ReadsMove(c) /\ SendsMove(c)
  /\ SlotsMove

LEMMA FinitelyMany ==
  /\ IsFiniteSet(PostedSends) /\ Cardinality(PostedSends) \in Nat
  /\ IsFiniteSet(LateSends) /\ Cardinality(LateSends) \in Nat
  /\ \A op, c : IsFiniteSet(InFlight(op, c)) /\ Cardinality(InFlight(op, c)) \in Nat
  /\ \A pc, c : IsFiniteSet(Uncounted(pc, c)) /\ Cardinality(Uncounted(pc, c)) \in Nat
<1>1. IsFiniteSet(Bufs) /\ IsFiniteSet(Workers)
  <2>1. 1 \in Int /\ NBufs \in Int
    BY ThrottleAssumption
  <2>2. QED
    BY <2>1, FS_Interval, ThrottleAssumption DEF Bufs
<1>2. \A S : S \in SUBSET Bufs \/ S \in SUBSET Workers => IsFiniteSet(S) /\ Cardinality(S) \in Nat
  BY <1>1, FS_Subset, FS_CardinalityType
<1>3. PostedSends \in SUBSET Bufs /\ LateSends \in SUBSET Workers
  BY DEF PostedSends, LateSends
<1>4. \A op, c : InFlight(op, c) \in SUBSET Bufs
  BY DEF InFlight
<1>5. \A pc, c : Uncounted(pc, c) \in SUBSET Workers
  BY DEF Uncounted
<1>6. QED
  BY <1>2, <1>3, <1>4, <1>5

LEMMA OneMore ==
  ASSUME NEW S, IsFiniteSet(S), NEW x, x \notin S, NEW T, T = S \cup {x}
  PROVE  IsFiniteSet(T) /\ Cardinality(T) = Cardinality(S) + 1
  BY FS_AddElement

LEMMA OneLess ==
  ASSUME NEW S, IsFiniteSet(S), NEW x \in S, NEW T, T = S \ {x}
  PROVE  IsFiniteSet(T) /\ Cardinality(T) = Cardinality(S) - 1
  BY FS_RemoveElement

LEMMA ExactAfter ==
  ASSUME Types, Exact, Moves, sock' \in [Conns -> SockRecords], count' \in CountRecords
  PROVE  Exact'
<1>1. /\ Cardinality(PostedSends) \in Nat /\ Cardinality(LateSends) \in Nat
      /\ \A op, c : Cardinality(InFlight(op, c)) \in Nat
      /\ \A pc, c : Cardinality(Uncounted(pc, c)) \in Nat
  BY FinitelyMany
<1>2. /\ Cardinality(PostedSends') \in Nat /\ Cardinality(LateSends') \in Nat
      /\ \A op, c : Cardinality(InFlight(op, c)') \in Nat
      /\ \A pc, c : Cardinality(Uncounted(pc, c)') \in Nat
  <2>1. FinitelyMany'
    BY FinitelyMany, PTL
  <2>2. QED
    BY <2>1
<1>3. ASSUME NEW c \in Conns, sock'[c].obj # "freed" PROVE Reads(c)' /\ Sends(c)'
  <2>1. ReadsMove(c) /\ SendsMove(c) /\ Reads(c) /\ Sends(c)
    BY <1>3 DEF Moves, Exact
  <2>2. /\ sock[c].OutstandingRecv \in Int /\ sock[c].OutstandingSend \in Int
        /\ sock'[c].OutstandingRecv \in Int /\ sock'[c].OutstandingSend \in Int
    BY DEF Types, SockRecords
  <2>3. QED
    BY <1>1, <1>2, <2>1, <2>2 DEF ReadsMove, SendsMove, Reads, Sends
<1>4. Slots'
  <2>1. /\ count.gOutstandingSends \in Int /\ count.sendErrors \in Int
        /\ count'.gOutstandingSends \in Int /\ count'.sendErrors \in Int
    BY DEF Types, CountRecords
  <2>2. QED
    BY <1>1, <1>2, <2>1 DEF Moves, SlotsMove, Slots, Exact
<1>5. QED
  BY <1>3, <1>4 DEF Exact

(***************************************************************************)
(* Most steps change one buffer and one thread.                            *)
(***************************************************************************)
Flies(b, op, c) == IF buf[b].at = "posted" /\ buf[b].operation = op /\ buf[b].c = c THEN 1 ELSE 0
Sending(b) == IF buf[b].at = "posted" /\ buf[b].operation = "write" THEN 1 ELSE 0
Waits(w, pc, c) == IF worker[w].pc = pc /\ worker[w].lock = c THEN 1 ELSE 0
Late(w) == IF worker[w].pc = "sent" THEN 1 ELSE 0

OnlyBuffer(b) == (b \in Bufs \/ buf' = buf) /\ \A x \in Bufs : x # b => buf'[x] = buf[x]
OnlyWorker(w) == w \in Workers /\ \A v \in Workers : v # w => worker'[v] = worker[v]

LEMMA OneChanges ==
  ASSUME NEW S, NEW T, NEW x, IsFiniteSet(S), Cardinality(S) \in Nat,
         NEW before, NEW after, before = (IF x \in S THEN 1 ELSE 0), after = (IF x \in T THEN 1 ELSE 0),
         \A y : y # x => (y \in S <=> y \in T)
  PROVE  Cardinality(T) - Cardinality(S) = after - before
<1>1. CASE x \in S /\ x \in T
  <2>1. S = T
    BY <1>1
  <2>2. QED
    BY <1>1, <2>1
<1>2. CASE x \in S /\ x \notin T
  <2>1. T = S \ {x}
    BY <1>2
  <2>2. Cardinality(T) = Cardinality(S) - 1
    BY <1>2, <2>1, OneLess
  <2>3. QED
    BY <1>2, <2>2
<1>3. CASE x \notin S /\ x \in T
  <2>1. T = S \cup {x}
    BY <1>3
  <2>2. Cardinality(T) = Cardinality(S) + 1
    BY <1>3, <2>1, OneMore
  <2>3. QED
    BY <1>3, <2>2
<1>4. CASE x \notin S /\ x \notin T
  <2>1. S = T
    BY <1>4
  <2>2. QED
    BY <1>4, <2>1
<1>5. QED
  BY <1>1, <1>2, <1>3, <1>4

LEMMA OneBuffer ==
  ASSUME NEW b, OnlyBuffer(b)
  PROVE  /\ \A op, c : Cardinality(InFlight(op, c)') - Cardinality(InFlight(op, c)) = Flies(b, op, c)' - Flies(b, op, c)
         /\ Cardinality(PostedSends') - Cardinality(PostedSends) = Sending(b)' - Sending(b)
<1>0. /\ IsFiniteSet(PostedSends) /\ Cardinality(PostedSends) \in Nat
      /\ \A op, c : IsFiniteSet(InFlight(op, c)) /\ Cardinality(InFlight(op, c)) \in Nat
  BY FinitelyMany
<1>1. CASE b \in Bufs
  <2>1. ASSUME NEW op, NEW c
        PROVE  Cardinality(InFlight(op, c)') - Cardinality(InFlight(op, c)) = Flies(b, op, c)' - Flies(b, op, c)
    <3>1. /\ Flies(b, op, c) = (IF b \in InFlight(op, c) THEN 1 ELSE 0)
          /\ Flies(b, op, c)' = (IF b \in InFlight(op, c)' THEN 1 ELSE 0)
      BY <1>1 DEF Flies, InFlight
    <3>2. \A y : y # b => (y \in InFlight(op, c) <=> y \in InFlight(op, c)')
      BY DEF InFlight, OnlyBuffer
    <3>3. QED
      BY <1>0, <3>1, <3>2, OneChanges
  <2>2. Cardinality(PostedSends') - Cardinality(PostedSends) = Sending(b)' - Sending(b)
    <3>1. /\ Sending(b) = (IF b \in PostedSends THEN 1 ELSE 0)
          /\ Sending(b)' = (IF b \in PostedSends' THEN 1 ELSE 0)
      BY <1>1 DEF Sending, PostedSends
    <3>2. \A y : y # b => (y \in PostedSends <=> y \in PostedSends')
      BY DEF PostedSends, OnlyBuffer
    <3>3. QED
      BY <1>0, <3>1, <3>2, OneChanges
  <2>3. QED
    BY <2>1, <2>2
<1>2. CASE buf' = buf
  <2>1. \A op, c : InFlight(op, c)' = InFlight(op, c) /\ Flies(b, op, c)' = Flies(b, op, c)
    BY <1>2 DEF InFlight, Flies
  <2>2. PostedSends' = PostedSends /\ Sending(b)' = Sending(b)
    BY <1>2 DEF PostedSends, Sending
  <2>3. \A op, c : Flies(b, op, c) \in {0, 1}
    BY DEF Flies
  <2>4. Sending(b) \in {0, 1}
    BY DEF Sending
  <2>5. QED
    BY <1>0, <2>1, <2>2, <2>3, <2>4
<1>3. QED
  BY <1>1, <1>2 DEF OnlyBuffer

LEMMA OneWorker ==
  ASSUME NEW w, OnlyWorker(w)
  PROVE  /\ \A pc, c : Cardinality(Uncounted(pc, c)') - Cardinality(Uncounted(pc, c)) = Waits(w, pc, c)' - Waits(w, pc, c)
         /\ Cardinality(LateSends') - Cardinality(LateSends) = Late(w)' - Late(w)
<1>0. /\ IsFiniteSet(LateSends) /\ Cardinality(LateSends) \in Nat
      /\ \A pc, c : IsFiniteSet(Uncounted(pc, c)) /\ Cardinality(Uncounted(pc, c)) \in Nat
  BY FinitelyMany
<1>1. ASSUME NEW pc, NEW c
      PROVE  Cardinality(Uncounted(pc, c)') - Cardinality(Uncounted(pc, c)) = Waits(w, pc, c)' - Waits(w, pc, c)
  <2>1. /\ Waits(w, pc, c) = (IF w \in Uncounted(pc, c) THEN 1 ELSE 0)
        /\ Waits(w, pc, c)' = (IF w \in Uncounted(pc, c)' THEN 1 ELSE 0)
    BY DEF Waits, Uncounted, OnlyWorker
  <2>2. \A y : y # w => (y \in Uncounted(pc, c) <=> y \in Uncounted(pc, c)')
    BY DEF Uncounted, OnlyWorker
  <2>3. QED
    BY <1>0, <2>1, <2>2, OneChanges
<1>2. Cardinality(LateSends') - Cardinality(LateSends) = Late(w)' - Late(w)
  <2>1. /\ Late(w) = (IF w \in LateSends THEN 1 ELSE 0)
        /\ Late(w)' = (IF w \in LateSends' THEN 1 ELSE 0)
    BY DEF Late, LateSends, OnlyWorker
  <2>2. \A y : y # w => (y \in LateSends <=> y \in LateSends')
    BY DEF LateSends, OnlyWorker
  <2>3. QED
    BY <1>0, <2>1, <2>2, OneChanges
<1>3. QED
  BY <1>1, <1>2

LEMMA ExactStep ==
  ASSUME Types, Exact, sock' \in [Conns -> SockRecords], count' \in CountRecords,
         NEW b, OnlyBuffer(b), NEW w, OnlyWorker(w),
         \A c \in Conns : sock'[c].obj # "freed" =>
           /\ sock[c].obj # "freed"
           /\ sock'[c].OutstandingRecv - sock[c].OutstandingRecv
                = (Flies(b, "read", c)' - Flies(b, "read", c)) - (Waits(w, "received", c)' - Waits(w, "received", c))
           /\ sock'[c].OutstandingSend - sock[c].OutstandingSend
                = (Flies(b, "write", c)' - Flies(b, "write", c)) - (Waits(w, "sent", c)' - Waits(w, "sent", c)),
         (count'.gOutstandingSends - count.gOutstandingSends) - (count'.sendErrors - count.sendErrors)
           = (Sending(b)' - Sending(b)) - (Late(w)' - Late(w))
  PROVE  Exact'
<1>1. ASSUME NEW c \in Conns, sock'[c].obj # "freed"
      PROVE  sock[c].obj # "freed" /\ ReadsMove(c) /\ SendsMove(c)
  BY <1>1, OneBuffer, OneWorker DEF ReadsMove, SendsMove
<1>2. SlotsMove
  BY OneBuffer, OneWorker DEF SlotsMove
<1>3. QED
  BY <1>1, <1>2, ExactAfter DEF Moves
-----------------------------------------------------------------------------
(***************************************************************************)
(* One buffer changes, and with it the lists.                              *)
(***************************************************************************)
BufferChanges(bs, cs, b) ==
  /\ bs \in [Bufs -> BufRecords] /\ cs \in [Bufs -> BufRecords] /\ b \in Bufs
  /\ \A x \in Bufs : x # b => cs[x] = bs[x]

Sets(bs, F, Q, A, X) ==
  F = With(bs, "free") /\ Q = With(bs, "queued") /\ A = Accepts(bs) /\ X = With(bs, "lost")

LEMMA SetsApart ==
  ASSUME NEW bs, NEW F, NEW Q, NEW A, NEW X, Sets(bs, F, Q, A, X)
  PROVE  Apart(F, Q, A, X)
  BY DEF Sets, Apart, With, Accepts

LEMMA SetsBesides ==
  ASSUME NEW bs, NEW cs, NEW b, BufferChanges(bs, cs, b), NEW F, NEW Q, NEW A, NEW X, Sets(bs, F, Q, A, X)
  PROVE  /\ F \ {b} = With(cs, "free") \ {b} /\ Q \ {b} = With(cs, "queued") \ {b}
         /\ A \ {b} = Accepts(cs) \ {b} /\ X \ {b} = With(cs, "lost") \ {b}
<1>1. F \ {b} = With(cs, "free") \ {b}
  BY DEF BufferChanges, Sets, With
<1>2. Q \ {b} = With(cs, "queued") \ {b}
  BY DEF BufferChanges, Sets, With
<1>3. A \ {b} = Accepts(cs) \ {b}
  BY DEF BufferChanges, Sets, Accepts
<1>4. X \ {b} = With(cs, "lost") \ {b}
  BY DEF BufferChanges, Sets, With
<1>5. QED
  BY <1>1, <1>2, <1>3, <1>4

\* A buffer that was on no list.
InUseOnly(bs, b) == bs[b].at \in {"posted", "held", "heap"} /\ b \notin Accepts(bs)

LEMMA SetsOfUsed ==
  ASSUME NEW bs, NEW cs, NEW b, BufferChanges(bs, cs, b), InUseOnly(bs, b),
         NEW F, NEW Q, NEW A, NEW X, Sets(bs, F, Q, A, X)
  PROVE  /\ Nowhere(b, F, Q, A, X)
         /\ cs[b].at = "free" => Sets(cs, F \cup {b}, Q, A, X)
         /\ cs[b].at = "queued" => Sets(cs, F, Q \cup {b}, A, X)
         /\ cs[b].at = "posted" /\ cs[b].operation = "accept" => Sets(cs, F, Q, A \cup {b}, X)
         /\ cs[b].at = "lost" => Sets(cs, F, Q, A, X \cup {b})
         /\ InUseOnly(cs, b) => Sets(cs, F, Q, A, X)
<1>1. Nowhere(b, F, Q, A, X)
  BY DEF BufferChanges, InUseOnly, Sets, With, Nowhere
<1>2. /\ F \ {b} = F /\ Q \ {b} = Q /\ A \ {b} = A /\ X \ {b} = X
  BY <1>1 DEF Nowhere
<1>3. /\ F = With(cs, "free") \ {b} /\ Q = With(cs, "queued") \ {b}
      /\ A = Accepts(cs) \ {b} /\ X = With(cs, "lost") \ {b}
  BY <1>2, SetsBesides
<1>4. b \in Bufs
  BY DEF BufferChanges
<1>5. ASSUME cs[b].at = "free" PROVE Sets(cs, F \cup {b}, Q, A, X)
  BY <1>3, <1>4, <1>5 DEF Sets, With, Accepts
<1>6. ASSUME cs[b].at = "queued" PROVE Sets(cs, F, Q \cup {b}, A, X)
  BY <1>3, <1>4, <1>6 DEF Sets, With, Accepts
<1>7. ASSUME cs[b].at = "posted", cs[b].operation = "accept" PROVE Sets(cs, F, Q, A \cup {b}, X)
  BY <1>3, <1>4, <1>7 DEF Sets, With, Accepts
<1>8. ASSUME cs[b].at = "lost" PROVE Sets(cs, F, Q, A, X \cup {b})
  BY <1>3, <1>4, <1>8 DEF Sets, With, Accepts
<1>9. ASSUME InUseOnly(cs, b) PROVE Sets(cs, F, Q, A, X)
  BY <1>3, <1>4, <1>9 DEF Sets, With, Accepts, InUseOnly
<1>10. QED
  BY <1>1, <1>5, <1>6, <1>7, <1>8, <1>9

LEMMA UsedFreed ==
  ASSUME NEW m \in MemRecords, NEW bs, NEW cs, NEW b, BufferChanges(bs, cs, b), InUseOnly(bs, b),
         Listed(m, bs), cs[b].at = "free"
  PROVE  Listed(FreeBufferObj(m, b), cs) /\ FreeBufferObj(m, b) \in MemRecords
<1>1. PICK F, Q, A, X : Sets(bs, F, Q, A, X)
  BY DEF Sets
<1>2. Lists(m, F, Q, A, X) /\ Apart(F, Q, A, X)
  BY <1>1, SetsApart DEF Listed, Sets
<1>3. Nowhere(b, F, Q, A, X) /\ Sets(cs, F \cup {b}, Q, A, X)
  BY <1>1, SetsOfUsed
<1>4. QED
  BY <1>2, <1>3, FreeLists DEF Listed, Sets

LEMMA UsedQueued ==
  ASSUME NEW m \in MemRecords, NEW bs, NEW cs, NEW b, BufferChanges(bs, cs, b), InUseOnly(bs, b),
         Listed(m, bs), cs[b].at = "queued"
  PROVE  Listed(EnqueuePendingOperation(m, b), cs) /\ EnqueuePendingOperation(m, b) \in MemRecords
<1>1. PICK F, Q, A, X : Sets(bs, F, Q, A, X)
  BY DEF Sets
<1>2. Lists(m, F, Q, A, X) /\ Apart(F, Q, A, X)
  BY <1>1, SetsApart DEF Listed, Sets
<1>3. Nowhere(b, F, Q, A, X) /\ Sets(cs, F, Q \cup {b}, A, X)
  BY <1>1, SetsOfUsed
<1>4. QED
  BY <1>2, <1>3, EnqueueLists DEF Listed, Sets

\* It is lost, or stays in use.
LEMMA UsedKept ==
  ASSUME NEW m, NEW bs, NEW cs, NEW b, BufferChanges(bs, cs, b), InUseOnly(bs, b),
         Listed(m, bs), cs[b].at = "lost" \/ InUseOnly(cs, b)
  PROVE  Listed(m, cs)
<1>1. PICK F, Q, A, X : Sets(bs, F, Q, A, X)
  BY DEF Sets
<1>2. Lists(m, F, Q, A, X)
  BY <1>1 DEF Listed, Sets
<1>3. CASE cs[b].at = "lost"
  <2>1. Sets(cs, F, Q, A, X \cup {b})
    BY <1>1, <1>3, SetsOfUsed
  <2>2. Lists(m, F, Q, A, X \cup {b})
    BY <1>2, LoseLists
  <2>3. QED
    BY <2>1, <2>2 DEF Listed, Sets
<1>4. CASE InUseOnly(cs, b)
  <2>1. Sets(cs, F, Q, A, X)
    BY <1>1, <1>4, SetsOfUsed
  <2>2. QED
    BY <1>2, <2>1 DEF Listed, Sets
<1>5. QED
  BY <1>3, <1>4

\* The buffer an accept is posted with, or fails with.
LEMMA UsedInserted ==
  ASSUME NEW m \in MemRecords, NEW bs, NEW cs, NEW b, BufferChanges(bs, cs, b), InUseOnly(bs, b),
         Listed(m, bs), cs[b].at = "lost" \/ (cs[b].at = "posted" /\ cs[b].operation = "accept")
  PROVE  Listed(InsertPendingAccept(m, b), cs) /\ InsertPendingAccept(m, b) \in MemRecords
<1>1. PICK F, Q, A, X : Sets(bs, F, Q, A, X)
  BY DEF Sets
<1>2. Lists(m, F, Q, A, X) /\ Apart(F, Q, A, X) /\ Nowhere(b, F, Q, A, X)
  BY <1>1, SetsApart, SetsOfUsed DEF Listed, Sets
<1>3. /\ Lists(InsertPendingAccept(m, b), F, Q, A \cup {b}, X)
      /\ Lists(InsertPendingAccept(m, b), F, Q, A, X \cup {b})
      /\ InsertPendingAccept(m, b) \in MemRecords
  BY <1>2, InsertLists
<1>4. Sets(cs, F, Q, A \cup {b}, X) \/ Sets(cs, F, Q, A, X \cup {b})
  BY <1>1, SetsOfUsed
<1>5. QED
  BY <1>3, <1>4 DEF Listed, Sets

LEMMA HeadsListed ==
  ASSUME NEW m, NEW bs, Listed(m, bs)
  PROVE  /\ m.gFreeBufferList # Null => m.gFreeBufferList \in Bufs /\ bs[m.gFreeBufferList].at = "free"
         /\ m.gPendingSendList # Null => m.gPendingSendList \in Bufs /\ bs[m.gPendingSendList].at = "queued"
  BY DEF Listed, Lists, SendList, Chain, With

LEMMA AcceptsEnd ==
  ASSUME NEW m, NEW bs, Listed(m, bs)
  PROVE  ~Endless(m, m.PendingAccepts)
<1>1. PICK n, q : n \in 0..NBufs /\ q \in [1..n -> Bufs] /\ Path(m.next, m.PendingAccepts, n, q)
  BY DEF Listed, Lists, AcceptList
<1>2. \A k \in 0..NBufs : Entries(m, m.PendingAccepts)[k] = IF k < n THEN q[k + 1] ELSE Null
  BY <1>1, EntriesOfPath
<1>3. NBufs \in 0..NBufs /\ ~(NBufs < n)
  BY <1>1, ThrottleAssumption
<1>4. QED
  BY <1>2, <1>3 DEF Endless

\* The buffer is taken off its list, and its new state is next.
LEMMA AcceptRemoved ==
  ASSUME NEW m \in MemRecords, NEW bs, NEW cs, NEW b, BufferChanges(bs, cs, b), b \in Accepts(bs),
         Listed(m, bs), InUseOnly(cs, b)
  PROVE  Listed(RemovePendingAccept(m, b), cs) /\ RemovePendingAccept(m, b) \in MemRecords
<1>1. PICK F, Q, A, X : Sets(bs, F, Q, A, X)
  BY DEF Sets
<1>2. Lists(m, F, Q, A, X) /\ Apart(F, Q, A, X) /\ b \in A
  BY <1>1, SetsApart DEF Listed, Sets
<1>3. Lists(RemovePendingAccept(m, b), F, Q, A \ {b}, X) /\ RemovePendingAccept(m, b) \in MemRecords
  BY <1>2, RemoveLists
<1>4. b \notin F /\ b \notin Q /\ b \notin X
  BY <1>2 DEF Apart
<1>5. /\ F \ {b} = With(cs, "free") \ {b} /\ Q \ {b} = With(cs, "queued") \ {b}
      /\ A \ {b} = Accepts(cs) \ {b} /\ X \ {b} = With(cs, "lost") \ {b}
  BY <1>1, SetsBesides
<1>6. Sets(cs, F, Q, A \ {b}, X)
  BY <1>4, <1>5 DEF Sets, With, InUseOnly
<1>7. QED
  BY <1>3, <1>6 DEF Listed, Sets

LEMMA SendDequeued ==
  ASSUME NEW m \in MemRecords, NEW bs, NEW cs, NEW b, BufferChanges(bs, cs, b),
         b = m.gPendingSendList, b # Null, Listed(m, bs), InUseOnly(cs, b)
  PROVE  Listed(DequeuePendingOperation(m), cs) /\ DequeuePendingOperation(m) \in MemRecords
<1>1. PICK F, Q, A, X : Sets(bs, F, Q, A, X)
  BY DEF Sets
<1>2. Lists(m, F, Q, A, X) /\ Apart(F, Q, A, X)
  BY <1>1, SetsApart DEF Listed, Sets
<1>3. b \in Q /\ Lists(DequeuePendingOperation(m), F, Q \ {b}, A, X) /\ DequeuePendingOperation(m) \in MemRecords
  BY <1>2, DequeueLists
<1>4. b \notin F /\ b \notin A /\ b \notin X
  BY <1>2, <1>3 DEF Apart
<1>5. /\ F \ {b} = With(cs, "free") \ {b} /\ Q \ {b} = With(cs, "queued") \ {b}
      /\ A \ {b} = Accepts(cs) \ {b} /\ X \ {b} = With(cs, "lost") \ {b}
  BY <1>1, SetsBesides
<1>6. Sets(cs, F, Q \ {b}, A, X)
  BY <1>4, <1>5 DEF Sets, With, Accepts, InUseOnly
<1>7. QED
  BY <1>3, <1>6 DEF Listed, Sets

LEMMA FreePopped ==
  ASSUME NEW m \in MemRecords, NEW bs, NEW cs, NEW b, BufferChanges(bs, cs, b),
         b = m.gFreeBufferList, b # Null, Listed(m, bs), InUseOnly(cs, b)
  PROVE  Listed(WithoutFirst(m), cs) /\ WithoutFirst(m) \in MemRecords
<1>1. PICK F, Q, A, X : Sets(bs, F, Q, A, X)
  BY DEF Sets
<1>2. Lists(m, F, Q, A, X) /\ Apart(F, Q, A, X)
  BY <1>1, SetsApart DEF Listed, Sets
<1>3. b \in F /\ Lists(WithoutFirst(m), F \ {b}, Q, A, X) /\ WithoutFirst(m) \in MemRecords
  BY <1>2, PopLists
<1>4. b \notin Q /\ b \notin A /\ b \notin X
  BY <1>2, <1>3 DEF Apart
<1>5. /\ F \ {b} = With(cs, "free") \ {b} /\ Q \ {b} = With(cs, "queued") \ {b}
      /\ A \ {b} = Accepts(cs) \ {b} /\ X \ {b} = With(cs, "lost") \ {b}
  BY <1>1, SetsBesides
<1>6. Sets(cs, F \ {b}, Q, A, X)
  BY <1>4, <1>5 DEF Sets, With, Accepts, InUseOnly
<1>7. QED
  BY <1>3, <1>6 DEF Listed, Sets
-----------------------------------------------------------------------------
(***************************************************************************)
(* Steady after a step of the thread w that takes the buffer b.            *)
(***************************************************************************)
HasObjectNext(c) == c \in Conns /\ sock'[c].obj # "none"

Objects(b) ==
  /\ \A c \in Conns : sock[c].obj # "none" => sock'[c].obj # "none"
  /\ \A c \in Conns : sock[c].obj = "none" /\ sock'[c].obj # "none" => b \in Accepts(buf) /\ buf[b].c = c
  /\ \A c \in Conns : peer'[c].at = peer[c].at

BufferFits(b) ==
  /\ buf'[b].operation # "accept"
  /\ buf'[b].at \in {"queued", "posted"} => buf'[b].operation \in {"read", "write"} /\ HasObjectNext(buf'[b].c)
  /\ buf'[b].at = "queued" => buf'[b].operation = "write"

WorkerFits(w, b) ==
  /\ worker'[w].c # NoConn => HasObjectNext(worker'[w].c)
  /\ buf[b].at = "held" => worker[w].pc = "receive" /\ worker[w].b = b
  /\ worker'[w].pc = "receive" => /\ worker'[w].b = b /\ buf'[b].at = "held"
                                  /\ worker'[w].c \in Conns /\ buf'[b].c = worker'[w].c

LEMMA SteadyAfter ==
  ASSUME Steady, Types', main'.pc \notin {"wild", "hung"}, Listed(mem, buf)',
         NEW b \in Bufs, NEW w \in Workers, OnlyBuffer(b), OnlyWorker(w),
         Objects(b), BufferFits(b), WorkerFits(w, b)
  PROVE  Steady'
<1>1. Taken(buf, peer)'
  <2>0. Taken(buf, peer)
    BY DEF Steady
  <2>1. ASSUME NEW a \in Accepts(buf')
        PROVE  a \in Accepts(buf) /\ a # b /\ buf'[a] = buf[a]
    BY DEF Accepts, BufferFits, OnlyBuffer
  <2>2. ASSUME NEW a \in Accepts(buf'), buf'[a].c # NoConn, buf'[a].c \in Conns
        PROVE  sock'[buf'[a].c].obj = "none" /\ peer'[buf'[a].c].at \in {"connected", "closed"}
    <3>1. /\ a \in Accepts(buf) /\ a # b /\ buf'[a] = buf[a]
      BY <2>1
    <3>2. sock[buf[a].c].obj = "none" /\ peer[buf[a].c].at \in {"connected", "closed"}
      BY <2>0, <2>2, <3>1 DEF Taken
    <3>3. ~(b \in Accepts(buf) /\ buf[b].c = buf[a].c)
      BY <2>0, <2>2, <3>1 DEF Taken
    <3>4. QED
      BY <2>2, <3>1, <3>2, <3>3 DEF Objects
  <2>3. ASSUME NEW a \in Accepts(buf') PROVE buf'[a].c = NoConn \/ buf'[a].c \in Conns
    BY DEF Steady, Types, BufRecords, Conns, NoConn, Accepts
  <2>4. ASSUME NEW c \in Conns, peer'[c].at \in {"away", "backlog"} PROVE sock'[c].obj = "none"
    <3>1. peer[c].at \in {"away", "backlog"} /\ sock[c].obj = "none"
      BY <2>0, <2>4 DEF Objects, Taken
    <3>2. ~(b \in Accepts(buf) /\ buf[b].c = c)
      BY <2>0, <3>1 DEF Taken, Conns, NoConn
    <3>3. QED
      BY <3>1, <3>2 DEF Objects
  <2>5. \A a \in Accepts(buf') : buf'[a].res # "none" => buf'[a].c # NoConn
    BY <2>0, <2>1 DEF Taken
  <2>6. \A a, d \in Accepts(buf') : buf'[a].c = buf'[d].c => a = d \/ buf'[a].c = NoConn
    BY <2>0, <2>1 DEF Taken
  <2>7. QED
    BY <2>2, <2>3, <2>4, <2>5, <2>6 DEF Taken
<1>2. \A c : HasObject(c) => HasObjectNext(c)
  BY DEF HasObject, HasObjectNext, Objects
<1>3. InUse(buf)'
  <2>1. ASSUME NEW x \in Bufs
        PROVE  /\ buf'[x].operation = "accept" => buf'[x].at = "posted"
               /\ buf'[x].at = "queued" => buf'[x].operation = "write" /\ HasObjectNext(buf'[x].c)
               /\ buf'[x].at = "posted" => buf'[x].operation = "accept"
                                           \/ (buf'[x].operation \in {"read", "write"} /\ HasObjectNext(buf'[x].c))
    <3>1. CASE x = b
      BY <3>1 DEF BufferFits
    <3>2. CASE x # b
      <4>1. buf'[x] = buf[x]
        BY <3>2 DEF OnlyBuffer
      <4>2. QED
        BY <1>2, <4>1 DEF Steady, InUse
    <3>3. QED
      BY <3>1, <3>2
  <2>2. QED
    BY <2>1 DEF InUse, HasObject, HasObjectNext
<1>4. Working'
  <2>1. ASSUME NEW v \in Workers, worker'[v].c # NoConn PROVE HasObjectNext(worker'[v].c)
    BY <1>2, <2>1 DEF Steady, Working, WorkerFits, OnlyWorker
  <2>2. QED
    BY <2>1 DEF Working, HasObject, HasObjectNext
<1>5. Holding'
  <2>1. ASSUME NEW v \in Workers, v # w, worker'[v].pc = "receive"
        PROVE  /\ worker'[v] = worker[v] /\ worker[v].pc = "receive" /\ worker[v].b # b
               /\ worker[v].b \in Bufs /\ buf'[worker[v].b] = buf[worker[v].b]
               /\ buf[worker[v].b].at = "held"
               /\ worker[v].c \in Conns /\ buf[worker[v].b].c = worker[v].c
    <3>1. worker'[v] = worker[v] /\ worker[v].pc = "receive"
      BY <2>1 DEF OnlyWorker
    <3>2. /\ worker[v].b \in Bufs /\ buf[worker[v].b].at = "held"
          /\ worker[v].c \in Conns /\ buf[worker[v].b].c = worker[v].c
          /\ \A u \in Workers : worker[u].pc = "receive" /\ worker[u].b = worker[v].b => u = v
      BY <3>1 DEF Steady, Holding
    <3>3. worker[v].b # b
      BY <2>1, <3>2 DEF WorkerFits
    <3>4. QED
      BY <3>1, <3>2, <3>3 DEF OnlyBuffer
  <2>2. ASSUME NEW v \in Workers, worker'[v].pc = "receive"
        PROVE  /\ worker'[v].b \in Bufs /\ buf'[worker'[v].b].at = "held"
               /\ worker'[v].c \in Conns /\ buf'[worker'[v].b].c = worker'[v].c
    <3>1. CASE v = w
      BY <2>2, <3>1 DEF WorkerFits
    <3>2. CASE v # w
      BY <2>1, <2>2, <3>2
    <3>3. QED
      BY <3>1, <3>2
  <2>3. ASSUME NEW v \in Workers, worker'[v].pc = "receive",
               NEW u \in Workers, worker'[u].pc = "receive", worker'[u].b = worker'[v].b
        PROVE  u = v
    <3>1. CASE u # w /\ v # w
      <4>1. worker[u].pc = "receive" /\ worker[v].pc = "receive" /\ worker[u].b = worker[v].b
        BY <2>1, <2>3, <3>1
      <4>2. QED
        BY <4>1 DEF Steady, Holding
    <3>2. CASE u = w /\ v # w
      BY <2>1, <2>3, <3>2 DEF WorkerFits
    <3>3. CASE u # w /\ v = w
      BY <2>1, <2>3, <3>3 DEF WorkerFits
    <3>4. QED
      BY <3>1, <3>2, <3>3
  <2>4. QED
    BY <2>2, <2>3 DEF Holding
<1>6. QED
  BY <1>1, <1>3, <1>4, <1>5 DEF Steady

(***************************************************************************)
(* And after one that takes none.                                          *)
(***************************************************************************)
WorkerMoves(w) ==
  /\ buf' = buf /\ mem' = mem /\ peer' = peer /\ main' = main
  /\ worker'[w].c \in {NoConn, worker[w].c} /\ worker'[w].pc # "receive"
  /\ \A c \in Conns : sock'[c].obj = sock[c].obj \/ (sock[c].obj # "none" /\ sock'[c].obj # "none")

LEMMA SteadyWorker ==
  ASSUME Steady, Types', NEW w \in Workers, OnlyWorker(w), WorkerMoves(w)
  PROVE  Steady'
<1>1. /\ buf' = buf /\ mem' = mem /\ peer' = peer /\ main' = main
      /\ \A c \in Conns : sock'[c].obj = "none" <=> sock[c].obj = "none"
  BY DEF WorkerMoves
<1>2. Listed(mem, buf)'
  BY <1>1 DEF Steady, Listed, Lists, With, Accepts
<1>3. Taken(buf, peer)'
  <2>1. \A a \in Bufs : buf[a].c = NoConn \/ buf[a].c \in Conns
    BY DEF Steady, Types, BufRecords, Conns, NoConn
  <2>2. QED
    BY <1>1, <2>1 DEF Steady, Taken, Accepts
<1>4. \A c : HasObject(c) => HasObject(c)'
  BY <1>1 DEF HasObject
<1>5. InUse(buf)'
  BY <1>1, <1>4 DEF Steady, InUse
<1>6. Working'
  BY <1>4 DEF Steady, Working, WorkerMoves, OnlyWorker
<1>7. Holding'
  <2>1. \A v \in Workers : worker'[v].pc = "receive" => worker'[v] = worker[v]
    BY DEF WorkerMoves, OnlyWorker
  <2>2. QED
    BY <1>1, <2>1 DEF Steady, Holding
<1>8. QED
  BY <1>1, <1>2, <1>3, <1>5, <1>6, <1>7 DEF Steady
-----------------------------------------------------------------------------
(***************************************************************************)
(* The actions, each of one thread and at most one buffer.                 *)
(***************************************************************************)
LEMMA Operation ==
  ASSUME Steady, NEW b \in Bufs, buf[b].at = "posted", buf[b].operation # "accept"
  PROVE  /\ buf[b].c \in Conns /\ sock[buf[b].c].obj # "none" /\ buf[b].c # NoConn
         /\ buf[b].operation \in {"read", "write"} /\ InUseOnly(buf, b)
  BY DEF Steady, InUse, HasObject, InUseOnly, Accepts, Conns, NoConn

LEMMA Bounds ==
  /\ Null \in 0..NBufs /\ Bufs \subseteq 0..NBufs /\ Null \notin Bufs
  /\ NoConn \in 0..NConns /\ Conns \subseteq 0..NConns /\ NoConn \notin Conns
  BY ThrottleAssumption DEF Null, Bufs, NoConn, Conns

LEMMA InputIs ==
  ASSUME NEW c
  PROVE  Input(c) \in {0, 1}
  BY DEF Input

LEMMA ReadTypes ==
  ASSUME Types, NEW c
  PROVE  Read(c) \in [Conns -> PeerRecords] /\ \A d \in Conns : Read(c)[d].at = peer[d].at
<1>1. peer \in [Conns -> PeerRecords] /\ Input(c) \in Int
  BY InputIs DEF Types
<1>2. ASSUME NEW d \in Conns PROVE Read(c)[d] \in PeerRecords /\ Read(c)[d].at = peer[d].at
  <2>1. CASE d = c
    BY <1>1, <2>1 DEF Read, PeerRecords
  <2>2. CASE d # c
    BY <1>1, <2>2 DEF Read
  <2>3. QED
    BY <2>1, <2>2
<1>3. DOMAIN Read(c) = Conns /\ Read(c) = [d \in Conns |-> Read(c)[d]]
  BY <1>1 DEF Read
<1>4. QED
  BY <1>2, <1>3

LEMMA HandleReadKeeps ==
  ASSUME Steady, Exact, NEW w \in Workers, NEW b \in Bufs, HandleRead(w, b)
  PROVE  Steady' /\ Exact'
<1> DEFINE c == buf[b].c
<1>0. /\ Types /\ mem \in MemRecords /\ Listed(mem, buf) /\ main.pc \notin {"wild", "hung"}
      /\ buf \in [Bufs -> BufRecords] /\ sock \in [Conns -> SockRecords] /\ worker \in [Workers -> WorkerRecords]
  BY DEF Steady, Types
<1>1. /\ buf[b].at = "posted" /\ buf[b].operation = "read" /\ worker[w].pc = "idle"
      /\ sock' = OneReceiveLess(c) /\ mem' = EnqueuePendingOperation(mem, b)
      /\ buf' = [buf EXCEPT ![b].at = "queued", ![b].operation = "write", ![b].data = 1]
      /\ peer' = Read(c) /\ At(w, "test", c) /\ main' = main /\ count' = count
  BY DEF HandleRead, Ready, Succeeds
<1>2. c \in Conns /\ sock[c].obj # "none" /\ c # NoConn /\ InUseOnly(buf, b)
  BY <1>1, Operation
<1>3. /\ buf' \in [Bufs -> BufRecords]
      /\ buf'[b].at = "queued" /\ buf'[b].operation = "write" /\ buf'[b].c = c
      /\ \A x \in Bufs : x # b => buf'[x] = buf[x]
  BY <1>0, <1>1 DEF BufRecords
<1>4. /\ sock' \in [Conns -> SockRecords]
      /\ \A d \in Conns : /\ sock'[d].obj = sock[d].obj /\ sock'[d].OutstandingSend = sock[d].OutstandingSend
                          /\ sock'[d].OutstandingRecv = sock[d].OutstandingRecv - (IF d = c THEN 1 ELSE 0)
  BY <1>0, <1>1, <1>2 DEF SockRecords, OneReceiveLess
<1>5. /\ worker' \in [Workers -> WorkerRecords]
      /\ worker'[w].pc = "test" /\ worker'[w].c = c
      /\ \A v \in Workers : v # w => worker'[v] = worker[v]
  BY <1>0, <1>1, <1>2, Bounds DEF WorkerRecords, At, Idle
<1>6. BufferChanges(buf, buf', b) /\ OnlyBuffer(b) /\ OnlyWorker(w)
  BY <1>0, <1>3, <1>5 DEF BufferChanges, OnlyBuffer, OnlyWorker
<1>7. Listed(mem', buf') /\ mem' \in MemRecords
  BY <1>0, <1>1, <1>2, <1>3, <1>6, UsedQueued
<1>8. Types'
  BY <1>0, <1>1, <1>3, <1>4, <1>5, <1>7, ReadTypes DEF Types
<1>9. Objects(b) /\ BufferFits(b) /\ WorkerFits(w, b)
  <2>1. \A d \in Conns : peer'[d].at = peer[d].at
    BY <1>0, <1>1, ReadTypes
  <2>2. QED
    BY <2>1, <1>1, <1>2, <1>3, <1>4, <1>5 DEF Objects, BufferFits, WorkerFits, HasObjectNext
<1>10. Steady'
  BY <1>0, <1>1, <1>6, <1>7, <1>8, <1>9, SteadyAfter
<1>11. Exact'
  <2>1. \A d \in Conns : /\ Flies(b, "read", d) = (IF d = c THEN 1 ELSE 0) /\ Flies(b, "read", d)' = 0
                         /\ Flies(b, "write", d) = 0 /\ Flies(b, "write", d)' = 0
                         /\ \A pc \in {"received", "sent"} : Waits(w, pc, d) = 0 /\ Waits(w, pc, d)' = 0
    BY <1>1, <1>3, <1>5 DEF Flies, Waits
  <2>2. Sending(b) = 0 /\ Sending(b)' = 0 /\ Late(w) = 0 /\ Late(w)' = 0
    BY <1>1, <1>3, <1>5 DEF Sending, Late
  <2>3. sock \in [Conns -> SockRecords] /\ count \in CountRecords /\ count' = count
    BY <1>0, <1>1 DEF Types
  <2>4. \A d \in Conns : /\ sock'[d].OutstandingRecv - sock[d].OutstandingRecv
                              = (Flies(b, "read", d)' - Flies(b, "read", d)) - (Waits(w, "received", d)' - Waits(w, "received", d))
                         /\ sock'[d].OutstandingSend - sock[d].OutstandingSend
                              = (Flies(b, "write", d)' - Flies(b, "write", d)) - (Waits(w, "sent", d)' - Waits(w, "sent", d))
    BY <1>4, <2>1, <2>3 DEF SockRecords
  <2>5. (count'.gOutstandingSends - count.gOutstandingSends) - (count'.sendErrors - count.sendErrors)
           = (Sending(b)' - Sending(b)) - (Late(w)' - Late(w))
    BY <2>2, <2>3 DEF CountRecords
  <2>6. QED
    BY <1>0, <1>4, <1>6, <2>3, <2>4, <2>5, ExactStep
<1>12. QED
  BY <1>10, <1>11

LEMMA SocketFreed ==
  ASSUME NEW s \in [Conns -> SockRecords], NEW c \in Conns
  PROVE  /\ FreeSocketObj(s, c) \in [Conns -> SockRecords]
         /\ \A d \in Conns : d # c => FreeSocketObj(s, c)[d] = s[d]
         /\ FreeSocketObj(s, c)[c].obj = "freed"
<1>1. PICK n \in Nat : n = s[c].frees + 1
  BY DEF SockRecords
<1>2. Zero \in SockRecords
  BY DEF Zero, SockRecords
<1>3. [Zero EXCEPT !.obj = "freed", !.frees = n] \in SockRecords /\ [Zero EXCEPT !.obj = "freed", !.frees = n].obj = "freed"
  BY <1>2 DEF SockRecords
<1>4. FreeSocketObj(s, c) = [s EXCEPT ![c] = [Zero EXCEPT !.obj = "freed", !.frees = n]]
  BY <1>1 DEF FreeSocketObj
<1>5. QED
  BY <1>3, <1>4

LEMMA HandleEndKeeps ==
  ASSUME Steady, Exact, NEW w \in Workers, NEW b \in Bufs, HandleEnd(w, b)
  PROVE  Steady' /\ Exact'
<1> DEFINE c == buf[b].c
<1>0. /\ Types /\ mem \in MemRecords /\ Listed(mem, buf) /\ main.pc \notin {"wild", "hung"}
      /\ buf \in [Bufs -> BufRecords] /\ sock \in [Conns -> SockRecords] /\ worker \in [Workers -> WorkerRecords]
  BY DEF Steady, Types
<1>1. /\ buf[b].at = "posted" /\ buf[b].operation = "read" /\ worker[w].pc = "idle"
      /\ sock' = [OneReceiveLess(c) EXCEPT ![c].bClosing = TRUE] /\ mem' = FreeBufferObj(mem, b)
      /\ buf' = [buf EXCEPT ![b] = Freed]
      /\ At(w, "end", c) /\ peer' = peer /\ main' = main /\ count' = count
  BY DEF HandleEnd, Ready, Succeeds
<1>2. c \in Conns /\ sock[c].obj # "none" /\ c # NoConn /\ InUseOnly(buf, b)
  BY <1>1, Operation
<1>3. /\ buf' \in [Bufs -> BufRecords] /\ buf'[b].at = "free" /\ buf'[b].operation = "none"
      /\ \A x \in Bufs : x # b => buf'[x] = buf[x]
  BY <1>0, <1>1, Bounds DEF BufRecords, Freed, Blank
<1>4. /\ sock' \in [Conns -> SockRecords]
      /\ \A d \in Conns : /\ sock'[d].obj = sock[d].obj /\ sock'[d].OutstandingSend = sock[d].OutstandingSend
                          /\ sock'[d].OutstandingRecv = sock[d].OutstandingRecv - (IF d = c THEN 1 ELSE 0)
  BY <1>0, <1>1, <1>2 DEF SockRecords, OneReceiveLess
<1>5. /\ worker' \in [Workers -> WorkerRecords]
      /\ worker'[w].pc = "end" /\ worker'[w].c = c
      /\ \A v \in Workers : v # w => worker'[v] = worker[v]
  BY <1>0, <1>1, <1>2, Bounds DEF WorkerRecords, At, Idle
<1>6. BufferChanges(buf, buf', b) /\ OnlyBuffer(b) /\ OnlyWorker(w)
  BY <1>0, <1>3, <1>5 DEF BufferChanges, OnlyBuffer, OnlyWorker
<1>7. Listed(mem', buf') /\ mem' \in MemRecords
  BY <1>0, <1>1, <1>2, <1>3, <1>6, UsedFreed
<1>8. Types'
  BY <1>0, <1>1, <1>3, <1>4, <1>5, <1>7 DEF Types
<1>9. Objects(b) /\ BufferFits(b) /\ WorkerFits(w, b)
  BY <1>1, <1>2, <1>3, <1>4, <1>5 DEF Objects, BufferFits, WorkerFits, HasObjectNext
<1>10. Steady'
  BY <1>0, <1>1, <1>6, <1>7, <1>8, <1>9, SteadyAfter
<1>11. Exact'
  <2>1. \A d \in Conns : /\ Flies(b, "read", d) = (IF d = c THEN 1 ELSE 0) /\ Flies(b, "read", d)' = 0
                         /\ Flies(b, "write", d) = 0 /\ Flies(b, "write", d)' = 0
                         /\ \A pc \in {"received", "sent"} : Waits(w, pc, d) = 0 /\ Waits(w, pc, d)' = 0
    BY <1>1, <1>3, <1>5 DEF Flies, Waits
  <2>2. Sending(b) = 0 /\ Sending(b)' = 0 /\ Late(w) = 0 /\ Late(w)' = 0
    BY <1>1, <1>3, <1>5 DEF Sending, Late
  <2>3. sock \in [Conns -> SockRecords] /\ count \in CountRecords /\ count' = count
    BY <1>0, <1>1 DEF Types
  <2>4. \A d \in Conns : /\ sock'[d].OutstandingRecv - sock[d].OutstandingRecv
                              = (Flies(b, "read", d)' - Flies(b, "read", d)) - (Waits(w, "received", d)' - Waits(w, "received", d))
                         /\ sock'[d].OutstandingSend - sock[d].OutstandingSend
                              = (Flies(b, "write", d)' - Flies(b, "write", d)) - (Waits(w, "sent", d)' - Waits(w, "sent", d))
    BY <1>4, <2>1, <2>3 DEF SockRecords
  <2>5. (count'.gOutstandingSends - count.gOutstandingSends) - (count'.sendErrors - count.sendErrors)
           = (Sending(b)' - Sending(b)) - (Late(w)' - Late(w))
    BY <2>2, <2>3 DEF CountRecords
  <2>6. QED
    BY <1>0, <1>4, <1>6, <2>3, <2>4, <2>5, ExactStep
<1>12. QED
  BY <1>10, <1>11

LEMMA HandleWriteKeeps ==
  ASSUME Steady, Exact, NEW w \in Workers, NEW b \in Bufs, HandleWrite(w, b)
  PROVE  Steady' /\ Exact'
<1> DEFINE c == buf[b].c
<1>0. /\ Types /\ mem \in MemRecords /\ Listed(mem, buf) /\ main.pc \notin {"wild", "hung"}
      /\ buf \in [Bufs -> BufRecords] /\ sock \in [Conns -> SockRecords] /\ worker \in [Workers -> WorkerRecords]
      /\ count \in CountRecords
  BY DEF Steady, Types
<1>1. /\ buf[b].at = "posted" /\ buf[b].operation = "write" /\ worker[w].pc = "idle"
      /\ sock' = OneSendLess(c) /\ count' = [count EXCEPT !.gOutstandingSends = @ - 1]
      /\ \/ buf' = [buf EXCEPT ![b] = [Blank EXCEPT !.at = "lost"]] /\ At(w, "test", c)
         \/ /\ buf' = [buf EXCEPT ![b].at = "held"]
            /\ worker' = [worker EXCEPT ![w] = [Idle EXCEPT !.pc = "receive", !.c = c, !.b = b]]
      /\ mem' = mem /\ peer' = peer /\ main' = main
  BY DEF HandleWrite, Ready, Succeeds
<1>2. c \in Conns /\ sock[c].obj # "none" /\ c # NoConn /\ InUseOnly(buf, b)
  BY <1>1, Operation
<1>3. /\ buf' \in [Bufs -> BufRecords] /\ worker' \in [Workers -> WorkerRecords]
      /\ \/ buf'[b].at = "lost" /\ buf'[b].operation = "none" /\ worker'[w].pc = "test"
         \/ /\ buf'[b].at = "held" /\ buf'[b].operation = "write" /\ buf'[b].c = c
            /\ worker'[w].pc = "receive" /\ worker'[w].b = b
      /\ worker'[w].c = c
      /\ \A x \in Bufs : x # b => buf'[x] = buf[x]
      /\ \A v \in Workers : v # w => worker'[v] = worker[v]
  <2>1. CASE buf' = [buf EXCEPT ![b] = [Blank EXCEPT !.at = "lost"]] /\ At(w, "test", c)
    BY <1>0, <1>2, <2>1, Bounds DEF BufRecords, Blank, WorkerRecords, At, Idle
  <2>2. CASE /\ buf' = [buf EXCEPT ![b].at = "held"]
             /\ worker' = [worker EXCEPT ![w] = [Idle EXCEPT !.pc = "receive", !.c = c, !.b = b]]
    <3>1. /\ buf' \in [Bufs -> BufRecords]
          /\ buf'[b].at = "held" /\ buf'[b].operation = "write" /\ buf'[b].c = c
          /\ \A x \in Bufs : x # b => buf'[x] = buf[x]
      BY <1>0, <1>1, <2>2 DEF BufRecords
    <3>2. /\ worker' \in [Workers -> WorkerRecords]
          /\ worker'[w].pc = "receive" /\ worker'[w].b = b /\ worker'[w].c = c
          /\ \A v \in Workers : v # w => worker'[v] = worker[v]
      BY <1>0, <1>2, <2>2, Bounds DEF WorkerRecords, Idle
    <3>3. QED
      BY <3>1, <3>2
  <2>3. QED
    BY <1>1, <2>1, <2>2
<1>4. /\ sock' \in [Conns -> SockRecords]
      /\ \A d \in Conns : /\ sock'[d].obj = sock[d].obj /\ sock'[d].OutstandingRecv = sock[d].OutstandingRecv
                          /\ sock'[d].OutstandingSend = sock[d].OutstandingSend - (IF d = c THEN 1 ELSE 0)
  BY <1>0, <1>1, <1>2 DEF SockRecords, OneSendLess
<1>5. /\ count' \in CountRecords
      /\ count'.gOutstandingSends = count.gOutstandingSends - 1 /\ count'.sendErrors = count.sendErrors
  BY <1>0, <1>1 DEF CountRecords
<1>6. BufferChanges(buf, buf', b) /\ OnlyBuffer(b) /\ OnlyWorker(w)
  BY <1>0, <1>3 DEF BufferChanges, OnlyBuffer, OnlyWorker
<1>7. Listed(mem', buf') /\ mem' \in MemRecords
  <2>1. buf'[b].at = "lost" \/ InUseOnly(buf', b)
    BY <1>3 DEF InUseOnly, Accepts
  <2>2. QED
    BY <1>0, <1>1, <1>2, <1>6, <2>1, UsedKept
<1>8. Types'
  BY <1>0, <1>1, <1>3, <1>4, <1>5, <1>7 DEF Types
<1>9. Objects(b) /\ BufferFits(b) /\ WorkerFits(w, b)
  BY <1>1, <1>2, <1>3, <1>4 DEF Objects, BufferFits, WorkerFits, HasObjectNext
<1>10. Steady'
  BY <1>0, <1>1, <1>6, <1>7, <1>8, <1>9, SteadyAfter
<1>11. Exact'
  <2>1. \A d \in Conns : /\ Flies(b, "write", d) = (IF d = c THEN 1 ELSE 0) /\ Flies(b, "write", d)' = 0
                         /\ Flies(b, "read", d) = 0 /\ Flies(b, "read", d)' = 0
                         /\ \A pc \in {"received", "sent"} : Waits(w, pc, d) = 0 /\ Waits(w, pc, d)' = 0
    BY <1>1, <1>3 DEF Flies, Waits
  <2>2. Sending(b) = 1 /\ Sending(b)' = 0 /\ Late(w) = 0 /\ Late(w)' = 0
    BY <1>1, <1>3 DEF Sending, Late
  <2>4. \A d \in Conns : /\ sock'[d].OutstandingRecv - sock[d].OutstandingRecv
                              = (Flies(b, "read", d)' - Flies(b, "read", d)) - (Waits(w, "received", d)' - Waits(w, "received", d))
                         /\ sock'[d].OutstandingSend - sock[d].OutstandingSend
                              = (Flies(b, "write", d)' - Flies(b, "write", d)) - (Waits(w, "sent", d)' - Waits(w, "sent", d))
    BY <1>0, <1>4, <2>1 DEF SockRecords
  <2>5. (count'.gOutstandingSends - count.gOutstandingSends) - (count'.sendErrors - count.sendErrors)
           = (Sending(b)' - Sending(b)) - (Late(w)' - Late(w))
    BY <1>0, <1>5, <2>2 DEF CountRecords
  <2>6. QED
    BY <1>0, <1>4, <1>5, <1>6, <2>4, <2>5, ExactStep
<1>12. QED
  BY <1>10, <1>11

LEMMA ReadOrWriteErrorKeeps ==
  ASSUME Steady, Exact, NEW w \in Workers, NEW b \in Bufs, ReadOrWriteError(w, b)
  PROVE  Steady' /\ Exact'
<1> DEFINE c == buf[b].c
           send == buf[b].operation = "write"
           s == IF send THEN OneSendLess(c) ELSE OneReceiveLess(c)
<1>0. /\ Types /\ mem \in MemRecords /\ Listed(mem, buf) /\ main.pc \notin {"wild", "hung"}
      /\ buf \in [Bufs -> BufRecords] /\ sock \in [Conns -> SockRecords] /\ worker \in [Workers -> WorkerRecords]
      /\ count \in CountRecords
  BY DEF Steady, Types
<1>1. /\ buf[b].at = "posted" /\ buf[b].operation # "accept" /\ worker[w].pc = "idle"
      /\ sock' = IF NoOperation(s, c) THEN FreeSocketObj(s, c) ELSE s
      /\ count' = [count EXCEPT !.faults = @ - 1, !.sendErrors = @ + (IF send THEN 1 ELSE 0)]
      /\ mem' = FreeBufferObj(mem, b)
      /\ buf' = [buf EXCEPT ![b] = Freed]
      /\ peer' = peer /\ worker' = worker /\ main' = main
  BY DEF ReadOrWriteError, Ready, Fails
<1>2. /\ c \in Conns /\ sock[c].obj # "none" /\ c # NoConn /\ InUseOnly(buf, b)
      /\ buf[b].operation \in {"read", "write"}
  BY <1>1, Operation
<1>3. /\ buf' \in [Bufs -> BufRecords] /\ buf'[b].at = "free" /\ buf'[b].operation = "none"
      /\ \A x \in Bufs : x # b => buf'[x] = buf[x]
  BY <1>0, <1>1, Bounds DEF BufRecords, Freed, Blank
<1>4. /\ sock' \in [Conns -> SockRecords]
      /\ \A d \in Conns : (sock'[d].obj # "freed" => sock'[d].obj = sock[d].obj) /\ (sock[d].obj # "none" => sock'[d].obj # "none")
      /\ \A d \in Conns : d # c => sock'[d] = sock[d]
      /\ sock'[c].obj # "freed" =>
           /\ sock'[c].OutstandingSend = sock[c].OutstandingSend - (IF send THEN 1 ELSE 0)
           /\ sock'[c].OutstandingRecv = sock[c].OutstandingRecv - (IF send THEN 0 ELSE 1)
  <2>1. /\ s \in [Conns -> SockRecords]
        /\ \A d \in Conns : s[d].obj = sock[d].obj /\ (d # c => s[d] = sock[d])
        /\ s[c].OutstandingSend = sock[c].OutstandingSend - (IF send THEN 1 ELSE 0)
        /\ s[c].OutstandingRecv = sock[c].OutstandingRecv - (IF send THEN 0 ELSE 1)
    BY <1>0, <1>2 DEF SockRecords, OneSendLess, OneReceiveLess
  <2> HIDE DEF s
  <2>2. /\ FreeSocketObj(s, c) \in [Conns -> SockRecords]
        /\ \A d \in Conns : d # c => FreeSocketObj(s, c)[d] = s[d]
        /\ FreeSocketObj(s, c)[c].obj = "freed"
    BY <1>2, <2>1, SocketFreed
  <2>3. QED
    BY <1>1, <1>2, <2>1, <2>2
<1>5. /\ count' \in CountRecords
      /\ count'.gOutstandingSends = count.gOutstandingSends
      /\ count'.sendErrors = count.sendErrors + (IF send THEN 1 ELSE 0)
  <2> DEFINE k == IF send THEN 1 ELSE 0
  <2>1. count' = [count EXCEPT !.faults = @ - 1, !.sendErrors = @ + k] /\ k \in Int
    BY <1>1
  <2> HIDE DEF k
  <2>2. /\ count' \in CountRecords /\ count'.gOutstandingSends = count.gOutstandingSends
        /\ count'.sendErrors = count.sendErrors + k
    <3>1. PICK f, e : f = count.faults - 1 /\ e = count.sendErrors + k
      OBVIOUS
    <3>2. f \in Int /\ e \in Int
      BY <1>0, <2>1, <3>1 DEF CountRecords
    <3>3. count' = [count EXCEPT !.faults = f, !.sendErrors = e]
      BY <2>1, <3>1
    <3>4. QED
      BY <1>0, <3>1, <3>2, <3>3 DEF CountRecords
  <2>3. QED
    BY <2>2 DEF k
<1>6. BufferChanges(buf, buf', b) /\ OnlyBuffer(b) /\ OnlyWorker(w)
  BY <1>0, <1>1, <1>3 DEF BufferChanges, OnlyBuffer, OnlyWorker
<1>7. Listed(mem', buf') /\ mem' \in MemRecords
  BY <1>0, <1>1, <1>2, <1>3, <1>6, UsedFreed
<1>8. Types'
  BY <1>0, <1>1, <1>3, <1>4, <1>5, <1>7 DEF Types
<1>9. Objects(b) /\ BufferFits(b) /\ WorkerFits(w, b)
  <2>1. worker[w].c # NoConn => HasObject(worker[w].c)
    BY DEF Steady, Working
  <2>2. QED
    BY <1>1, <1>2, <1>3, <1>4, <2>1 DEF Objects, BufferFits, WorkerFits, HasObject, HasObjectNext
<1>10. Steady'
  BY <1>0, <1>1, <1>6, <1>7, <1>8, <1>9, SteadyAfter
<1>11. Exact'
  <2>1. \A d \in Conns : /\ Flies(b, "write", d) = (IF send /\ d = c THEN 1 ELSE 0) /\ Flies(b, "write", d)' = 0
                         /\ Flies(b, "read", d) = (IF ~send /\ d = c THEN 1 ELSE 0) /\ Flies(b, "read", d)' = 0
                         /\ \A pc \in {"received", "sent"} : Waits(w, pc, d) = 0 /\ Waits(w, pc, d)' = 0
    BY <1>1, <1>2, <1>3 DEF Flies, Waits
  <2>2. Sending(b) = (IF send THEN 1 ELSE 0) /\ Sending(b)' = 0 /\ Late(w) = 0 /\ Late(w)' = 0
    BY <1>1, <1>3 DEF Sending, Late
  <2>4. \A d \in Conns : sock'[d].obj # "freed" =>
                         /\ sock[d].obj # "freed"
                         /\ sock'[d].OutstandingRecv - sock[d].OutstandingRecv
                              = (Flies(b, "read", d)' - Flies(b, "read", d)) - (Waits(w, "received", d)' - Waits(w, "received", d))
                         /\ sock'[d].OutstandingSend - sock[d].OutstandingSend
                              = (Flies(b, "write", d)' - Flies(b, "write", d)) - (Waits(w, "sent", d)' - Waits(w, "sent", d))
    BY <1>0, <1>4, <2>1 DEF SockRecords
  <2>5. (count'.gOutstandingSends - count.gOutstandingSends) - (count'.sendErrors - count.sendErrors)
           = (Sending(b)' - Sending(b)) - (Late(w)' - Late(w))
    BY <1>0, <1>5, <2>2 DEF CountRecords
  <2>6. QED
    BY <1>0, <1>4, <1>5, <1>6, <2>4, <2>5, ExactStep
<1>12. QED
  BY <1>10, <1>11

LEMMA AcceptIs ==
  ASSUME Steady, NEW w, NEW b \in Bufs, Accepted(w, b)
  PROVE  /\ buf[b].c \in Conns /\ buf[b].c # NoConn /\ sock[buf[b].c].obj = "none"
         /\ b \in Accepts(buf) /\ buf[b].at = "posted" /\ buf[b].operation = "accept"
         /\ worker[w].pc = "idle" /\ ~RemoveSpins(mem, b)
<1>1. buf[b].operation = "accept" /\ worker[w].pc = "idle" /\ (Succeeds(b) \/ buf[b].res = "swept")
  BY DEF Accepted, Ready
<1>2. buf[b].at = "posted" /\ b \in Accepts(buf)
  BY <1>1 DEF Steady, InUse, Accepts
<1>3. buf[b].c # NoConn
  <2>1. CASE Succeeds(b)
    BY <1>1, <2>1 DEF Succeeds, HasInput
  <2>2. CASE buf[b].res = "swept"
    BY <1>2, <2>2 DEF Steady, Taken
  <2>3. QED
    BY <1>1, <2>1, <2>2
<1>4. sock[buf[b].c].obj = "none" /\ buf[b].c \in Conns
  BY <1>2, <1>3 DEF Steady, Taken, Types, BufRecords, Conns, NoConn
<1>5. ~Endless(mem, mem.PendingAccepts)
  BY AcceptsEnd DEF Steady
<1>6. QED
  BY <1>1, <1>2, <1>3, <1>4, <1>5 DEF RemoveSpins

LEMMA ObjectGiven ==
  ASSUME Types, NEW c \in Conns, sock[c].obj = "none"
  PROVE  /\ GetSocketObj(c) \in [Conns -> SockRecords]
         /\ \A d \in Conns : /\ GetSocketObj(c)[d].OutstandingRecv = sock[d].OutstandingRecv
                             /\ GetSocketObj(c)[d].OutstandingSend = sock[d].OutstandingSend
                             /\ GetSocketObj(c)[d].obj = IF d = c THEN "used" ELSE sock[d].obj
  BY DEF Types, SockRecords, GetSocketObj

LEMMA AcceptCounts ==
  ASSUME Types, NEW i \in Int
  PROVE  /\ OneAcceptLess(i) \in CountRecords /\ Repost(OneAcceptLess(i)) \in CountRecords
         /\ OneAcceptLess(i).gOutstandingSends = count.gOutstandingSends
         /\ OneAcceptLess(i).sendErrors = count.sendErrors
         /\ Repost(OneAcceptLess(i)).gOutstandingSends = count.gOutstandingSends
         /\ Repost(OneAcceptLess(i)).sendErrors = count.sendErrors
<1>1. /\ OneAcceptLess(i) \in CountRecords
      /\ OneAcceptLess(i).gOutstandingSends = count.gOutstandingSends
      /\ OneAcceptLess(i).sendErrors = count.sendErrors
  <2>1. count \in CountRecords
    BY DEF Types
  <2>2. PICK p, f : p = count.PendingAcceptCount - 1 /\ f = count.faults - i
    OBVIOUS
  <2>3. p \in Int /\ f \in Int
    BY <2>1, <2>2 DEF CountRecords
  <2>4. OneAcceptLess(i) = [count EXCEPT !.PendingAcceptCount = p, !.faults = f]
    BY <2>2 DEF OneAcceptLess
  <2>5. QED
    BY <2>1, <2>3, <2>4 DEF CountRecords
<1>2. ASSUME NEW n \in CountRecords
      PROVE  /\ Repost(n) \in CountRecords /\ Repost(n).gOutstandingSends = n.gOutstandingSends
             /\ Repost(n).sendErrors = n.sendErrors
  <2>1. PICK k : k = n.RepostCount + 1
    OBVIOUS
  <2>2. k \in Nat
    BY <2>1 DEF CountRecords
  <2>3. Repost(n) = [n EXCEPT !.RepostCount = k, !.RepostAccept = TRUE]
    BY <2>1 DEF Repost
  <2>4. QED
    BY <2>2, <2>3 DEF CountRecords
<1>3. QED
  BY <1>1, <1>2

\* What every accept that leaves the list does, when no accept is posted with its buffer.
LEMMA AcceptKeeps ==
  ASSUME Steady, Exact, NEW w \in Workers, NEW b \in Bufs, Accepted(w, b),
         buf' \in [Bufs -> BufRecords], OnlyBuffer(b), buf'[b].operation # "accept",
         buf'[b].at \in {"queued", "lost", "free"},
         buf'[b].at = "queued" => buf'[b].operation = "write" /\ HasObjectNext(buf[b].c) /\ buf'[b].c = buf[b].c,
         Listed(mem', buf'), mem' \in MemRecords,
         sock' \in {sock, GetSocketObj(buf[b].c)},
         peer' = Read(buf[b].c), main' = main,
         worker' = worker \/ Goto(w, "test"),
         NEW i \in Int, count' \in {OneAcceptLess(i), Repost(OneAcceptLess(i))}
  PROVE  Steady' /\ Exact'
<1> DEFINE c == buf[b].c
<1>0. /\ Types /\ main.pc \notin {"wild", "hung"}
      /\ sock \in [Conns -> SockRecords] /\ worker \in [Workers -> WorkerRecords]
      /\ count \in CountRecords
  BY DEF Steady, Types
<1>1. /\ c \in Conns /\ c # NoConn /\ sock[c].obj = "none" /\ b \in Accepts(buf)
      /\ buf[b].at = "posted" /\ buf[b].operation = "accept" /\ worker[w].pc = "idle"
  BY AcceptIs
<1>2. /\ sock' \in [Conns -> SockRecords]
      /\ \A d \in Conns : /\ sock'[d].OutstandingRecv = sock[d].OutstandingRecv
                          /\ sock'[d].OutstandingSend = sock[d].OutstandingSend
                          /\ d # c => sock'[d].obj = sock[d].obj
                          /\ sock'[d].obj = "freed" => sock[d].obj = "freed"
  BY <1>0, <1>1, ObjectGiven
<1>3. /\ worker' \in [Workers -> WorkerRecords]
      /\ worker'[w].pc \in {"idle", "test"} /\ worker'[w].c = worker[w].c
      /\ \A v \in Workers : v # w => worker'[v] = worker[v]
  BY <1>0, <1>1 DEF Goto, WorkerRecords
<1>4. /\ count' \in CountRecords
      /\ count'.gOutstandingSends = count.gOutstandingSends /\ count'.sendErrors = count.sendErrors
  BY <1>0, AcceptCounts
<1>5. peer' \in [Conns -> PeerRecords] /\ \A d \in Conns : peer'[d].at = peer[d].at
  BY <1>0, ReadTypes
<1>6. Types'
  BY <1>0, <1>2, <1>3, <1>4, <1>5 DEF Types
<1>7. OnlyWorker(w)
  BY <1>3 DEF OnlyWorker
<1>8. Objects(b) /\ BufferFits(b) /\ WorkerFits(w, b)
  <2>1. Objects(b)
    BY <1>1, <1>2, <1>5 DEF Objects
  <2>2. BufferFits(b)
    BY <1>1 DEF BufferFits
  <2>3. worker[w].c # NoConn => HasObjectNext(worker[w].c)
    BY <2>1 DEF Steady, Working, HasObject, HasObjectNext, Objects
  <2>4. WorkerFits(w, b)
    BY <1>1, <1>3, <2>3 DEF WorkerFits
  <2>5. QED
    BY <2>1, <2>2, <2>4
<1>9. Steady'
  BY <1>0, <1>6, <1>7, <1>8, SteadyAfter
<1>10. Exact'
  <2>1. \A d \in Conns : /\ Flies(b, "write", d) = 0 /\ Flies(b, "write", d)' = 0
                         /\ Flies(b, "read", d) = 0 /\ Flies(b, "read", d)' = 0
                         /\ \A pc \in {"received", "sent"} : Waits(w, pc, d) = 0 /\ Waits(w, pc, d)' = 0
    BY <1>1, <1>3 DEF Flies, Waits
  <2>2. Sending(b) = 0 /\ Sending(b)' = 0 /\ Late(w) = 0 /\ Late(w)' = 0
    BY <1>1, <1>3 DEF Sending, Late
  <2>3. \A d \in Conns : sock'[d].obj # "freed" =>
                         /\ sock[d].obj # "freed"
                         /\ sock'[d].OutstandingRecv - sock[d].OutstandingRecv
                              = (Flies(b, "read", d)' - Flies(b, "read", d)) - (Waits(w, "received", d)' - Waits(w, "received", d))
                         /\ sock'[d].OutstandingSend - sock[d].OutstandingSend
                              = (Flies(b, "write", d)' - Flies(b, "write", d)) - (Waits(w, "sent", d)' - Waits(w, "sent", d))
    <3>1. \A d \in Conns : sock[d].obj = "freed" => sock'[d].obj = "freed"
      BY <1>1, <1>2
    <3>2. QED
      BY <1>0, <1>2, <2>1, <3>1 DEF SockRecords
  <2>4. (count'.gOutstandingSends - count.gOutstandingSends) - (count'.sendErrors - count.sendErrors)
           = (Sending(b)' - Sending(b)) - (Late(w)' - Late(w))
    BY <1>0, <1>4, <2>2 DEF CountRecords
  <2>5. QED
    BY <1>0, <1>2, <1>4, <1>7, <2>3, <2>4, ExactStep
<1>11. QED
  BY <1>9, <1>10

\* The buffer between the lists.
LEMMA AcceptOff ==
  ASSUME Steady, NEW w, NEW b \in Bufs, Accepted(w, b)
  PROVE  LET bs == [buf EXCEPT ![b].operation = "none"]
             m == RemovePendingAccept(mem, b)
         IN /\ bs \in [Bufs -> BufRecords] /\ InUseOnly(bs, b) /\ BufferChanges(buf, bs, b)
            /\ Listed(m, bs) /\ m \in MemRecords
<1> DEFINE bs == [buf EXCEPT ![b].operation = "none"]
<1>0. mem \in MemRecords /\ Listed(mem, buf) /\ buf \in [Bufs -> BufRecords]
  BY DEF Steady, Types
<1>1. b \in Accepts(buf) /\ buf[b].at = "posted"
  BY AcceptIs
<1>2. /\ bs \in [Bufs -> BufRecords] /\ bs[b].at = "posted" /\ bs[b].operation = "none"
      /\ \A x \in Bufs : x # b => bs[x] = buf[x]
  BY <1>0, <1>1 DEF BufRecords
<1> HIDE DEF bs
<1>3. BufferChanges(buf, bs, b) /\ InUseOnly(bs, b)
  BY <1>0, <1>2 DEF BufferChanges, InUseOnly, Accepts
<1>4. Listed(RemovePendingAccept(mem, b), bs) /\ RemovePendingAccept(mem, b) \in MemRecords
  BY <1>0, <1>1, <1>3, AcceptRemoved
<1>5. QED
  BY <1>2, <1>3, <1>4 DEF bs

LEMMA HandleAcceptKeeps ==
  ASSUME Steady, Exact, NEW w \in Workers, NEW b \in Bufs, HandleAccept(w, b)
  PROVE  Steady' /\ Exact'
<1> DEFINE c == buf[b].c
           m == RemovePendingAccept(mem, b)
<1>0. Accepted(w, b) /\ buf \in [Bufs -> BufRecords] /\ Types
  BY DEF HandleAccept, Steady, Types
<1>1. c \in Conns /\ sock[c].obj = "none" /\ ~RemoveSpins(mem, b)
  BY <1>0, AcceptIs
<1>2. /\ sock' = GetSocketObj(c) /\ mem' = EnqueuePendingOperation(m, b)
      /\ buf' = [buf EXCEPT ![b].at = "queued", ![b].operation = "write", ![b].data = Input(c)]
      /\ peer' = Read(c) /\ count' = Repost(OneAcceptLess(0)) /\ Goto(w, "test") /\ main' = main
  BY <1>1 DEF HandleAccept
<1>3. PICK bs : /\ bs \in [Bufs -> BufRecords] /\ InUseOnly(bs, b) /\ BufferChanges(buf, bs, b)
                /\ Listed(m, bs) /\ m \in MemRecords
  BY <1>0, AcceptOff
<1>4. /\ buf' \in [Bufs -> BufRecords]
      /\ buf'[b].at = "queued" /\ buf'[b].operation = "write" /\ buf'[b].c = c
      /\ \A x \in Bufs : x # b => buf'[x] = buf[x]
  <2>1. PICK i \in {0, 1} : i = Input(c)
    BY InputIs
  <2>2. buf' = [buf EXCEPT ![b].at = "queued", ![b].operation = "write", ![b].data = i]
    BY <1>2, <2>1
  <2>3. PICK o \in BufRecords : o = buf[b]
    BY <1>0
  <2>4. PICK r : r = [o EXCEPT !.at = "queued", !.operation = "write", !.data = i]
    OBVIOUS
  <2>5. r \in BufRecords /\ r.at = "queued" /\ r.operation = "write" /\ r.c = o.c
    BY <2>1, <2>4 DEF BufRecords
  <2>6. buf' = [buf EXCEPT ![b] = r]
    BY <1>0, <2>2, <2>3, <2>4
  <2>7. QED
    BY <1>0, <2>3, <2>5, <2>6
<1>5. BufferChanges(bs, buf', b) /\ OnlyBuffer(b)
  BY <1>3, <1>4 DEF BufferChanges, OnlyBuffer
<1>6. Listed(mem', buf') /\ mem' \in MemRecords
  <2> HIDE DEF m
  <2>1. QED
    BY <1>2, <1>3, <1>4, <1>5, UsedQueued
<1>7. HasObjectNext(c)
  BY <1>0, <1>1, <1>2, ObjectGiven DEF HasObjectNext
<1>8. 0 \in Int
  OBVIOUS
<1>9. QED
  BY <1>0, <1>2, <1>4, <1>5, <1>6, <1>7, <1>8, AcceptKeeps

LEMMA AcceptWithoutPortKeeps ==
  ASSUME Steady, Exact, NEW w \in Workers, NEW b \in Bufs, AcceptWithoutPort(w, b)
  PROVE  Steady' /\ Exact'
<1> DEFINE c == buf[b].c
           m == RemovePendingAccept(mem, b)
<1>0. Accepted(w, b) /\ buf \in [Bufs -> BufRecords] /\ Types
  BY DEF AcceptWithoutPort, Steady, Types
<1>2. /\ sock' = GetSocketObj(c) /\ mem' = m
      /\ buf' = [buf EXCEPT ![b] = [Blank EXCEPT !.at = "lost"]]
      /\ peer' = Read(c) /\ count' = OneAcceptLess(Spent(b)) /\ worker' = worker /\ main' = main
  BY DEF AcceptWithoutPort
<1>3. PICK bs : /\ bs \in [Bufs -> BufRecords] /\ InUseOnly(bs, b) /\ BufferChanges(buf, bs, b)
                /\ Listed(m, bs) /\ m \in MemRecords
  BY <1>0, AcceptOff
<1>4. /\ buf' \in [Bufs -> BufRecords] /\ buf'[b].at = "lost" /\ buf'[b].operation = "none"
      /\ \A x \in Bufs : x # b => buf'[x] = buf[x]
  BY <1>0, <1>2, Bounds DEF BufRecords, Blank
<1>5. BufferChanges(bs, buf', b) /\ OnlyBuffer(b)
  BY <1>3, <1>4 DEF BufferChanges, OnlyBuffer
<1>6. Listed(mem', buf') /\ mem' \in MemRecords
  <2> HIDE DEF m
  <2>1. QED
    BY <1>2, <1>3, <1>4, <1>5, UsedKept
<1>7. Spent(b) \in Int
  BY DEF Spent
<1>8. QED
  BY <1>0, <1>2, <1>4, <1>5, <1>6, <1>7, AcceptKeeps

LEMMA AcceptWithoutObjectKeeps ==
  ASSUME Steady, Exact, NEW w \in Workers, NEW b \in Bufs, AcceptWithoutObject(w, b)
  PROVE  Steady' /\ Exact'
<1> DEFINE c == buf[b].c
           m == RemovePendingAccept(mem, b)
<1>0. Accepted(w, b) /\ buf \in [Bufs -> BufRecords] /\ Types
  BY DEF AcceptWithoutObject, Steady, Types
<1>2. /\ sock' = sock /\ mem' = FreeBufferObj(m, b)
      /\ buf' = [buf EXCEPT ![b] = Freed]
      /\ peer' = Read(c) /\ count' = Repost(OneAcceptLess(1)) /\ Goto(w, "test") /\ main' = main
  BY DEF AcceptWithoutObject
<1>3. PICK bs : /\ bs \in [Bufs -> BufRecords] /\ InUseOnly(bs, b) /\ BufferChanges(buf, bs, b)
                /\ Listed(m, bs) /\ m \in MemRecords
  BY <1>0, AcceptOff
<1>4. /\ buf' \in [Bufs -> BufRecords] /\ buf'[b].at = "free" /\ buf'[b].operation = "none"
      /\ \A x \in Bufs : x # b => buf'[x] = buf[x]
  BY <1>0, <1>2, Bounds DEF BufRecords, Freed, Blank
<1>5. BufferChanges(bs, buf', b) /\ OnlyBuffer(b)
  BY <1>3, <1>4 DEF BufferChanges, OnlyBuffer
<1>6. Listed(mem', buf') /\ mem' \in MemRecords
  <2> HIDE DEF m
  <2>1. QED
    BY <1>2, <1>3, <1>4, <1>5, UsedFreed
<1>7. 1 \in Int
  OBVIOUS
<1>8. QED
  BY <1>0, <1>2, <1>4, <1>5, <1>6, <1>7, AcceptKeeps

LEMMA ProcessedIs ==
  ASSUME Types, NEW w \in Workers, Processed(w)
  PROVE  /\ worker' \in [Workers -> WorkerRecords]
         /\ worker'[w].pc \in {"idle", "close"} /\ worker'[w].c = worker[w].c
         /\ \A v \in Workers : v # w => worker'[v] = worker[v]
<1>1. worker \in [Workers -> WorkerRecords] /\ worker[w] \in WorkerRecords
  BY DEF Types
<1>2. PICK r : r = IF worker[w].c = NoConn THEN Idle ELSE [worker[w] EXCEPT !.pc = "close"]
  OBVIOUS
<1>3. worker' = [worker EXCEPT ![w] = r]
  BY <1>2 DEF Processed
<1>4. r \in WorkerRecords /\ r.pc \in {"idle", "close"} /\ r.c = worker[w].c
  <2>1. CASE worker[w].c = NoConn
    BY <1>2, <2>1, Bounds DEF WorkerRecords, Idle
  <2>2. CASE worker[w].c # NoConn
    BY <1>1, <1>2, <2>2 DEF WorkerRecords
  <2>3. QED
    BY <2>1, <2>2
<1>5. QED
  BY <1>1, <1>3, <1>4

LEMMA PostedIs ==
  ASSUME Types, NEW w \in Workers, NEW pc \in {"sent", "received"}, NEW c \in Conns, Posted(w, pc, c)
  PROVE  /\ worker' \in [Workers -> WorkerRecords]
         /\ worker'[w].pc = pc /\ worker'[w].c = worker[w].c /\ worker'[w].lock = c
         /\ \A v \in Workers : v # w => worker'[v] = worker[v]
<1>1. worker \in [Workers -> WorkerRecords] /\ c \in 0..NConns /\ Null \in 0..NBufs
  BY Bounds DEF Types
<1>2. PICK o \in WorkerRecords : o = worker[w]
  BY <1>1
<1>3. PICK r : r = [o EXCEPT !.pc = pc, !.lock = c, !.b = Null]
  OBVIOUS
<1>4. r \in WorkerRecords /\ r.pc = pc /\ r.c = o.c /\ r.lock = c
  BY <1>1, <1>3 DEF WorkerRecords
<1>5. worker' = [worker EXCEPT ![w] = r]
  BY <1>1, <1>2, <1>3 DEF Posted
<1>6. QED
  BY <1>1, <1>2, <1>4, <1>5

LEMMA DequeuesIs ==
  ASSUME Steady, NEW w, NEW b \in Bufs, Dequeues(w, b)
  PROVE  /\ worker[w].pc = "dequeue" /\ b = mem.gPendingSendList /\ b # Null
         /\ buf[b].at = "queued" /\ buf[b].operation = "write"
         /\ buf[b].c \in Conns /\ sock[buf[b].c].obj # "none"
<1>1. worker[w].pc = "dequeue" /\ b = mem.gPendingSendList /\ b # Null
  BY Bounds DEF Dequeues
<1>2. buf[b].at = "queued"
  BY <1>1, HeadsListed DEF Steady
<1>3. QED
  BY <1>1, <1>2 DEF Steady, InUse, HasObject

LEMMA PostSendKeeps ==
  ASSUME Steady, Exact, NEW w \in Workers, NEW b \in Bufs, PostSend(w, b)
  PROVE  Steady' /\ Exact'
<1> DEFINE c == buf[b].c
<1>0. /\ Types /\ mem \in MemRecords /\ Listed(mem, buf) /\ main.pc \notin {"wild", "hung"}
      /\ buf \in [Bufs -> BufRecords] /\ sock \in [Conns -> SockRecords] /\ worker \in [Workers -> WorkerRecords]
      /\ count \in CountRecords /\ peer \in [Conns -> PeerRecords]
  BY DEF Steady, Types
<1>1. /\ mem' = DequeuePendingOperation(mem)
      /\ buf' = [buf EXCEPT ![b].at = "posted", ![b].data = 0]
      /\ peer' = [peer EXCEPT ![c].owed = @ - buf[b].data]
      /\ Posted(w, "sent", c) /\ sock' = sock /\ main' = main /\ count' = count
  BY DEF PostSend
<1>2. /\ c \in Conns /\ sock[c].obj # "none" /\ buf[b].at = "queued" /\ buf[b].operation = "write"
      /\ worker[w].pc = "dequeue" /\ b = mem.gPendingSendList /\ b # Null
  BY DequeuesIs DEF PostSend
<1>3. /\ buf' \in [Bufs -> BufRecords]
      /\ buf'[b].at = "posted" /\ buf'[b].operation = "write" /\ buf'[b].c = c
      /\ \A x \in Bufs : x # b => buf'[x] = buf[x]
  BY <1>0, <1>1, <1>2 DEF BufRecords
<1>4. peer' \in [Conns -> PeerRecords] /\ \A d \in Conns : peer'[d].at = peer[d].at
  <2>1. PICK i \in Int : i = buf[b].data
    BY <1>0 DEF BufRecords
  <2>2. peer' = [peer EXCEPT ![c].owed = @ - i]
    BY <1>1, <2>1
  <2>3. QED
    BY <1>0, <1>2, <2>2 DEF PeerRecords
<1>5. /\ worker' \in [Workers -> WorkerRecords]
      /\ worker'[w].pc = "sent" /\ worker'[w].c = worker[w].c /\ worker'[w].lock = c
      /\ \A v \in Workers : v # w => worker'[v] = worker[v]
  BY <1>0, <1>1, <1>2, PostedIs
<1>6. BufferChanges(buf, buf', b) /\ OnlyBuffer(b) /\ OnlyWorker(w)
  BY <1>0, <1>3, <1>5 DEF BufferChanges, OnlyBuffer, OnlyWorker
<1>7. Listed(mem', buf') /\ mem' \in MemRecords
  <2>1. InUseOnly(buf', b)
    BY <1>3 DEF InUseOnly, Accepts
  <2>2. QED
    BY <1>0, <1>1, <1>2, <1>6, <2>1, SendDequeued
<1>8. Types'
  BY <1>0, <1>1, <1>3, <1>4, <1>5, <1>7 DEF Types
<1>9. Objects(b) /\ BufferFits(b) /\ WorkerFits(w, b)
  <2>1. worker[w].c # NoConn => HasObject(worker[w].c)
    BY DEF Steady, Working
  <2>2. QED
    BY <1>1, <1>2, <1>3, <1>4, <1>5, <2>1
      DEF Objects, BufferFits, WorkerFits, HasObject, HasObjectNext
<1>10. Steady'
  BY <1>0, <1>1, <1>6, <1>7, <1>8, <1>9, SteadyAfter
<1>11. Exact'
  <2>1. \A d \in Conns : /\ Flies(b, "write", d) = 0 /\ Flies(b, "write", d)' = (IF d = c THEN 1 ELSE 0)
                         /\ Flies(b, "read", d) = 0 /\ Flies(b, "read", d)' = 0
                         /\ Waits(w, "received", d) = 0 /\ Waits(w, "received", d)' = 0
                         /\ Waits(w, "sent", d) = 0 /\ Waits(w, "sent", d)' = (IF d = c THEN 1 ELSE 0)
    BY <1>2, <1>3, <1>5 DEF Flies, Waits
  <2>2. Sending(b) = 0 /\ Sending(b)' = 1 /\ Late(w) = 0 /\ Late(w)' = 1
    BY <1>2, <1>3, <1>5 DEF Sending, Late
  <2>3. sock' \in [Conns -> SockRecords] /\ count' \in CountRecords
    BY <1>0, <1>1
  <2>4. \A d \in Conns : sock'[d].obj # "freed" =>
                         /\ sock[d].obj # "freed"
                         /\ sock'[d].OutstandingRecv - sock[d].OutstandingRecv
                              = (Flies(b, "read", d)' - Flies(b, "read", d)) - (Waits(w, "received", d)' - Waits(w, "received", d))
                         /\ sock'[d].OutstandingSend - sock[d].OutstandingSend
                              = (Flies(b, "write", d)' - Flies(b, "write", d)) - (Waits(w, "sent", d)' - Waits(w, "sent", d))
    BY <1>0, <1>1, <2>1 DEF SockRecords
  <2>5. (count'.gOutstandingSends - count.gOutstandingSends) - (count'.sendErrors - count.sendErrors)
           = (Sending(b)' - Sending(b)) - (Late(w)' - Late(w))
    BY <1>0, <1>1, <2>2 DEF CountRecords
  <2>6. QED
    BY <1>0, <1>6, <2>3, <2>4, <2>5, ExactStep
<1>12. QED
  BY <1>10, <1>11

LEMMA PostSendFailsKeeps ==
  ASSUME Steady, Exact, NEW w \in Workers, NEW b \in Bufs, PostSendFails(w, b)
  PROVE  Steady' /\ Exact'
<1> DEFINE m == DequeuePendingOperation(mem)
           bs == [buf EXCEPT ![b].at = "held"]
<1>0. /\ Types /\ mem \in MemRecords /\ Listed(mem, buf) /\ main.pc \notin {"wild", "hung"}
      /\ buf \in [Bufs -> BufRecords] /\ sock \in [Conns -> SockRecords] /\ worker \in [Workers -> WorkerRecords]
      /\ count \in CountRecords
  BY DEF Steady, Types
<1>1. /\ mem' = FreeBufferObj(m, b) /\ buf' = [buf EXCEPT ![b] = Freed]
      /\ count' = [count EXCEPT !.faults = @ - 1] /\ Processed(w)
      /\ sock' = sock /\ peer' = peer /\ main' = main
  BY DEF PostSendFails
<1>2. /\ buf[b].at = "queued" /\ buf[b].operation = "write"
      /\ worker[w].pc = "dequeue" /\ b = mem.gPendingSendList /\ b # Null
  BY DequeuesIs DEF PostSendFails
<1>3. /\ buf' \in [Bufs -> BufRecords] /\ buf'[b].at = "free" /\ buf'[b].operation = "none"
      /\ \A x \in Bufs : x # b => buf'[x] = buf[x]
  BY <1>0, <1>1, Bounds DEF BufRecords, Freed, Blank
<1>4. /\ count' \in CountRecords
      /\ count'.gOutstandingSends = count.gOutstandingSends /\ count'.sendErrors = count.sendErrors
  BY <1>0, <1>1 DEF CountRecords
<1>5. /\ worker' \in [Workers -> WorkerRecords]
      /\ worker'[w].pc \in {"idle", "close"} /\ worker'[w].c = worker[w].c
      /\ \A v \in Workers : v # w => worker'[v] = worker[v]
  BY <1>0, <1>1, ProcessedIs
<1>6. OnlyBuffer(b) /\ OnlyWorker(w)
  BY <1>3, <1>5 DEF OnlyBuffer, OnlyWorker
<1>7. Listed(mem', buf') /\ mem' \in MemRecords
  <2>1. /\ bs \in [Bufs -> BufRecords] /\ bs[b].at = "held" /\ bs[b].operation = "write"
        /\ \A x \in Bufs : x # b => bs[x] = buf[x]
    BY <1>0, <1>2 DEF BufRecords
  <2> HIDE DEF bs
  <2>2. BufferChanges(buf, bs, b) /\ BufferChanges(bs, buf', b) /\ InUseOnly(bs, b)
    BY <1>0, <1>3, <2>1 DEF BufferChanges, InUseOnly, Accepts
  <2>3. Listed(m, bs) /\ m \in MemRecords
    BY <1>0, <1>2, <2>2, SendDequeued
  <2> HIDE DEF m
  <2>4. QED
    BY <1>1, <1>3, <2>2, <2>3, UsedFreed
<1>8. Types'
  BY <1>0, <1>1, <1>3, <1>4, <1>5, <1>7 DEF Types
<1>9. Objects(b) /\ BufferFits(b) /\ WorkerFits(w, b)
  <2>1. worker[w].c # NoConn => HasObject(worker[w].c)
    BY DEF Steady, Working
  <2>2. QED
    BY <1>1, <1>2, <1>3, <1>5, <2>1 DEF Objects, BufferFits, WorkerFits, HasObject, HasObjectNext
<1>10. Steady'
  BY <1>0, <1>1, <1>6, <1>7, <1>8, <1>9, SteadyAfter
<1>11. Exact'
  <2>1. \A d \in Conns : /\ Flies(b, "write", d) = 0 /\ Flies(b, "write", d)' = 0
                         /\ Flies(b, "read", d) = 0 /\ Flies(b, "read", d)' = 0
                         /\ \A pc \in {"received", "sent"} : Waits(w, pc, d) = 0 /\ Waits(w, pc, d)' = 0
    BY <1>2, <1>3, <1>5 DEF Flies, Waits
  <2>2. Sending(b) = 0 /\ Sending(b)' = 0 /\ Late(w) = 0 /\ Late(w)' = 0
    BY <1>2, <1>3, <1>5 DEF Sending, Late
  <2>3. sock' \in [Conns -> SockRecords]
    BY <1>0, <1>1
  <2>4. \A d \in Conns : sock'[d].obj # "freed" =>
                         /\ sock[d].obj # "freed"
                         /\ sock'[d].OutstandingRecv - sock[d].OutstandingRecv
                              = (Flies(b, "read", d)' - Flies(b, "read", d)) - (Waits(w, "received", d)' - Waits(w, "received", d))
                         /\ sock'[d].OutstandingSend - sock[d].OutstandingSend
                              = (Flies(b, "write", d)' - Flies(b, "write", d)) - (Waits(w, "sent", d)' - Waits(w, "sent", d))
    BY <1>0, <1>1, <2>1 DEF SockRecords
  <2>5. (count'.gOutstandingSends - count.gOutstandingSends) - (count'.sendErrors - count.sendErrors)
           = (Sending(b)' - Sending(b)) - (Late(w)' - Late(w))
    BY <1>0, <1>4, <2>2 DEF CountRecords
  <2>6. QED
    BY <1>0, <1>4, <1>6, <2>3, <2>4, <2>5, ExactStep
<1>12. QED
  BY <1>10, <1>11

LEMMA PostRecvKeeps ==
  ASSUME Steady, Exact, NEW w \in Workers, PostRecv(w)
  PROVE  Steady' /\ Exact'
<1>01. PICK b, c : b = worker[w].b /\ c = worker[w].c
  OBVIOUS
<1>0. /\ Types /\ mem \in MemRecords /\ Listed(mem, buf) /\ main.pc \notin {"wild", "hung"}
      /\ buf \in [Bufs -> BufRecords] /\ sock \in [Conns -> SockRecords] /\ worker \in [Workers -> WorkerRecords]
      /\ count \in CountRecords
  BY DEF Steady, Types
<1>1. /\ worker[w].pc = "receive"
      /\ buf' = [buf EXCEPT ![b].at = "posted", ![b].operation = "read", ![b].data = 0]
      /\ Posted(w, "received", c)
      /\ sock' = sock /\ peer' = peer /\ mem' = mem /\ main' = main /\ count' = count
  BY <1>01 DEF PostRecv
<1>2. /\ b \in Bufs /\ buf[b].at = "held" /\ c \in Conns /\ buf[b].c = c
      /\ c # NoConn /\ HasObject(c)
  BY <1>01, <1>1, Bounds DEF Steady, Holding, Working
<1>3. /\ buf' \in [Bufs -> BufRecords]
      /\ buf'[b].at = "posted" /\ buf'[b].operation = "read" /\ buf'[b].c = c
      /\ \A x \in Bufs : x # b => buf'[x] = buf[x]
  <2>1. PICK o \in BufRecords : o = buf[b]
    BY <1>0, <1>2
  <2>2. PICK r : r = [o EXCEPT !.at = "posted", !.operation = "read", !.data = 0]
    OBVIOUS
  <2>3. r \in BufRecords /\ r.at = "posted" /\ r.operation = "read" /\ r.c = o.c
    BY <2>2 DEF BufRecords
  <2>4. buf' = [buf EXCEPT ![b] = r]
    BY <1>0, <1>1, <1>2, <2>1, <2>2
  <2>5. QED
    BY <1>0, <1>2, <2>1, <2>3, <2>4
<1>5. /\ worker' \in [Workers -> WorkerRecords]
      /\ worker'[w].pc = "received" /\ worker'[w].c = c /\ worker'[w].lock = c
      /\ \A v \in Workers : v # w => worker'[v] = worker[v]
  BY <1>0, <1>01, <1>1, <1>2, PostedIs
<1>6. BufferChanges(buf, buf', b) /\ OnlyBuffer(b) /\ OnlyWorker(w)
  BY <1>0, <1>2, <1>3, <1>5 DEF BufferChanges, OnlyBuffer, OnlyWorker
<1>7. Listed(mem', buf')
  <2>1. InUseOnly(buf', b) /\ InUseOnly(buf, b)
    BY <1>2, <1>3 DEF InUseOnly, Accepts
  <2>2. QED
    BY <1>0, <1>1, <1>6, <2>1, UsedKept
<1>8. Types'
  BY <1>0, <1>1, <1>3, <1>5 DEF Types
<1>9. Objects(b) /\ BufferFits(b) /\ WorkerFits(w, b)
  BY <1>01, <1>1, <1>2, <1>3, <1>5 DEF Objects, BufferFits, WorkerFits, HasObject, HasObjectNext
<1>10. Steady'
  BY <1>0, <1>1, <1>2, <1>6, <1>7, <1>8, <1>9, SteadyAfter
<1>11. Exact'
  <2>1. \A d \in Conns : /\ Flies(b, "write", d) = 0 /\ Flies(b, "write", d)' = 0
                         /\ Flies(b, "read", d) = 0 /\ Flies(b, "read", d)' = (IF d = c THEN 1 ELSE 0)
                         /\ Waits(w, "received", d) = 0 /\ Waits(w, "received", d)' = (IF d = c THEN 1 ELSE 0)
                         /\ Waits(w, "sent", d) = 0 /\ Waits(w, "sent", d)' = 0
    BY <1>1, <1>2, <1>3, <1>5 DEF Flies, Waits
  <2>2. Sending(b) = 0 /\ Sending(b)' = 0 /\ Late(w) = 0 /\ Late(w)' = 0
    BY <1>1, <1>2, <1>3, <1>5 DEF Sending, Late
  <2>3. sock' \in [Conns -> SockRecords] /\ count' \in CountRecords
    BY <1>0, <1>1
  <2>4. \A d \in Conns : sock'[d].obj # "freed" =>
                         /\ sock[d].obj # "freed"
                         /\ sock'[d].OutstandingRecv - sock[d].OutstandingRecv
                              = (Flies(b, "read", d)' - Flies(b, "read", d)) - (Waits(w, "received", d)' - Waits(w, "received", d))
                         /\ sock'[d].OutstandingSend - sock[d].OutstandingSend
                              = (Flies(b, "write", d)' - Flies(b, "write", d)) - (Waits(w, "sent", d)' - Waits(w, "sent", d))
    BY <1>0, <1>1, <2>1 DEF SockRecords
  <2>5. (count'.gOutstandingSends - count.gOutstandingSends) - (count'.sendErrors - count.sendErrors)
           = (Sending(b)' - Sending(b)) - (Late(w)' - Late(w))
    BY <1>0, <1>1, <2>2 DEF CountRecords
  <2>6. QED
    BY <1>0, <1>6, <2>3, <2>4, <2>5, ExactStep
<1>12. QED
  BY <1>10, <1>11

LEMMA PostRecvFailsKeeps ==
  ASSUME Steady, Exact, NEW w \in Workers, PostRecvFails(w)
  PROVE  Steady' /\ Exact'
<1>01. PICK b, c : b = worker[w].b /\ c = worker[w].c
  OBVIOUS
<1>0. /\ Types /\ mem \in MemRecords /\ Listed(mem, buf) /\ main.pc \notin {"wild", "hung"}
      /\ buf \in [Bufs -> BufRecords] /\ sock \in [Conns -> SockRecords] /\ worker \in [Workers -> WorkerRecords]
      /\ count \in CountRecords
  BY DEF Steady, Types
<1>1. /\ worker[w].pc = "receive"
      /\ buf' = [buf EXCEPT ![b] = [Blank EXCEPT !.at = "lost"]]
      /\ count' = [count EXCEPT !.faults = @ - 1]
      /\ worker' = [worker EXCEPT ![w].pc = "test", ![w].b = Null]
      /\ sock' = sock /\ peer' = peer /\ mem' = mem /\ main' = main
  BY <1>01 DEF PostRecvFails
<1>2. /\ b \in Bufs /\ buf[b].at = "held" /\ c \in Conns /\ buf[b].c = c
      /\ c # NoConn /\ HasObject(c)
  BY <1>01, <1>1, Bounds DEF Steady, Holding, Working
<1>3. /\ buf' \in [Bufs -> BufRecords] /\ buf'[b].at = "lost" /\ buf'[b].operation = "none"
      /\ \A x \in Bufs : x # b => buf'[x] = buf[x]
  BY <1>0, <1>1, <1>2, Bounds DEF BufRecords, Blank
<1>4. /\ count' \in CountRecords
      /\ count'.gOutstandingSends = count.gOutstandingSends /\ count'.sendErrors = count.sendErrors
  BY <1>0, <1>1 DEF CountRecords
<1>5. /\ worker' \in [Workers -> WorkerRecords]
      /\ worker'[w].pc = "test" /\ worker'[w].c = c
      /\ \A v \in Workers : v # w => worker'[v] = worker[v]
  BY <1>0, <1>01, <1>1, Bounds DEF WorkerRecords
<1>6. BufferChanges(buf, buf', b) /\ OnlyBuffer(b) /\ OnlyWorker(w)
  BY <1>0, <1>2, <1>3, <1>5 DEF BufferChanges, OnlyBuffer, OnlyWorker
<1>7. Listed(mem', buf')
  <2>1. InUseOnly(buf, b)
    BY <1>2 DEF InUseOnly, Accepts
  <2>2. QED
    BY <1>0, <1>1, <1>3, <1>6, <2>1, UsedKept
<1>8. Types'
  BY <1>0, <1>1, <1>3, <1>4, <1>5 DEF Types
<1>9. Objects(b) /\ BufferFits(b) /\ WorkerFits(w, b)
  BY <1>01, <1>1, <1>2, <1>3, <1>5 DEF Objects, BufferFits, WorkerFits, HasObject, HasObjectNext
<1>10. Steady'
  BY <1>0, <1>1, <1>2, <1>6, <1>7, <1>8, <1>9, SteadyAfter
<1>11. Exact'
  <2>1. \A d \in Conns : /\ Flies(b, "write", d) = 0 /\ Flies(b, "write", d)' = 0
                         /\ Flies(b, "read", d) = 0 /\ Flies(b, "read", d)' = 0
                         /\ \A pc \in {"received", "sent"} : Waits(w, pc, d) = 0 /\ Waits(w, pc, d)' = 0
    BY <1>1, <1>2, <1>3, <1>5 DEF Flies, Waits
  <2>2. Sending(b) = 0 /\ Sending(b)' = 0 /\ Late(w) = 0 /\ Late(w)' = 0
    BY <1>1, <1>2, <1>3, <1>5 DEF Sending, Late
  <2>3. sock' \in [Conns -> SockRecords]
    BY <1>0, <1>1
  <2>4. \A d \in Conns : sock'[d].obj # "freed" =>
                         /\ sock[d].obj # "freed"
                         /\ sock'[d].OutstandingRecv - sock[d].OutstandingRecv
                              = (Flies(b, "read", d)' - Flies(b, "read", d)) - (Waits(w, "received", d)' - Waits(w, "received", d))
                         /\ sock'[d].OutstandingSend - sock[d].OutstandingSend
                              = (Flies(b, "write", d)' - Flies(b, "write", d)) - (Waits(w, "sent", d)' - Waits(w, "sent", d))
    BY <1>0, <1>1, <2>1 DEF SockRecords
  <2>5. (count'.gOutstandingSends - count.gOutstandingSends) - (count'.sendErrors - count.sendErrors)
           = (Sending(b)' - Sending(b)) - (Late(w)' - Late(w))
    BY <1>0, <1>4, <2>2 DEF CountRecords
  <2>6. QED
    BY <1>0, <1>4, <1>6, <2>3, <2>4, <2>5, ExactStep
<1>12. QED
  BY <1>10, <1>11

(***************************************************************************)
(* The steps of a thread alone.                                            *)
(***************************************************************************)
LEMMA AloneKeeps ==
  ASSUME Steady, Exact, NEW w \in Workers,
         buf' = buf, mem' = mem, peer' = peer, main' = main,
         worker' \in [Workers -> WorkerRecords], OnlyWorker(w),
         worker'[w].pc \notin {"receive", "received", "sent"}, worker'[w].c \in {NoConn, worker[w].c},
         sock' \in [Conns -> SockRecords], count' \in CountRecords,
         \A c \in Conns :
           \/ sock'[c].obj = "freed" /\ sock[c].obj # "none"
           \/ /\ sock'[c].obj = sock[c].obj
              /\ sock'[c].OutstandingRecv = sock[c].OutstandingRecv + Waits(w, "received", c)
              /\ sock'[c].OutstandingSend = sock[c].OutstandingSend + Waits(w, "sent", c),
         count'.gOutstandingSends = count.gOutstandingSends + Late(w), count'.sendErrors = count.sendErrors
  PROVE  Steady' /\ Exact'
<1>0. Types /\ sock \in [Conns -> SockRecords] /\ count \in CountRecords
  BY DEF Steady, Types
<1>1. Types'
  BY <1>0 DEF Types
<1>2. WorkerMoves(w)
  BY DEF WorkerMoves
<1>3. Steady'
  BY <1>1, <1>2, SteadyWorker
<1>4. Exact'
  <2>1. PICK b : b = Null
    OBVIOUS
  <2>2. OnlyBuffer(b)
    BY DEF OnlyBuffer
  <2>3. \A op, d : Flies(b, op, d)' = Flies(b, op, d) /\ Flies(b, op, d) \in {0, 1}
    BY DEF Flies
  <2>4. \A d : /\ Waits(w, "received", d)' = 0 /\ Waits(w, "received", d) \in {0, 1}
               /\ Waits(w, "sent", d)' = 0 /\ Waits(w, "sent", d) \in {0, 1}
    BY DEF Waits
  <2>5. Sending(b)' = Sending(b) /\ Sending(b) \in {0, 1} /\ Late(w)' = 0 /\ Late(w) \in {0, 1}
    BY DEF Sending, Late
  <2>6. \A d \in Conns : sock'[d].obj # "freed" =>
                         /\ sock[d].obj # "freed"
                         /\ sock'[d].OutstandingRecv - sock[d].OutstandingRecv
                              = (Flies(b, "read", d)' - Flies(b, "read", d)) - (Waits(w, "received", d)' - Waits(w, "received", d))
                         /\ sock'[d].OutstandingSend - sock[d].OutstandingSend
                              = (Flies(b, "write", d)' - Flies(b, "write", d)) - (Waits(w, "sent", d)' - Waits(w, "sent", d))
    BY <1>0, <2>3, <2>4 DEF SockRecords
  <2>7. (count'.gOutstandingSends - count.gOutstandingSends) - (count'.sendErrors - count.sendErrors)
           = (Sending(b)' - Sending(b)) - (Late(w)' - Late(w))
    BY <1>0, <2>5 DEF CountRecords
  <2>8. QED
    BY <1>0, <2>2, <2>6, <2>7, ExactStep
<1>5. QED
  BY <1>3, <1>4

\* And those that leave the counters.
LEMMA QuietKeeps ==
  ASSUME Steady, Exact, NEW w \in Workers,
         buf' = buf, mem' = mem, peer' = peer, main' = main, sock' = sock, count' = count,
         worker' \in [Workers -> WorkerRecords], OnlyWorker(w),
         worker[w].pc \notin {"received", "sent"},
         worker'[w].pc \notin {"receive", "received", "sent"}, worker'[w].c \in {NoConn, worker[w].c}
  PROVE  Steady' /\ Exact'
<1>0. Types /\ sock \in [Conns -> SockRecords] /\ count \in CountRecords
  BY DEF Steady, Types
<1>1. \A d : Waits(w, "received", d) = 0 /\ Waits(w, "sent", d) = 0
  BY DEF Waits
<1>2. Late(w) = 0
  BY DEF Late
<1>3. \A c \in Conns : /\ sock'[c].obj = sock[c].obj
                       /\ sock'[c].OutstandingRecv = sock[c].OutstandingRecv + Waits(w, "received", c)
                       /\ sock'[c].OutstandingSend = sock[c].OutstandingSend + Waits(w, "sent", c)
  BY <1>0, <1>1 DEF SockRecords
<1>4. count'.gOutstandingSends = count.gOutstandingSends + Late(w) /\ count'.sendErrors = count.sendErrors
  BY <1>0, <1>2 DEF CountRecords
<1>5. QED
  BY <1>0, <1>3, <1>4, AloneKeeps

LEMMA QuietSteps ==
  ASSUME Steady, Exact, NEW w \in Workers,
         TestEnd(w) \/ ProcessPendingOperations(w) \/ NothingPending(w) \/ TestClosing(w)
  PROVE  Steady' /\ Exact'
<1>0. Types /\ worker \in [Workers -> WorkerRecords]
  BY DEF Steady, Types
<1>1. /\ buf' = buf /\ mem' = mem /\ peer' = peer /\ main' = main /\ sock' = sock /\ count' = count
      /\ worker[w].pc \in {"end", "test", "dequeue", "close"}
  BY DEF TestEnd, ProcessPendingOperations, NothingPending, TestClosing
<1>2. /\ worker' \in [Workers -> WorkerRecords]
      /\ \A v \in Workers : v # w => worker'[v] = worker[v]
      /\ worker'[w].pc \notin {"receive", "received", "sent"} /\ worker'[w].c \in {NoConn, worker[w].c}
  <2>1. CASE TestEnd(w)
    <3>1. PICK x \in BOOLEAN : x = NoOperation(sock, worker[w].c)
      BY DEF NoOperation
    <3>2. worker' = [worker EXCEPT ![w].pc = "test", ![w].bCleanupSocket = x]
      BY <2>1, <3>1 DEF TestEnd
    <3>3. QED
      BY <1>0, <3>2 DEF WorkerRecords
  <2>2. CASE ProcessPendingOperations(w)
    <3>1. Goto(w, "dequeue") \/ Processed(w)
      BY <2>2 DEF ProcessPendingOperations
    <3>2. CASE Goto(w, "dequeue")
      BY <1>0, <3>2 DEF Goto, WorkerRecords
    <3>3. CASE Processed(w)
      BY <1>0, <3>3, ProcessedIs
    <3>4. QED
      BY <3>1, <3>2, <3>3
  <2>3. CASE NothingPending(w)
    <3>1. Processed(w)
      BY <2>3 DEF NothingPending
    <3>2. QED
      BY <1>0, <3>1, ProcessedIs
  <2>4. CASE TestClosing(w)
    <3>1. Goto(w, "free") \/ Return(w)
      BY <2>4 DEF TestClosing
    <3>2. CASE Goto(w, "free")
      BY <1>0, <3>2 DEF Goto, WorkerRecords
    <3>3. CASE Return(w)
      BY <1>0, <3>3, Bounds DEF Return, Idle, WorkerRecords
    <3>4. QED
      BY <3>1, <3>2, <3>3
  <2>5. QED
    BY <2>1, <2>2, <2>3, <2>4
<1>3. OnlyWorker(w)
  BY <1>2 DEF OnlyWorker
<1>4. worker[w].pc \notin {"received", "sent"}
  BY <1>1
<1>5. QED
  BY <1>1, <1>2, <1>3, <1>4, QuietKeeps

LEMMA CountedIs ==
  ASSUME Types, NEW w \in Workers, Counted(w)
  PROVE  /\ worker' \in [Workers -> WorkerRecords] /\ worker'[w].pc = "test" /\ worker'[w].c = worker[w].c
         /\ OnlyWorker(w)
  BY Bounds DEF Types, Counted, WorkerRecords, OnlyWorker

LEMMA ReceivePostedKeeps ==
  ASSUME Steady, Exact, NEW w \in Workers, ReceivePosted(w)
  PROVE  Steady' /\ Exact'
<1>0. Types /\ sock \in [Conns -> SockRecords] /\ count \in CountRecords
  BY DEF Steady, Types
<1>1. PICK l : l = worker[w].lock
  OBVIOUS
<1>2. /\ buf' = buf /\ mem' = mem /\ peer' = peer /\ main' = main /\ count' = count
      /\ worker[w].pc = "received" /\ Counted(w)
      /\ sock' = [sock EXCEPT ![l].OutstandingRecv = @ + 1]
  BY <1>1 DEF ReceivePosted
<1>3. /\ worker' \in [Workers -> WorkerRecords] /\ worker'[w].pc = "test" /\ worker'[w].c = worker[w].c
      /\ OnlyWorker(w)
  BY <1>0, <1>2, CountedIs
<1>4. /\ \A d : Waits(w, "received", d) = (IF d = l THEN 1 ELSE 0) /\ Waits(w, "sent", d) = 0
      /\ Late(w) = 0
  BY <1>1, <1>2 DEF Waits, Late
<1>5. /\ sock' \in [Conns -> SockRecords]
      /\ \A c \in Conns : /\ sock'[c].obj = sock[c].obj
                          /\ sock'[c].OutstandingRecv = sock[c].OutstandingRecv + (IF c = l THEN 1 ELSE 0)
                          /\ sock'[c].OutstandingSend = sock[c].OutstandingSend
  <2>1. CASE l \in Conns
    BY <1>0, <1>2, <2>1 DEF SockRecords
  <2>2. CASE l \notin Conns
    <3>1. sock' = sock
      BY <1>0, <1>2, <2>2
    <3>2. QED
      BY <1>0, <2>2, <3>1 DEF SockRecords
  <2>3. QED
    BY <2>1, <2>2
<1>6. \A c \in Conns : /\ sock'[c].OutstandingRecv = sock[c].OutstandingRecv + Waits(w, "received", c)
                       /\ sock'[c].OutstandingSend = sock[c].OutstandingSend + Waits(w, "sent", c)
  BY <1>0, <1>4, <1>5 DEF SockRecords
<1>7. count'.gOutstandingSends = count.gOutstandingSends + Late(w) /\ count'.sendErrors = count.sendErrors
  BY <1>0, <1>2, <1>4 DEF CountRecords
<1>8. QED
  BY <1>0, <1>2, <1>3, <1>5, <1>6, <1>7, AloneKeeps

LEMMA SendPostedKeeps ==
  ASSUME Steady, Exact, NEW w \in Workers, SendPosted(w)
  PROVE  Steady' /\ Exact'
<1>0. Types /\ sock \in [Conns -> SockRecords] /\ count \in CountRecords
  BY DEF Steady, Types
<1>1. PICK l : l = worker[w].lock
  OBVIOUS
<1>2. /\ buf' = buf /\ mem' = mem /\ peer' = peer /\ main' = main
      /\ count' = [count EXCEPT !.gOutstandingSends = @ + 1]
      /\ worker[w].pc = "sent" /\ Counted(w)
      /\ sock' = [sock EXCEPT ![l].OutstandingSend = @ + 1]
  BY <1>1 DEF SendPosted
<1>3. /\ worker' \in [Workers -> WorkerRecords] /\ worker'[w].pc = "test" /\ worker'[w].c = worker[w].c
      /\ OnlyWorker(w)
  BY <1>0, <1>2, CountedIs
<1>4. /\ \A d : Waits(w, "sent", d) = (IF d = l THEN 1 ELSE 0) /\ Waits(w, "received", d) = 0
      /\ Late(w) = 1
  BY <1>1, <1>2 DEF Waits, Late
<1>5. /\ sock' \in [Conns -> SockRecords]
      /\ \A c \in Conns : /\ sock'[c].obj = sock[c].obj
                          /\ sock'[c].OutstandingSend = sock[c].OutstandingSend + (IF c = l THEN 1 ELSE 0)
                          /\ sock'[c].OutstandingRecv = sock[c].OutstandingRecv
  <2>1. CASE l \in Conns
    BY <1>0, <1>2, <2>1 DEF SockRecords
  <2>2. CASE l \notin Conns
    <3>1. sock' = sock
      BY <1>0, <1>2, <2>2
    <3>2. QED
      BY <1>0, <2>2, <3>1 DEF SockRecords
  <2>3. QED
    BY <2>1, <2>2
<1>6. \A c \in Conns : /\ sock'[c].OutstandingRecv = sock[c].OutstandingRecv + Waits(w, "received", c)
                       /\ sock'[c].OutstandingSend = sock[c].OutstandingSend + Waits(w, "sent", c)
  BY <1>0, <1>4, <1>5 DEF SockRecords
<1>7. /\ count'.gOutstandingSends = count.gOutstandingSends + Late(w) /\ count'.sendErrors = count.sendErrors
      /\ count' \in CountRecords
  BY <1>0, <1>2, <1>4 DEF CountRecords
<1>8. QED
  BY <1>0, <1>2, <1>3, <1>5, <1>6, <1>7, AloneKeeps

LEMMA CleanupSocketKeeps ==
  ASSUME Steady, Exact, NEW w \in Workers, CleanupSocket(w)
  PROVE  Steady' /\ Exact'
<1>0. /\ Types /\ sock \in [Conns -> SockRecords] /\ count \in CountRecords
      /\ worker \in [Workers -> WorkerRecords]
  BY DEF Steady, Types
<1>1. PICK c : c = worker[w].c
  OBVIOUS
<1>2. /\ buf' = buf /\ mem' = mem /\ peer' = peer /\ main' = main /\ count' = count
      /\ worker[w].pc = "free" /\ Return(w) /\ sock' = FreeSocketObj(sock, c)
  BY <1>1 DEF CleanupSocket
<1>3. /\ worker' \in [Workers -> WorkerRecords] /\ worker'[w].pc = "idle" /\ worker'[w].c = NoConn
      /\ OnlyWorker(w)
  BY <1>0, <1>2, Bounds DEF Return, Idle, WorkerRecords, OnlyWorker
<1>4. /\ \A d : Waits(w, "sent", d) = 0 /\ Waits(w, "received", d) = 0
      /\ Late(w) = 0
  BY <1>2 DEF Waits, Late
<1>5. sock' \in [Conns -> SockRecords] /\ \A d \in Conns : sock'[d] = sock[d] \/ (d = c /\ sock'[d].obj = "freed")
  <2>1. CASE c \in Conns
    BY <1>0, <1>2, <2>1, SocketFreed
  <2>2. CASE c \notin Conns
    BY <1>0, <1>2, <2>2 DEF FreeSocketObj
  <2>3. QED
    BY <2>1, <2>2
<1>6. c \in Conns => sock[c].obj # "none"
  BY <1>1, Bounds DEF Steady, Working, HasObject
<1>7. \A d \in Conns :
        \/ sock'[d].obj = "freed" /\ sock[d].obj # "none"
        \/ /\ sock'[d].obj = sock[d].obj
           /\ sock'[d].OutstandingRecv = sock[d].OutstandingRecv + Waits(w, "received", d)
           /\ sock'[d].OutstandingSend = sock[d].OutstandingSend + Waits(w, "sent", d)
  BY <1>0, <1>4, <1>5, <1>6 DEF SockRecords
<1>8. count'.gOutstandingSends = count.gOutstandingSends + Late(w) /\ count'.sendErrors = count.sendErrors
  BY <1>0, <1>2, <1>4 DEF CountRecords
<1>9. QED
  BY <1>0, <1>2, <1>3, <1>5, <1>7, <1>8, AloneKeeps
-----------------------------------------------------------------------------
(***************************************************************************)
(* The steps that no thread takes: the peers, the sweep, the main thread.  *)
(***************************************************************************)
Quiet(bs, b) == bs[b].at # "posted" \/ bs[b].operation = "accept"

\* No buffer that is read into, sent from or held changes.
Spares(bs) == \A b \in Bufs : bs[b] = buf[b] \/ (buf[b].at # "held" /\ Quiet(buf, b) /\ Quiet(bs, b))

LEMMA OthersKeep ==
  ASSUME Steady, Exact, Types', main'.pc \notin {"wild", "hung"}, Listed(mem', buf'),
         Taken(buf', peer'), InUse(buf'), worker' = worker, sock' = sock, Spares(buf'),
         count'.gOutstandingSends = count.gOutstandingSends, count'.sendErrors = count.sendErrors
  PROVE  Steady' /\ Exact'
<1>0. Types /\ sock \in [Conns -> SockRecords] /\ count \in CountRecords
  BY DEF Steady, Types
<1>1. Taken(buf, peer)' /\ InUse(buf)'
  BY DEF Taken, InUse, HasObject
<1>2. Working'
  BY DEF Steady, Working, HasObject
<1>3. Holding'
  <2>1. \A b \in Bufs : buf[b].at = "held" => buf'[b] = buf[b]
    BY DEF Spares
  <2>2. QED
    BY <2>1 DEF Steady, Holding
<1>4. Steady'
  BY <1>1, <1>2, <1>3 DEF Steady
<1>5. Exact'
  <2>1. \A op \in {"read", "write"} : \A c : InFlight(op, c)' = InFlight(op, c)
    BY DEF InFlight, Spares, Quiet
  <2>2. PostedSends' = PostedSends
    BY DEF PostedSends, Spares, Quiet
  <2>3. (\A pc, c : Uncounted(pc, c)' = Uncounted(pc, c)) /\ LateSends' = LateSends
    BY DEF Uncounted, LateSends
  <2>4. \A c \in Conns : sock'[c].obj # "freed" => Reads(c)' /\ Sends(c)'
    BY <2>1, <2>3 DEF Exact, Reads, Sends
  <2>5. Slots'
    BY <2>2, <2>3 DEF Exact, Slots
  <2>6. QED
    BY <2>4, <2>5 DEF Exact
<1>6. QED
  BY <1>4, <1>5

LEMMA MinIn ==
  ASSUME NEW S \in SUBSET Nat, S # {}
  PROVE  Min(S) \in S
<1>1. PICK k \in S : \A j \in S : k <= j
  BY Least
<1>2. QED
  BY <1>1, MinIs

LEMMA TakenAt ==
  ASSUME Types, NEW bs \in [Bufs -> BufRecords], NEW ps, Taken(bs, ps), NEW a \in Accepts(bs)
  PROVE  bs[a].c = NoConn \/ (bs[a].c \in Conns /\ ps[bs[a].c].at \in {"connected", "closed"})
  BY DEF Taken, BufRecords, Conns, NoConn, Accepts

\* The accept b takes the connection c, which none has.
PeerTaken(ps, qs, c) ==
  /\ c \in Conns /\ ps[c].at \in {"away", "backlog"} /\ qs[c].at = "connected"
  /\ \A d \in Conns : d # c => qs[d].at = ps[d].at

LEMMA Takes ==
  ASSUME Types, NEW bs, NEW cs, NEW b, BufferChanges(bs, cs, b), NEW ps, NEW qs, NEW c, PeerTaken(ps, qs, c),
         Taken(bs, ps), cs[b].c = c
  PROVE  Taken(cs, qs)
<1>0. /\ bs \in [Bufs -> BufRecords] /\ cs \in [Bufs -> BufRecords] /\ b \in Bufs
      /\ \A x \in Bufs : x # b => cs[x] = bs[x]
      /\ c \in Conns /\ ps[c].at \in {"away", "backlog"} /\ qs[c].at = "connected"
      /\ \A d \in Conns : d # c => qs[d].at = ps[d].at
  BY DEF BufferChanges, PeerTaken
<1>1. \A a \in Accepts(bs) : bs[a].c = NoConn
                             \/ (bs[a].c \in Conns /\ bs[a].c # c /\ ps[bs[a].c].at \in {"connected", "closed"})
  BY <1>0, TakenAt
<1>2. \A a \in Accepts(cs) : a = b \/ (a \in Accepts(bs) /\ cs[a] = bs[a])
  BY <1>0 DEF Accepts
<1>3. sock[c].obj = "none" /\ c # NoConn
  BY <1>0, Bounds DEF Taken
<1>4. ASSUME NEW a \in Accepts(cs), cs[a].c # NoConn
      PROVE  sock[cs[a].c].obj = "none" /\ qs[cs[a].c].at \in {"connected", "closed"}
  <2>1. CASE a = b
    BY <1>0, <1>3, <2>1
  <2>2. CASE a # b
    <3>1. a \in Accepts(bs) /\ cs[a] = bs[a]
      BY <1>2, <2>2
    <3>2. bs[a].c \in Conns /\ bs[a].c # c /\ ps[bs[a].c].at \in {"connected", "closed"}
      BY <1>1, <1>4, <3>1
    <3>3. sock[bs[a].c].obj = "none"
      BY <1>4, <3>1 DEF Taken
    <3>4. QED
      BY <1>0, <3>1, <3>2, <3>3
  <2>3. QED
    BY <2>1, <2>2
<1>5. \A a \in Accepts(cs) : cs[a].res # "none" => cs[a].c # NoConn
  BY <1>0, <1>2, <1>3 DEF Taken
<1>6. \A a, d \in Accepts(cs) : cs[a].c = cs[d].c => a = d \/ cs[a].c = NoConn
  BY <1>0, <1>1, <1>2, <1>3 DEF Taken
<1>7. \A d \in Conns : qs[d].at \in {"away", "backlog"} => sock[d].obj = "none"
  BY <1>0 DEF Taken
<1>8. QED
  BY <1>4, <1>5, <1>6, <1>7 DEF Taken

LEMMA ListedSame ==
  ASSUME NEW m, NEW bs, NEW cs, Listed(m, bs),
         \A x \in Bufs : cs[x].at = bs[x].at /\ cs[x].operation = bs[x].operation
  PROVE  Listed(m, cs)
<1>1. With(cs, "free") = With(bs, "free") /\ With(cs, "queued") = With(bs, "queued")
      /\ With(cs, "lost") = With(bs, "lost") /\ Accepts(cs) = Accepts(bs)
  BY DEF With, Accepts
<1>2. QED
  BY <1>1 DEF Listed

LEMMA ConnectKeeps ==
  ASSUME Steady, Exact, NEW c \in Conns, Connect(c)
  PROVE  Steady' /\ Exact'
<1>0. /\ Types /\ mem \in MemRecords /\ Listed(mem, buf) /\ main.pc \notin {"wild", "hung"}
      /\ buf \in [Bufs -> BufRecords] /\ peer \in [Conns -> PeerRecords] /\ count \in CountRecords
      /\ Taken(buf, peer) /\ InUse(buf)
  BY DEF Steady, Types
<1>1. peer[c].at = "away"
  <2> DEFINE S == {d \in Conns : peer[d].at = "away"} \cup {NConns + 1}
  <2>1. S \in SUBSET Nat /\ S # {} /\ NConns + 1 \notin Conns
    BY ThrottleAssumption DEF Conns
  <2>2. c = Min(S)
    BY DEF Connect
  <2> HIDE DEF S
  <2>3. c \in S
    BY <2>1, <2>2, MinIn
  <2>4. QED
    BY <2>1, <2>3 DEF S
<1>2. /\ UNCHANGED <<sock, mem, worker, main>>
      /\ \/ /\ Waiting # {} /\ buf' = [buf EXCEPT ![Min(Waiting)].c = c]
            /\ peer' = [peer EXCEPT ![c].at = "connected"] /\ count' = count
         \/ /\ peer' = [peer EXCEPT ![c].at = "backlog"]
            /\ count' = [count EXCEPT !.AcceptEvent = TRUE] /\ buf' = buf
  BY DEF Connect
<1>3. /\ count' \in CountRecords
      /\ count'.gOutstandingSends = count.gOutstandingSends /\ count'.sendErrors = count.sendErrors
  BY <1>0, <1>2 DEF CountRecords
<1>4. peer' \in [Conns -> PeerRecords] /\ \A d \in Conns : d # c => peer'[d].at = peer[d].at
  BY <1>0, <1>2 DEF PeerRecords
<1>5. CASE /\ Waiting # {} /\ buf' = [buf EXCEPT ![Min(Waiting)].c = c]
           /\ peer' = [peer EXCEPT ![c].at = "connected"]
  <2>1. PICK b \in Waiting : b = Min(Waiting)
    <3>1. Waiting \in SUBSET Nat
      BY ThrottleAssumption DEF Waiting, Bufs
    <3>2. QED
      BY <1>5, <3>1, MinIn
  <2>2. b \in Bufs /\ buf[b].at = "posted" /\ buf[b].operation = "accept"
    BY <2>1 DEF Waiting
  <2>3. /\ buf' \in [Bufs -> BufRecords]
        /\ buf'[b].at = "posted" /\ buf'[b].operation = "accept" /\ buf'[b].c = c
        /\ \A x \in Bufs : x # b => buf'[x] = buf[x]
    BY <1>0, <1>5, <2>1, <2>2, Bounds DEF BufRecords
  <2>4. Taken(buf', peer')
    <3>1. peer'[c].at = "connected"
      BY <1>0, <1>5
    <3>2. BufferChanges(buf, buf', b) /\ PeerTaken(peer, peer', c)
      BY <1>0, <1>1, <1>4, <2>2, <2>3, <3>1 DEF BufferChanges, PeerTaken
    <3>3. QED
      BY <1>0, <2>3, <3>2, Takes
  <2>5. InUse(buf')
    BY <1>0, <2>2, <2>3 DEF InUse
  <2>6. Listed(mem', buf')
    <3>1. \A x \in Bufs : buf'[x].at = buf[x].at /\ buf'[x].operation = buf[x].operation
      BY <2>2, <2>3
    <3>2. QED
      BY <1>0, <1>2, <3>1, ListedSame
  <2>7. Spares(buf')
    BY <2>2, <2>3 DEF Spares, Quiet
  <2>8. Types'
    BY <1>0, <1>2, <1>3, <1>4, <2>3 DEF Types
  <2>9. QED
    BY <1>0, <1>2, <1>3, <2>4, <2>5, <2>6, <2>7, <2>8, OthersKeep
<1>6. CASE peer' = [peer EXCEPT ![c].at = "backlog"] /\ buf' = buf
  <2>1. Taken(buf', peer')
    <3>1. \A a \in Accepts(buf) : buf[a].c = NoConn \/ (buf[a].c \in Conns /\ buf[a].c # c)
      BY <1>0, <1>1, TakenAt
    <3>2. peer'[c].at = "backlog" /\ sock[c].obj = "none"
      BY <1>0, <1>1, <1>6 DEF Taken
    <3>3. QED
      BY <1>0, <1>4, <1>6, <3>1, <3>2 DEF Taken
  <2>2. Spares(buf') /\ Listed(mem', buf') /\ InUse(buf')
    BY <1>0, <1>2, <1>6 DEF Spares
  <2>3. Types'
    BY <1>0, <1>2, <1>3, <1>4, <1>6 DEF Types
  <2>4. QED
    BY <1>0, <1>2, <1>3, <2>1, <2>2, <2>3, OthersKeep
<1>7. QED
  BY <1>2, <1>5, <1>6

LEMMA SendCloseKeep ==
  ASSUME Steady, Exact, NEW c \in Conns, Send(c) \/ Close(c)
  PROVE  Steady' /\ Exact'
<1>0. /\ Types /\ mem \in MemRecords /\ Listed(mem, buf) /\ main.pc \notin {"wild", "hung"}
      /\ buf \in [Bufs -> BufRecords] /\ peer \in [Conns -> PeerRecords] /\ count \in CountRecords
      /\ Taken(buf, peer) /\ InUse(buf)
  BY DEF Steady, Types
<1>1. UNCHANGED <<sock, buf, mem, worker, main>> /\ peer[c].at = "connected"
  BY DEF Send, Close
<1>2. /\ peer' \in [Conns -> PeerRecords]
      /\ \A d \in Conns : peer'[d].at = peer[d].at \/ (d = c /\ peer'[d].at = "closed")
  <2>1. CASE Send(c)
    <3>1. PICK o \in PeerRecords : o = peer[c]
      BY <1>0
    <3>2. PICK u, v, r : u = o.unread + 1 /\ v = o.owed + 1 /\ r = [o EXCEPT !.unread = u, !.owed = v]
      OBVIOUS
    <3>3. u \in Int /\ v \in Int
      BY <3>1, <3>2 DEF PeerRecords
    <3>4. r \in PeerRecords /\ r.at = o.at
      BY <3>3, <3>2 DEF PeerRecords
    <3>5. peer' = [peer EXCEPT ![c] = r]
      BY <1>0, <2>1, <3>1, <3>2 DEF Send
    <3>6. QED
      BY <1>0, <3>1, <3>4, <3>5
  <2>2. CASE Close(c)
    BY <1>0, <2>2 DEF Close, PeerRecords
  <2>3. QED
    BY <2>1, <2>2
<1>3. /\ count' \in CountRecords
      /\ count'.gOutstandingSends = count.gOutstandingSends /\ count'.sendErrors = count.sendErrors
  BY <1>0 DEF Send, Close, CountRecords
<1>4. Types'
  BY <1>0, <1>1, <1>2, <1>3 DEF Types
<1>5. Taken(buf', peer')
  <2>1. \A a \in Accepts(buf) : buf[a].c = NoConn \/ buf[a].c \in Conns
    BY <1>0, TakenAt
  <2>2. QED
    BY <1>0, <1>1, <1>2, <2>1 DEF Taken
<1>6. Spares(buf') /\ Listed(mem', buf') /\ InUse(buf')
  BY <1>0, <1>1 DEF Spares
<1>7. QED
  BY <1>0, <1>1, <1>3, <1>4, <1>5, <1>6, OthersKeep

LEMMA OnRepostAcceptKeeps ==
  ASSUME Steady, Exact, OnRepostAccept
  PROVE  Steady' /\ Exact'
<1>0. /\ Types /\ mem \in MemRecords /\ Listed(mem, buf)
      /\ buf \in [Bufs -> BufRecords] /\ peer \in [Conns -> PeerRecords] /\ count \in CountRecords
      /\ Taken(buf, peer) /\ InUse(buf)
  BY DEF Steady, Types
<1>1. /\ UNCHANGED <<sock, peer, buf, mem, worker>> /\ main' = [pc |-> "reset", limit |-> count.RepostCount]
      /\ count' = [count EXCEPT !.RepostCount = 0]
  BY DEF OnRepostAccept
<1>2. /\ count' \in CountRecords /\ count.RepostCount \in Nat
      /\ count'.gOutstandingSends = count.gOutstandingSends /\ count'.sendErrors = count.sendErrors
  BY <1>0, <1>1 DEF CountRecords
<1>3. Types' /\ main'.pc \notin {"wild", "hung"}
  BY <1>0, <1>1, <1>2 DEF Types
<1>4. Taken(buf', peer') /\ Spares(buf') /\ Listed(mem', buf') /\ InUse(buf')
  BY <1>0, <1>1 DEF Spares
<1>5. QED
  BY <1>1, <1>2, <1>3, <1>4, OthersKeep

LEMMA SweepKeeps ==
  ASSUME Steady, Exact, NEW stale \in SUBSET Bufs, Sweep(stale)
  PROVE  Steady' /\ Exact'
<1>0. /\ Types /\ mem \in MemRecords /\ Listed(mem, buf) /\ main.pc \notin {"wild", "hung"}
      /\ buf \in [Bufs -> BufRecords] /\ peer \in [Conns -> PeerRecords] /\ count \in CountRecords
      /\ Taken(buf, peer) /\ InUse(buf)
  BY DEF Steady, Types
<1>1. ~Endless(mem, mem.PendingAccepts)
  BY <1>0, AcceptsEnd
<1>2. /\ UNCHANGED <<sock, peer, mem, worker, main>> /\ count' = [count EXCEPT !.faults = @ - 1]
      /\ \A b \in stale : buf[b].operation = "accept" /\ buf[b].c # NoConn
  BY <1>1 DEF Sweep
<1>3. PICK completed : buf' = [b \in Bufs |-> IF b \notin stale THEN buf[b] ELSE
                                 [buf[b] EXCEPT !.res = IF b \in completed THEN "swept" ELSE "error"]]
  BY <1>1 DEF Sweep
<1>4. ASSUME NEW b \in Bufs
      PROVE  /\ buf'[b] \in BufRecords
             /\ b \notin stale => buf'[b] = buf[b]
             /\ buf'[b].at = buf[b].at /\ buf'[b].operation = buf[b].operation /\ buf'[b].c = buf[b].c
  <2>1. CASE b \notin stale
    BY <1>0, <1>3, <2>1
  <2>2. CASE b \in stale
    <3>1. PICK r \in {"swept", "error"} : buf'[b] = [buf[b] EXCEPT !.res = r]
      BY <1>3, <2>2
    <3>2. QED
      BY <1>0, <2>2, <3>1 DEF BufRecords
  <2>3. QED
    BY <2>1, <2>2
<1>5. buf' \in [Bufs -> BufRecords]
  BY <1>3, <1>4
<1>6. /\ count' \in CountRecords
      /\ count'.gOutstandingSends = count.gOutstandingSends /\ count'.sendErrors = count.sendErrors
  BY <1>0, <1>2 DEF CountRecords
<1>7. Types'
  BY <1>0, <1>2, <1>5, <1>6 DEF Types
<1>8. Taken(buf', peer')
  <2>1. Accepts(buf') = Accepts(buf)
    BY <1>4 DEF Accepts
  <2>2. \A a \in Accepts(buf) : a \in Bufs
    BY DEF Accepts
  <2>3. \A a \in Accepts(buf) : buf'[a].res # "none" => buf'[a].c # NoConn
    BY <1>0, <1>2, <1>4, <2>2 DEF Taken
  <2>4. QED
    BY <1>0, <1>2, <1>4, <2>1, <2>2, <2>3 DEF Taken
<1>9. InUse(buf')
  BY <1>0, <1>4 DEF InUse
<1>10. Listed(mem', buf')
  BY <1>0, <1>2, <1>4, ListedSame
<1>11. Spares(buf')
  <2>1. ASSUME NEW b \in stale PROVE buf[b].at # "held" /\ Quiet(buf, b) /\ Quiet(buf', b)
    BY <1>0, <1>2, <1>4 DEF InUse, Quiet
  <2>2. QED
    BY <1>4, <2>1 DEF Spares
<1>12. QED
  BY <1>0, <1>2, <1>6, <1>7, <1>8, <1>9, <1>10, <1>11, OthersKeep
-----------------------------------------------------------------------------
(***************************************************************************)
(* The main thread's loop.  Each turn leaves the lists as the threads      *)
(* expect them, so the buffer of the next one is not in use.               *)
(***************************************************************************)
TurnRecords ==
  [buf : [Bufs -> BufRecords], mem : MemRecords, peer : [Conns -> PeerRecords], count : CountRecords,
   wild : BOOLEAN]

Fits(t) ==
  /\ t \in TurnRecords /\ t.wild = FALSE
  /\ Listed(t.mem, t.buf) /\ Taken(t.buf, t.peer) /\ InUse(t.buf) /\ Spares(t.buf)

LEMMA GetBufferIs ==
  ASSUME NEW m, NEW bs, Listed(m, bs), NEW b, b = GetBufferObj(m, bs), b # Null
  PROVE  /\ b \in Bufs
         /\ \/ m.gFreeBufferList = b /\ bs[b].at = "free"
            \/ m.gFreeBufferList = Null /\ bs[b].at = "heap"
<1>1. CASE m.gFreeBufferList # Null
  BY <1>1, HeadsListed DEF GetBufferObj
<1>2. CASE m.gFreeBufferList = Null
  <2> DEFINE heap == {x \in Bufs : bs[x].at = "heap"}
  <2>1. heap # {} /\ b = Min(heap)
    BY <1>2 DEF GetBufferObj
  <2>2. heap \in SUBSET Nat
    BY ThrottleAssumption DEF Bufs
  <2>3. b \in heap
    BY <2>1, <2>2, MinIn
  <2>4. QED
    BY <1>2, <2>3
<1>3. QED
  BY <1>1, <1>2

\* The buffer the turn takes goes onto the list of the pending accepts.
LEMMA TurnLists ==
  ASSUME NEW m \in MemRecords, NEW bs, NEW cs, NEW b, BufferChanges(bs, cs, b), Listed(m, bs),
         b = GetBufferObj(m, bs), b # Null,
         cs[b].at = "lost" \/ (cs[b].at = "posted" /\ cs[b].operation = "accept")
  PROVE  /\ Listed(InsertPendingAccept(WithoutFirst(m), b), cs)
         /\ InsertPendingAccept(WithoutFirst(m), b) \in MemRecords
         /\ bs[b].at \in {"heap", "free"}
<1>1. /\ b \in Bufs
      /\ \/ m.gFreeBufferList = b /\ bs[b].at = "free"
         \/ m.gFreeBufferList = Null /\ bs[b].at = "heap"
  BY GetBufferIs
<1>2. PICK ds : /\ BufferChanges(bs, ds, b) /\ BufferChanges(ds, cs, b) /\ InUseOnly(ds, b)
                /\ Listed(WithoutFirst(m), ds) /\ WithoutFirst(m) \in MemRecords
  <2>1. CASE m.gFreeBufferList = b
    <3>1. PICK ds : ds = [bs EXCEPT ![b] = Blank]
      OBVIOUS
    <3>2. /\ ds \in [Bufs -> BufRecords] /\ ds[b].at = "heap" /\ ds[b].operation = "none"
          /\ \A x \in Bufs : x # b => ds[x] = bs[x]
      <4>1. Blank \in BufRecords /\ Blank.at = "heap" /\ Blank.operation = "none"
        BY Bounds DEF Blank, BufRecords
      <4>2. QED
        BY <1>1, <3>1, <4>1 DEF BufferChanges
    <3>3. BufferChanges(bs, ds, b) /\ BufferChanges(ds, cs, b) /\ InUseOnly(ds, b)
      BY <1>1, <3>2 DEF BufferChanges, InUseOnly, Accepts
    <3>4. QED
      BY <2>1, <3>3, FreePopped
  <2>2. CASE m.gFreeBufferList = Null /\ bs[b].at = "heap"
    BY <1>1, <2>2 DEF WithoutFirst, InUseOnly, Accepts, BufferChanges
  <2>3. QED
    BY <1>1, <2>1, <2>2
<1>3. QED
  BY <1>1, <1>2, UsedInserted

\* What a buffer's turn does to what the buffers are used for.
LEMMA TurnUses ==
  ASSUME NEW bs, NEW cs, NEW b, BufferChanges(bs, cs, b), InUse(bs), Spares(bs), bs[b].at \in {"heap", "free"},
         (cs[b].at = "lost" /\ cs[b].operation = "none") \/ (cs[b].at = "posted" /\ cs[b].operation = "accept")
  PROVE  InUse(cs) /\ Spares(cs)
<1>1. \A x \in Bufs : x # b => cs[x] = bs[x]
  BY DEF BufferChanges
<1>2. InUse(cs)
  BY <1>1 DEF InUse
<1>3. \A x \in Bufs : x # b => (cs[x] = buf[x] \/ (buf[x].at # "held" /\ Quiet(buf, x) /\ Quiet(cs, x)))
  BY <1>1 DEF Spares, Quiet
<1>4. buf[b].at # "held" /\ Quiet(buf, b) /\ Quiet(cs, b)
  BY DEF Spares, Quiet, BufferChanges
<1>5. QED
  BY <1>2, <1>3, <1>4 DEF Spares

LEMMA TurnFits ==
  ASSUME Types, NEW t, Fits(t), NEW fails \in BOOLEAN
  PROVE  Fits(PostAccept(t, fails))
<1>0. PICK bs, ms, ps, cnt :
        /\ bs = t.buf /\ ms = t.mem /\ ps = t.peer /\ cnt = t.count
  OBVIOUS
<1>1. /\ t \in TurnRecords /\ t.wild = FALSE
      /\ bs \in [Bufs -> BufRecords] /\ ms \in MemRecords /\ ps \in [Conns -> PeerRecords] /\ cnt \in CountRecords
      /\ Listed(ms, bs) /\ Taken(bs, ps) /\ InUse(bs) /\ Spares(bs)
  BY <1>0 DEF Fits, TurnRecords
<1>2. PICK b : b = GetBufferObj(ms, bs)
  OBVIOUS
<1>3. PICK m : m = InsertPendingAccept(WithoutFirst(ms), b)
  OBVIOUS
<1>4. PICK waiting : waiting = {x \in Conns : ps[x].at = "backlog"}
  OBVIOUS
<1>5. PICK c : c = IF waiting = {} THEN NoConn ELSE Min(waiting)
  OBVIOUS
<1>6. PostAccept(t, fails) =
        IF b = Null THEN t
        ELSE IF bs[b].at \notin {"heap", "free"} THEN [t EXCEPT !.wild = TRUE]
        ELSE IF fails THEN [t EXCEPT !.mem = m, !.buf[b] = [Blank EXCEPT !.at = "lost"],
                                     !.count.faults = @ - 1]
        ELSE [t EXCEPT !.mem = m,
                       !.buf[b] = [Blank EXCEPT !.at = "posted", !.operation = "accept", !.c = c],
                       !.peer = IF c = NoConn THEN @ ELSE [@ EXCEPT ![c].at = "connected"],
                       !.count.PendingAcceptCount = @ + 1]
  BY <1>0, <1>2, <1>3, <1>4, <1>5 DEF PostAccept
<1>7. c = NoConn \/ (c \in Conns /\ ps[c].at = "backlog")
  <2>1. waiting \in SUBSET Nat
    BY <1>4, ThrottleAssumption DEF Conns
  <2>2. waiting # {} => Min(waiting) \in waiting
    BY <2>1, MinIn
  <2>3. QED
    BY <1>4, <1>5, <2>2
<1>8. b # Null => b \in Bufs /\ bs[b].at \in {"heap", "free"}
  BY <1>1, <1>2, GetBufferIs
<1>9. CASE b = Null
  BY <1>6, <1>9
<1>10. CASE b # Null /\ fails
  <2>1. PICK o, cs, f : o = [Blank EXCEPT !.at = "lost"] /\ cs = [bs EXCEPT ![b] = o] /\ f = cnt.faults - 1
    OBVIOUS
  <2>2. o \in BufRecords /\ o.at = "lost" /\ o.operation = "none"
    BY <2>1, Bounds DEF BufRecords, Blank
  <2>3. cs \in [Bufs -> BufRecords] /\ cs[b] = o /\ BufferChanges(bs, cs, b)
    BY <1>1, <1>8, <1>10, <2>1, <2>2 DEF BufferChanges
  <2>4. Listed(m, cs) /\ m \in MemRecords
    BY <1>1, <1>2, <1>3, <1>10, <2>2, <2>3, TurnLists
  <2>5. InUse(cs) /\ Spares(cs)
    BY <1>1, <1>8, <1>10, <2>2, <2>3, TurnUses
  <2>6. Taken(cs, ps)
    <3>1. \A a \in Accepts(cs) : a \in Accepts(bs) /\ cs[a] = bs[a]
      BY <2>2, <2>3 DEF Accepts, BufferChanges
    <3>2. QED
      BY <1>1, <3>1 DEF Taken
  <2>7. PICK n : n = [cnt EXCEPT !.faults = f]
    OBVIOUS
  <2>8. n \in CountRecords
    <3>1. f \in Int
      BY <1>1, <2>1 DEF CountRecords
    <3>2. QED
      BY <1>1, <2>7, <3>1 DEF CountRecords
  <2>9. PostAccept(t, fails) = [t EXCEPT !.mem = m, !.buf = cs, !.count = n]
    BY <1>0, <1>1, <1>6, <1>8, <1>10, <2>1, <2>7 DEF TurnRecords
  <2>10. PICK r : r = [t EXCEPT !.mem = m, !.buf = cs, !.count = n]
    OBVIOUS
  <2>11. /\ r \in TurnRecords /\ r.wild = FALSE
         /\ r.mem = m /\ r.buf = cs /\ r.count = n /\ r.peer = ps
    BY <1>0, <1>1, <2>3, <2>4, <2>8, <2>10 DEF TurnRecords
  <2>12. QED
    BY <1>0, <2>4, <2>5, <2>6, <2>8, <2>9, <2>10, <2>11 DEF Fits
<1>11. CASE b # Null /\ ~fails
  <2>1. PICK o, cs, i, qs :
          /\ o = [Blank EXCEPT !.at = "posted", !.operation = "accept", !.c = c]
          /\ cs = [bs EXCEPT ![b] = o] /\ i = cnt.PendingAcceptCount + 1
          /\ qs = IF c = NoConn THEN ps ELSE [ps EXCEPT ![c].at = "connected"]
    OBVIOUS
  <2>2. /\ o \in BufRecords /\ o.at = "posted" /\ o.operation = "accept" /\ o.c = c /\ o.res = "none"
    BY <1>7, <2>1, Bounds DEF BufRecords, Blank
  <2>3. cs \in [Bufs -> BufRecords] /\ cs[b] = o /\ BufferChanges(bs, cs, b)
    BY <1>1, <1>8, <1>11, <2>1, <2>2 DEF BufferChanges
  <2>4. Listed(m, cs) /\ m \in MemRecords
    BY <1>1, <1>2, <1>3, <1>11, <2>2, <2>3, TurnLists
  <2>5. InUse(cs) /\ Spares(cs)
    BY <1>1, <1>8, <1>11, <2>2, <2>3, TurnUses
  <2>6. Taken(cs, qs) /\ qs \in [Conns -> PeerRecords]
    <3>1. CASE c = NoConn
      <4>1. qs = ps
        BY <2>1, <3>1
      <4>2. \A a \in Accepts(cs) : a = b \/ (a \in Accepts(bs) /\ cs[a] = bs[a])
        BY <2>3 DEF Accepts, BufferChanges
      <4>3. cs[b].c = NoConn /\ cs[b].res = "none"
        BY <2>2, <2>3, <3>1
      <4>4. QED
        BY <1>1, <4>1, <4>2, <4>3 DEF Taken
    <3>2. CASE c # NoConn
      <4>1. qs \in [Conns -> PeerRecords] /\ PeerTaken(ps, qs, c)
        BY <1>1, <1>7, <2>1, <3>2 DEF PeerRecords, PeerTaken
      <4>2. QED
        BY <1>1, <2>2, <2>3, <4>1, Takes
    <3>3. QED
      BY <3>1, <3>2
  <2>7. PICK n : n = [cnt EXCEPT !.PendingAcceptCount = i]
    OBVIOUS
  <2>8. n \in CountRecords
    <3>1. i \in Int
      BY <1>1, <2>1 DEF CountRecords
    <3>2. QED
      BY <1>1, <2>7, <3>1 DEF CountRecords
  <2>9. PostAccept(t, fails) = [t EXCEPT !.mem = m, !.buf = cs, !.peer = qs, !.count = n]
    BY <1>0, <1>1, <1>6, <1>8, <1>11, <2>1, <2>7 DEF TurnRecords
  <2>10. PICK r : r = [t EXCEPT !.mem = m, !.buf = cs, !.peer = qs, !.count = n]
    OBVIOUS
  <2>11. /\ r \in TurnRecords /\ r.wild = FALSE
         /\ r.mem = m /\ r.buf = cs /\ r.count = n /\ r.peer = qs
    BY <1>0, <1>1, <2>3, <2>4, <2>6, <2>8, <2>10 DEF TurnRecords
  <2>12. QED
    BY <1>0, <2>4, <2>5, <2>6, <2>8, <2>9, <2>10, <2>11 DEF Fits
<1>12. QED
  BY <1>9, <1>10, <1>11

(***************************************************************************)
(* The turns of the loop.                                                  *)
(***************************************************************************)
NextTurn(t, k, unlimited, bad) ==
  IF unlimited \/ t.count.PendingAcceptCount < gMaxAccepts THEN PostAccept(t, k = bad) ELSE t

AreTurns(turn, n, unlimited, bad) ==
  turn = [k \in 0..n |-> IF k = 0 THEN State ELSE NextTurn(turn[k-1], k, unlimited, bad)]

LEMMA TurnsExist ==
  ASSUME NEW limit \in Nat, NEW unlimited, NEW bad
  PROVE  \E turn : AreTurns(turn, limit, unlimited, bad)
<1> DEFINE without == {n \in Nat : ~ \E turn : AreTurns(turn, n, unlimited, bad)}
<1>1. CASE without = {}
  BY <1>1
<1>2. CASE without # {}
  <2>1. PICK n \in without : \A j \in without : n <= j
    BY <1>2, Least
  <2>2. CASE n = 0
    <3>1. PICK turn : turn = [k \in 0..0 |-> State]
      OBVIOUS
    <3>2. [k \in 0..0 |-> IF k = 0 THEN State ELSE NextTurn(turn[k-1], k, unlimited, bad)] = turn
      BY <3>1
    <3>3. AreTurns(turn, 0, unlimited, bad)
      BY <3>2 DEF AreTurns
    <3>4. QED
      BY <2>1, <2>2, <3>3
  <2>3. CASE n # 0
    <3>1. PICK p \in Nat : p = n - 1
      BY <2>1, <2>3
    <3>2. PICK before : AreTurns(before, p, unlimited, bad)
      BY <2>1, <3>1
    <3>3. PICK last : last = NextTurn(before[p], n, unlimited, bad)
      OBVIOUS
    <3>4. PICK turn : turn = [k \in 0..n |-> IF k = n THEN last ELSE before[k]]
      OBVIOUS
    <3>5. \A k \in 0..p : before[k] = IF k = 0 THEN State ELSE NextTurn(before[k-1], k, unlimited, bad)
      BY <3>2 DEF AreTurns
    <3>6. /\ turn[n] = last /\ \A k \in 0..p : turn[k] = before[k]
      BY <2>1, <3>1, <3>4
    <3>7. \A k \in 0..n : turn[k] = IF k = 0 THEN State ELSE NextTurn(turn[k-1], k, unlimited, bad)
      <4>1. ASSUME NEW k \in 0..n, k = 0 PROVE turn[k] = State
        BY <2>1, <3>1, <3>5, <3>6, <4>1
      <4>2. ASSUME NEW k \in 0..n, k # 0, k # n PROVE turn[k] = NextTurn(turn[k-1], k, unlimited, bad)
        <5>1. k \in 0..p /\ k - 1 \in 0..p
          BY <2>1, <3>1, <4>2
        <5>2. QED
          BY <3>5, <3>6, <4>2, <5>1
      <4>3. ASSUME NEW k \in 0..n, k = n PROVE turn[k] = NextTurn(turn[k-1], k, unlimited, bad)
        <5>1. k - 1 = p /\ p \in 0..p
          BY <3>1, <4>3
        <5>2. turn[p] = before[p]
          BY <3>6, <5>1
        <5>3. QED
          BY <3>3, <3>6, <4>3, <5>1, <5>2
      <4>4. QED
        BY <4>1, <4>2, <4>3
    <3>8. AreTurns(turn, n, unlimited, bad)
      BY <3>4, <3>7 DEF AreTurns
    <3>9. QED
      BY <2>1, <3>8
  <2>4. QED
    BY <2>2, <2>3
<1>3. QED
  BY <1>1, <1>2

LEMMA StateFits ==
  ASSUME Steady
  PROVE  Fits(State)
<1>1. /\ mem \in MemRecords /\ buf \in [Bufs -> BufRecords] /\ peer \in [Conns -> PeerRecords]
      /\ count \in CountRecords
      /\ Listed(mem, buf) /\ Taken(buf, peer) /\ InUse(buf) /\ Spares(buf)
  BY DEF Steady, Types, Spares
<1>2. PICK t : t = [buf |-> buf, mem |-> mem, peer |-> peer, count |-> count, wild |-> FALSE]
  OBVIOUS
<1>3. /\ t \in TurnRecords /\ t.buf = buf /\ t.mem = mem /\ t.peer = peer /\ t.wild = FALSE
  BY <1>1, <1>2 DEF TurnRecords
<1>4. Fits(t)
  BY <1>1, <1>3 DEF Fits
<1>5. QED
  BY <1>2, <1>4 DEF State

LEMMA TurnsFit ==
  ASSUME Steady, NEW limit \in Nat, NEW unlimited, NEW bad
  PROVE  Fits(PostAccepts(limit, unlimited, bad))
<1> DEFINE step(f) == [k \in 0..limit |-> IF k = 0 THEN State ELSE NextTurn(f[k-1], k, unlimited, bad)]
           turn == CHOOSE f : f = step(f)
<1>1. PostAccepts(limit, unlimited, bad) = turn[limit]
  BY DEF PostAccepts, NextTurn
<1>2. turn = step(turn)
  <2>1. PICK f : AreTurns(f, limit, unlimited, bad)
    BY TurnsExist
  <2>2. f = step(f)
    BY <2>1 DEF AreTurns
  <2> HIDE DEF step
  <2>3. QED
    BY <2>2
<1>3. /\ turn[0] = State
      /\ \A k \in 0..limit : k # 0 => turn[k] = NextTurn(turn[k-1], k, unlimited, bad)
  <2> HIDE DEF turn
  <2>1. QED
    BY <1>2
<1> HIDE DEF turn, step
<1>4. ASSUME NEW k \in 0..limit, ~Fits(turn[k]) PROVE FALSE
  <2> DEFINE unfit == {i \in 0..limit : ~Fits(turn[i])}
  <2>1. PICK i \in unfit : \A j \in unfit : i <= j
    <3>1. unfit \in SUBSET Nat /\ unfit # {}
      BY <1>4
    <3> HIDE DEF unfit
    <3>2. QED
      BY <3>1, Least
  <2>2. i # 0
    BY <1>3, <2>1, StateFits
  <2>3. i - 1 \in 0..limit /\ Fits(turn[i-1])
    BY <2>1, <2>2
  <2>4. PICK t : t = turn[i-1]
    OBVIOUS
  <2>5. PICK fails \in BOOLEAN : fails = (i = bad)
    OBVIOUS
  <2>6. NextTurn(t, i, unlimited, bad) = PostAccept(t, fails) \/ NextTurn(t, i, unlimited, bad) = t
    BY <2>5 DEF NextTurn
  <2>7. Fits(PostAccept(t, fails)) /\ Fits(t)
    BY <2>3, <2>4, TurnFits DEF Steady
  <2>8. turn[i] = NextTurn(t, i, unlimited, bad)
    BY <1>3, <2>1, <2>2, <2>4
  <2>9. Fits(turn[i])
    BY <2>6, <2>7, <2>8
  <2>10. QED
    BY <2>1, <2>9
<1>5. limit \in 0..limit
  OBVIOUS
<1>6. QED
  BY <1>1, <1>4, <1>5

LEMMA PostingKeeps ==
  ASSUME Steady, Exact, NEW limit \in Nat, NEW unlimited, NEW n \in CountRecords,
         n.gOutstandingSends = count.gOutstandingSends, n.sendErrors = count.sendErrors,
         Posting(limit, unlimited, n)
  PROVE  Steady' /\ Exact'
<1>0. PICK bad : \E t \in {PostAccepts(limit, unlimited, bad)} :
        /\ buf' = t.buf /\ mem' = t.mem /\ peer' = t.peer
        /\ count' = [n EXCEPT !.PendingAcceptCount = t.count.PendingAcceptCount, !.faults = t.count.faults]
        /\ main' = [pc |-> IF t.wild THEN "wild" ELSE "wait", limit |-> 0]
        /\ worker' = IF t.wild THEN [w \in Workers |-> [Idle EXCEPT !.pc = "stopped"]] ELSE worker
        /\ sock' = sock
  BY DEF Posting
<1>1. PICK u : u = PostAccepts(limit, unlimited, bad)
  OBVIOUS
<1>2. Fits(u)
  BY <1>1, TurnsFit
<1>3. PICK t : /\ Fits(t) /\ buf' = t.buf /\ mem' = t.mem /\ peer' = t.peer
               /\ count' = [n EXCEPT !.PendingAcceptCount = t.count.PendingAcceptCount, !.faults = t.count.faults]
               /\ main' = [pc |-> IF t.wild THEN "wild" ELSE "wait", limit |-> 0]
               /\ worker' = IF t.wild THEN [w \in Workers |-> [Idle EXCEPT !.pc = "stopped"]] ELSE worker
               /\ sock' = sock
  BY <1>0, <1>1, <1>2
<1>4. /\ t.wild = FALSE /\ t.count \in CountRecords
      /\ buf' \in [Bufs -> BufRecords] /\ mem' \in MemRecords /\ peer' \in [Conns -> PeerRecords]
      /\ Listed(mem', buf') /\ Taken(buf', peer') /\ InUse(buf') /\ Spares(buf')
  BY <1>3 DEF Fits, TurnRecords
<1>5. /\ count' \in CountRecords
      /\ count'.gOutstandingSends = count.gOutstandingSends /\ count'.sendErrors = count.sendErrors
  <2>1. PICK p, f : p = t.count.PendingAcceptCount /\ f = t.count.faults
    OBVIOUS
  <2>2. p \in Int /\ f \in Int
    BY <1>4, <2>1 DEF CountRecords
  <2>3. count' = [n EXCEPT !.PendingAcceptCount = p, !.faults = f]
    BY <1>3, <2>1
  <2>4. QED
    BY <2>2, <2>3 DEF CountRecords
<1>6. main'.pc = "wait" /\ main'.limit \in Nat /\ worker' = worker /\ sock' = sock
  BY <1>3, <1>4
<1>7. Types'
  BY <1>4, <1>5, <1>6 DEF Steady, Types
<1>8. main'.pc \notin {"wild", "hung"}
  BY <1>6
<1>9. QED
  BY <1>4, <1>5, <1>6, <1>7, <1>8, OthersKeep

LEMMA MainKeeps ==
  ASSUME Steady, Exact, MainThread
  PROVE  Steady' /\ Exact'
<1>0. /\ count \in CountRecords /\ main.limit \in Nat
      /\ gInitialAccepts \in Nat /\ BURST_ACCEPT_COUNT \in Nat
  BY ThrottleAssumption DEF Steady, Types
<1>1. CASE Start
  <2>1. Posting(gInitialAccepts, TRUE, count)
    BY <1>1 DEF Start
  <2>2. QED
    BY <1>0, <2>1, PostingKeeps
<1>2. CASE OnAcceptEvent
  <2>1. PICK n : n = [count EXCEPT !.AcceptEvent = FALSE]
    OBVIOUS
  <2>2. /\ n \in CountRecords
        /\ n.gOutstandingSends = count.gOutstandingSends /\ n.sendErrors = count.sendErrors
    BY <1>0, <2>1 DEF CountRecords
  <2>3. Posting(BURST_ACCEPT_COUNT, FALSE, n)
    BY <1>2, <2>1 DEF OnAcceptEvent
  <2>4. QED
    BY <1>0, <2>2, <2>3, PostingKeeps
<1>3. CASE OnRepostAccept
  BY <1>3, OnRepostAcceptKeeps
<1>4. CASE ResetRepostAccept
  <2>1. PICK n : n = [count EXCEPT !.RepostAccept = FALSE]
    OBVIOUS
  <2>2. /\ n \in CountRecords
        /\ n.gOutstandingSends = count.gOutstandingSends /\ n.sendErrors = count.sendErrors
    BY <1>0, <2>1 DEF CountRecords
  <2>3. Posting(main.limit, FALSE, n)
    BY <1>4, <2>1 DEF ResetRepostAccept
  <2>4. QED
    BY <1>0, <2>2, <2>3, PostingKeeps
<1>5. QED
  BY <1>1, <1>2, <1>3, <1>4 DEF MainThread
-----------------------------------------------------------------------------
(***************************************************************************)
(* Until an accept fails, which is not undone, the lists and the counters  *)
(* are right.                                                              *)
(***************************************************************************)
ErrorsCounted == "acceptErrors" \in DOMAIN count /\ count.acceptErrors \in Nat

CountedInv == ErrorsCounted /\ (count.acceptErrors = 0 => Steady /\ Exact)

ErrorsStay == ErrorsCounted' /\ count'.acceptErrors >= count.acceptErrors

LEMMA PostingErrors ==
  ASSUME ErrorsCounted, NEW limit, NEW unlimited, NEW n, "acceptErrors" \in DOMAIN n,
         n.acceptErrors = count.acceptErrors, Posting(limit, unlimited, n)
  PROVE  ErrorsStay
<1>1. PICK p, f : count' = [n EXCEPT !.PendingAcceptCount = p, !.faults = f]
  BY DEF Posting
<1>2. QED
  BY <1>1 DEF ErrorsStay, ErrorsCounted

LEMMA ErrorsNeverFewer ==
  ASSUME ErrorsCounted, Next
  PROVE  ErrorsStay
<1> USE DEF ErrorsStay, ErrorsCounted
<1>1. ASSUME NEW w \in Workers, HandleIo(w) PROVE ErrorsStay
  <2>1. ASSUME NEW b \in Bufs, AcceptError(w, b) PROVE ErrorsStay
    BY <2>1 DEF AcceptError
  <2>2. ASSUME NEW b \in Bufs, HandleAccept(w, b) PROVE ErrorsStay
    <3>1. count' = count \/ count' = Repost(OneAcceptLess(0))
      BY <2>2 DEF HandleAccept
    <3>2. CASE count' = count
      BY <3>2
    <3>3. CASE count' = Repost(OneAcceptLess(0))
      <4>1. PICK n : n = OneAcceptLess(0)
        OBVIOUS
      <4>2. "acceptErrors" \in DOMAIN n /\ n.acceptErrors = count.acceptErrors
        BY <4>1 DEF OneAcceptLess
      <4>3. PICK k : count' = [n EXCEPT !.RepostCount = k, !.RepostAccept = TRUE]
        BY <3>3, <4>1 DEF Repost
      <4>4. QED
        BY <4>2, <4>3
    <3>4. QED
      BY <3>1, <3>2, <3>3
  <2>3. ASSUME NEW b \in Bufs, AcceptWithoutPort(w, b) PROVE ErrorsStay
    BY <2>3 DEF AcceptWithoutPort, OneAcceptLess
  <2>4. ASSUME NEW b \in Bufs, AcceptWithoutObject(w, b) PROVE ErrorsStay
    BY <2>4 DEF AcceptWithoutObject, Repost, OneAcceptLess
  <2>5. ASSUME NEW b \in Bufs, ReadOrWriteError(w, b) PROVE ErrorsStay
    BY <2>5 DEF ReadOrWriteError
  <2>6. ASSUME NEW b \in Bufs, HandleRead(w, b) \/ HandleEnd(w, b) \/ PostSend(w, b) PROVE ErrorsStay
    BY <2>6 DEF HandleRead, HandleEnd, PostSend
  <2>7. ASSUME NEW b \in Bufs, HandleWrite(w, b) PROVE ErrorsStay
    BY <2>7 DEF HandleWrite
  <2>8. ASSUME NEW b \in Bufs, PostSendFails(w, b) PROVE ErrorsStay
    BY <2>8 DEF PostSendFails
  <2>9. ASSUME \/ TestEnd(w) \/ PostRecv(w) \/ ReceivePosted(w) \/ ProcessPendingOperations(w)
               \/ NothingPending(w) \/ TestClosing(w) \/ CleanupSocket(w)
        PROVE  ErrorsStay
    BY <2>9
     
       
         
           
             
               
                 
                   
                     
                       
                         
                           
                             
                               
                                 
                                   
                                     
                                       
                                         
                                           
                                             
                                               
                                                 
                                                   
                                                     
                                                       
                                                         
                                                           
                                                             
                                                               
                                                                 
                                                                   
                                                                     
                                                                       
                                                                         
                                                                           
                                                                             
                                                                               
                                                                                 
                                                                                   
                                                                                     
                                                                                       
                                                                                         
                                                                                           
                                                                                             
                                                                                               
                                                                                                 
                                                                                                    DEF TestEnd, PostRecv, ReceivePosted, ProcessPendingOperations, NothingPending, TestClosing, CleanupSocket
  <2>10. ASSUME PostRecvFails(w) \/ SendPosted(w) PROVE ErrorsStay
    BY <2>10 DEF PostRecvFails, SendPosted
  <2>11. QED
    BY <1>1, <2>1, <2>2, <2>3, <2>4, <2>5, <2>6, <2>7, <2>8, <2>9, <2>10 DEF HandleIo
<1>2. ASSUME MainThread PROVE ErrorsStay
  <2>1. CASE Start
    BY <2>1, PostingErrors DEF Start
  <2>2. CASE OnAcceptEvent
    <3>1. PICK n : n = [count EXCEPT !.AcceptEvent = FALSE]
      OBVIOUS
    <3>2. Posting(BURST_ACCEPT_COUNT, FALSE, n)
      BY <2>2, <3>1 DEF OnAcceptEvent
    <3>3. QED
      BY <3>1, <3>2, PostingErrors
  <2>3. CASE OnRepostAccept
    BY <2>3 DEF OnRepostAccept
  <2>4. CASE ResetRepostAccept
    <3>1. PICK n : n = [count EXCEPT !.RepostAccept = FALSE]
      OBVIOUS
    <3>2. Posting(main.limit, FALSE, n)
      BY <2>4, <3>1 DEF ResetRepostAccept
    <3>3. "acceptErrors" \in DOMAIN n /\ n.acceptErrors = count.acceptErrors
      BY <3>1
    <3>4. PICK p, f : count' = [n EXCEPT !.PendingAcceptCount = p, !.faults = f]
      BY <3>2 DEF Posting
    <3>5. QED
      BY <3>3, <3>4
  <2>5. QED
    BY <1>2, <2>1, <2>2, <2>3, <2>4 DEF MainThread
<1>3. ASSUME NEW stale \in SUBSET Bufs, Sweep(stale) PROVE ErrorsStay
  <2>1. count' = count \/ count' = [count EXCEPT !.faults = @ - 1]
    BY <1>3 DEF Sweep
  <2>2. QED
    BY <2>1
<1>4. ASSUME NEW c \in Conns, Connect(c) \/ Send(c) \/ Close(c) PROVE ErrorsStay
  <2>1. count' = count \/ count' = [count EXCEPT !.AcceptEvent = TRUE] \/ count' = [count EXCEPT !.sent = @ + 1]
    BY <1>4 DEF Connect, Send, Close
  <2>2. QED
    BY <2>1
<1>5. QED
  BY <1>1, <1>2, <1>3, <1>4 DEF Next, Peers

LEMMA WorkerKeeps ==
  ASSUME Steady, Exact, NEW w \in Workers, HandleIo(w), \A b \in Bufs : ~AcceptError(w, b)
  PROVE  Steady' /\ Exact'
<1>1. ASSUME NEW b \in Bufs,
             \/ HandleAccept(w, b) \/ AcceptWithoutPort(w, b) \/ AcceptWithoutObject(w, b)
             \/ ReadOrWriteError(w, b) \/ HandleRead(w, b) \/ HandleEnd(w, b)
             \/ HandleWrite(w, b) \/ PostSend(w, b) \/ PostSendFails(w, b)
      PROVE  Steady' /\ Exact'
  BY <1>1, HandleAcceptKeeps, AcceptWithoutPortKeeps, AcceptWithoutObjectKeeps,
      ReadOrWriteErrorKeeps,
     HandleReadKeeps, HandleEndKeeps, HandleWriteKeeps, PostSendKeeps, PostSendFailsKeeps
<1>2. ASSUME \/ TestEnd(w) \/ PostRecv(w) \/ PostRecvFails(w) \/ ReceivePosted(w)
             \/ ProcessPendingOperations(w) \/ NothingPending(w) \/ SendPosted(w)
             \/ TestClosing(w) \/ CleanupSocket(w)
      PROVE  Steady' /\ Exact'
  BY <1>2, QuietSteps, PostRecvKeeps, PostRecvFailsKeeps, ReceivePostedKeeps, SendPostedKeeps,
      CleanupSocketKeeps
<1>3. QED
  BY <1>1, <1>2 DEF HandleIo

LEMMA NextKeeps ==
  ASSUME CountedInv, Next
  PROVE  CountedInv'
<1>1. ErrorsStay
  BY ErrorsNeverFewer DEF CountedInv
<1>2. ASSUME count'.acceptErrors = 0 PROVE Steady' /\ Exact'
  <2>1. count.acceptErrors = 0 /\ Steady /\ Exact
    BY <1>1, <1>2 DEF ErrorsStay, CountedInv, ErrorsCounted
  <2>2. \A w \in Workers : \A b \in Bufs : ~AcceptError(w, b)
    <3>1. ASSUME NEW w \in Workers, NEW b \in Bufs, AcceptError(w, b) PROVE FALSE
      <4>1. count' = [count EXCEPT !.faults = @ - Spent(b), !.acceptErrors = @ + 1]
        BY <3>1 DEF AcceptError
      <4>2. count'.acceptErrors = 1
        BY <2>1, <4>1 DEF CountedInv, ErrorsCounted
      <4>3. QED
        BY <1>2, <4>2
    <3>2. QED
      BY <3>1
  <2>3. CASE \E w \in Workers : HandleIo(w)
    BY <2>1, <2>2, <2>3, WorkerKeeps
  <2>4. CASE MainThread
    BY <2>1, <2>4, MainKeeps
  <2>5. CASE \E stale \in SUBSET Bufs : Sweep(stale)
    BY <2>1, <2>5, SweepKeeps
  <2>6. CASE Peers
    BY <2>1, <2>6, ConnectKeeps, SendCloseKeep DEF Peers
  <2>7. QED
    BY <2>3, <2>4, <2>5, <2>6 DEF Next
<1>3. QED
  BY <1>1, <1>2 DEF CountedInv, ErrorsStay

LEMMA StuttersKeep ==
  ASSUME CountedInv, UNCHANGED vars
  PROVE  CountedInv'
<1>1. UNCHANGED <<sock, peer, buf, mem, worker, main, count>>
  BY DEF vars
<1>2. ASSUME Steady, Exact PROVE Steady' /\ Exact'
  <2>1. Types' /\ main'.pc \notin {"wild", "hung"}
    BY <1>1, <1>2 DEF Steady, Types
  <2>2. Listed(mem', buf') /\ Taken(buf', peer') /\ InUse(buf') /\ Spares(buf')
    BY <1>1, <1>2 DEF Steady, Spares
  <2>3. QED
    BY <1>1, <1>2, <2>1, <2>2, OthersKeep
<1>3. QED
  BY <1>1, <1>2 DEF CountedInv, ErrorsCounted

LEMMA InitCounted ==
  ASSUME Init
  PROVE  CountedInv
<1>1. count.acceptErrors = 0 /\ ErrorsCounted
  BY DEF Init, ErrorsCounted
<1>2. /\ buf \in [Bufs -> BufRecords] /\ \A b \in Bufs : buf[b] = Blank
      /\ \A b \in Bufs : buf[b].at = "heap" /\ buf[b].operation = "none"
  BY Bounds DEF Init, Blank, BufRecords
<1>3. mem \in MemRecords
  BY Bounds DEF Init, MemRecords
<1>4. worker \in [Workers -> WorkerRecords] /\ \A w \in Workers : worker[w].pc = "idle" /\ worker[w].c = NoConn
  BY Bounds DEF Init, Idle, WorkerRecords
<1>5. sock \in [Conns -> SockRecords] /\ peer \in [Conns -> PeerRecords]
      /\ \A c \in Conns : sock[c].obj = "none" /\ sock[c].OutstandingRecv = 0 /\ sock[c].OutstandingSend = 0
  BY DEF Init, Zero, SockRecords, PeerRecords
<1>6. count \in CountRecords /\ main.limit \in Nat /\ main.pc \notin {"wild", "hung"}
      /\ count.gOutstandingSends = 0 /\ count.sendErrors = 0
  BY ThrottleAssumption DEF Init, CountRecords
<1>7. Types
  BY <1>2, <1>3, <1>4, <1>5, <1>6 DEF Types
<1>8. With(buf, "free") = {} /\ With(buf, "queued") = {} /\ With(buf, "lost") = {} /\ Accepts(buf) = {}
  BY <1>2 DEF With, Accepts
<1>9. Listed(mem, buf)
  <2>1. /\ mem.PendingAccepts = Null /\ mem.gFreeBufferList = Null
        /\ mem.gPendingSendList = Null /\ mem.gPendingSendListEnd = Null
    BY DEF Init
  <2>2. Chain(mem.next, Null, {}) /\ SendList(mem, {})
    BY <2>1 DEF Chain, SendList
  <2>3. AcceptList(mem, {}, {})
    <3>1. PICK q : q = [i \in 1..0 |-> Null]
      OBVIOUS
    <3>2. 0 \in 0..NBufs /\ q \in [1..0 -> Bufs]
      BY <3>1, ThrottleAssumption
    <3>3. Path(mem.next, mem.PendingAccepts, 0, q) /\ Holds(0, q, {}, {})
      BY <2>1, <3>2 DEF Path, Holds
    <3>4. QED
      BY <3>2, <3>3 DEF AcceptList
  <2>4. QED
    BY <1>8, <2>1, <2>2, <2>3 DEF Listed, Lists
<1>10. Taken(buf, peer) /\ InUse(buf) /\ Working /\ Holding
  BY <1>2, <1>4, <1>5, <1>8 DEF Taken, InUse, Working, Holding
<1>11. Exact
  <2>1. /\ \A op, c : InFlight(op, c) = {}
        /\ PostedSends = {}
    BY <1>2 DEF InFlight, PostedSends
  <2>2. /\ \A pc \in {"received", "sent"} : \A c : Uncounted(pc, c) = {}
        /\ LateSends = {}
    BY <1>4 DEF Uncounted, LateSends
  <2>3. Cardinality({}) = 0
    BY FS_EmptySet
  <2>4. ASSUME NEW c \in Conns PROVE Reads(c) /\ Sends(c)
    <3>1. InFlight("read", c) = {} /\ InFlight("write", c) = {}
      BY <2>1
    <3>2. Uncounted("received", c) = {} /\ Uncounted("sent", c) = {}
      BY <2>2
    <3>3. sock[c].OutstandingRecv = 0 /\ sock[c].OutstandingSend = 0
      BY <1>5
    <3>4. 0 = 0 - 0
      OBVIOUS
    <3>5. QED
      BY <2>3, <3>1, <3>2, <3>3, <3>4 DEF Reads, Sends
  <2>5. Slots
    BY <1>6, <2>1, <2>2, <2>3 DEF Slots
  <2>6. QED
    BY <2>4, <2>5 DEF Exact
<1>12. QED
  BY <1>1, <1>6, <1>7, <1>9, <1>10, <1>11 DEF CountedInv, Steady

LEMMA CountedInvHolds == Spec => []CountedInv
<1>1. CountedInv /\ [Next]_vars => CountedInv'
  BY NextKeeps, StuttersKeep
<1>2. QED
  BY <1>1, InitCounted, PTL DEF Spec

(***************************************************************************)
(* OutstandingRecv and OutstandingSend of every socket object, and         *)
(* gOutstandingSends, are the operations that are posted, less those whose *)
(* thread has still to count them, until an accept fails: whatever the     *)
(* order in which the threads post, complete and count.                    *)
(***************************************************************************)
THEOREM OperationsStayCounted == Spec => []OperationsCounted
<1>1. CountedInv => OperationsCounted
  <2> SUFFICES ASSUME CountedInv, count.acceptErrors = 0
               PROVE  /\ \A c \in Conns : sock[c].obj = "used" => Reads(c) /\ Sends(c)
                      /\ Slots
    BY DEF OperationsCounted, Reads, Sends, Slots, PostedSends, LateSends
  <2>1. QED
    BY DEF CountedInv, Exact
<1>2. QED
  BY <1>1, CountedInvHolds, PTL

(***************************************************************************)
(* GetBufferObj never hands out a buffer that is in use, and the walk of   *)
(* the pending accepts never fails to end, until an accept fails.          *)
(***************************************************************************)
THEOREM ListsIntactUntilAcceptFails ==
  Spec => [](count.acceptErrors = 0 => /\ main.pc \notin {"wild", "hung"}
                                       /\ \A w \in Workers : worker[w].pc # "hung")
<1>1. CountedInv => (count.acceptErrors = 0 => /\ main.pc \notin {"wild", "hung"}
                                               /\ \A w \in Workers : worker[w].pc # "hung")
  BY DEF CountedInv, Steady, Types, WorkerRecords
<1>2. QED
  BY <1>1, CountedInvHolds, PTL
=============================================================================
