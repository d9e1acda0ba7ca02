---------------------------- MODULE NfpLinkProofs ----------------------------
(***************************************************************************)
(* Proofs about NfpLink, for any number of connections and publications.   *)
(***************************************************************************)
EXTENDS NfpLink, FiniteSetTheorems, WellFoundedInduction, TLAPS

-----------------------------------------------------------------------------
(***************************************************************************)
(* Lists.                                                                  *)
(***************************************************************************)
Distinct(s) == \A i, j \in DOMAIN s : s[i] = s[j] => i = j

LEMMA LeastPlace ==
  ASSUME NEW S, NEW s \in Seq(S), NEW x, x \in Elements(s)
  PROVE  \E i \in DOMAIN s : s[i] = x /\ \A k \in 1 .. i - 1 : s[k] # x
<1> DEFINE places == {i \in DOMAIN s : s[i] = x}
           less == OpToRel(<, Nat)
<1>1. places \subseteq Nat /\ places # {}
  BY DEF Elements
<1>2. IsWellFoundedOn(less, Nat)
  BY NatLessThanWellFounded
<1>3. \E i \in places : \A j \in places : ~ (<<j, i>> \in less)
  <2> DEFINE p == places
  <2>1. p \subseteq Nat /\ p # {}
    BY <1>1
  <2> HIDE DEF less, p
  <2>2. \E i \in p : \A j \in p : ~ (<<j, i>> \in less)
    BY <1>2, <2>1, WFMin, Zenon
  <2>3. QED
    BY <2>2 DEF p
<1>4. PICK i \in places : \A j \in places : ~ (<<j, i>> \in OpToRel(<, Nat))
  BY <1>3
<1>5. \A j \in places : ~ (j < i)
  BY <1>1, <1>4 DEF OpToRel
<1>6. \A k \in 1 .. i - 1 : k \in DOMAIN s /\ k < i
  OBVIOUS
<1>7. QED
  BY <1>5, <1>6

(***************************************************************************)
(* RemoveEntryList takes nothing else out, and takes out of a list that    *)
(* holds nothing twice all that is to be removed.                          *)
(***************************************************************************)
LEMMA UnlinkRemoves ==
  ASSUME NEW S, NEW s \in Seq(S), NEW x
  PROVE  /\ Unlink(s, x) \in Seq(S)
         /\ Elements(Unlink(s, x)) \subseteq Elements(s)
         /\ Elements(s) \ {x} \subseteq Elements(Unlink(s, x))
         /\ Distinct(s) => Distinct(Unlink(s, x)) /\ x \notin Elements(Unlink(s, x))
<1>1. CASE x \notin Elements(s)
  BY <1>1 DEF Unlink
<1>2. CASE x \in Elements(s)
  <2> DEFINE found == CHOOSE i \in DOMAIN s : s[i] = x /\ \A k \in 1 .. i - 1 : s[k] # x
             r == [i \in 1 .. Len(s) - 1 |-> IF i < found THEN s[i] ELSE s[i + 1]]
  <2>1. found \in 1 .. Len(s) /\ s[found] = x
    BY <1>2, LeastPlace
  <2>2. Unlink(s, x) = r
    BY <1>2 DEF Unlink
  <2> HIDE DEF found
  <2>3. r \in Seq(S) /\ Len(r) = Len(s) - 1 /\ DOMAIN r = 1 .. Len(s) - 1
    BY <2>1
  <2>4. \A i \in DOMAIN r : \E j \in DOMAIN s : r[i] = s[j] /\ j # found
    BY <2>1, <2>3
  <2>5. \A j \in DOMAIN s : j # found => \E i \in DOMAIN r : r[i] = s[j]
    <3> SUFFICES ASSUME NEW j \in DOMAIN s, j # found
                 PROVE  \E i \in DOMAIN r : r[i] = s[j]
      OBVIOUS
    <3>1. CASE j < found
      BY <2>1, <2>3, <3>1
    <3>2. CASE ~(j < found)
      <4>1. j - 1 \in DOMAIN r /\ r[j - 1] = s[j]
        BY <2>1, <2>3, <3>2
      <4>2. QED
        BY <4>1
    <3>3. QED
      BY <3>1, <3>2
  <2>6. \A i, j \in DOMAIN r : Distinct(s) /\ r[i] = r[j] => i = j
    BY <2>1, <2>3 DEF Distinct
  <2>7. \A i \in DOMAIN r : Distinct(s) => r[i] # x
    BY <2>1, <2>4 DEF Distinct
  <2> HIDE DEF r
  <2>8. QED
    BY <2>1, <2>2, <2>3, <2>4, <2>5, <2>6, <2>7 DEF Elements, Distinct
<1>3. QED
  BY <1>1, <1>2

LEMMA HeadInserted ==
  ASSUME NEW S, NEW s \in Seq(S), NEW x \in S
  PROVE  /\ <<x>> \o s \in Seq(S) /\ <<x>> \o s # <<>>
         /\ Elements(<<x>> \o s) = Elements(s) \cup {x}
         /\ Distinct(s) /\ x \notin Elements(s) => Distinct(<<x>> \o s)
<1> DEFINE r == <<x>> \o s
<1>1. r \in Seq(S) /\ Len(r) = Len(s) + 1 /\ r[1] = x /\ \A i \in 1 .. Len(s) : r[i + 1] = s[i]
  OBVIOUS
<1>2. \A i \in DOMAIN r : i = 1 \/ (i - 1 \in DOMAIN s /\ r[i] = s[i - 1])
  BY <1>1
<1>3. \A i \in DOMAIN s : i + 1 \in DOMAIN r /\ r[i + 1] = s[i]
  BY <1>1
<1>4. 1 \in DOMAIN r
  BY <1>1
<1>5. Elements(r) = Elements(s) \cup {x}
  <2> HIDE DEF r
  <2>1. \A y \in Elements(r) : y = x \/ y \in Elements(s)
    BY <1>1, <1>2 DEF Elements
  <2>2. \A y \in Elements(s) : y \in Elements(r)
    BY <1>3 DEF Elements
  <2>3. x \in Elements(r)
    BY <1>1, <1>4 DEF Elements
  <2>4. QED
    BY <2>1, <2>2, <2>3
<1>6. Distinct(s) /\ x \notin Elements(s) => Distinct(r)
  <2> SUFFICES ASSUME Distinct(s), x \notin Elements(s),
                      NEW i \in DOMAIN r, NEW j \in DOMAIN r, r[i] = r[j]
               PROVE  i = j
    BY DEF Distinct
  <2> HIDE DEF r
  <2>1. i \in Nat /\ j \in Nat
    BY <1>1
  <2>2. CASE i = 1 /\ j # 1
    BY <1>1, <1>2, <2>2 DEF Elements
  <2>3. CASE i # 1 /\ j = 1
    BY <1>1, <1>2, <2>3 DEF Elements
  <2>4. CASE i # 1 /\ j # 1
    BY <1>2, <2>1, <2>4 DEF Distinct
  <2>5. QED
    BY <2>2, <2>3, <2>4
<1>7. r # <<>>
  BY <1>1
<1>8. QED
  BY <1>1, <1>5, <1>6, <1>7

LEMMA TailTaken ==
  ASSUME NEW S, NEW s \in Seq(S), s # <<>>
  PROVE  /\ Head(s) \in S /\ Tail(s) \in Seq(S)
         /\ Elements(s) = Elements(Tail(s)) \cup {Head(s)}
         /\ Distinct(s) => Distinct(Tail(s)) /\ Head(s) \notin Elements(Tail(s))
<1> DEFINE r == Tail(s)
<1>1. /\ r \in Seq(S) /\ Len(r) = Len(s) - 1 /\ Head(s) = s[1] /\ Head(s) \in S
      /\ \A i \in 1 .. Len(s) - 1 : r[i] = s[i + 1]
  OBVIOUS
<1>2. /\ DOMAIN r = 1 .. Len(s) - 1 /\ DOMAIN s = 1 .. Len(s) /\ Len(s) \in Nat \ {0}
  BY <1>1
<1> HIDE DEF r
<1>3. \A j \in DOMAIN s : j = 1 \/ (j - 1 \in DOMAIN r /\ r[j - 1] = s[j])
  BY <1>1, <1>2
<1>4. \A i \in DOMAIN r : i + 1 \in DOMAIN s /\ r[i] = s[i + 1] /\ i + 1 # 1
  BY <1>1, <1>2
<1>5. 1 \in DOMAIN s
  BY <1>2
<1>6. Elements(s) = Elements(r) \cup {Head(s)}
  <2>1. \A y \in Elements(s) : y = Head(s) \/ y \in Elements(r)
    BY <1>1, <1>3 DEF Elements
  <2>2. \A y \in Elements(r) : y \in Elements(s)
    BY <1>4 DEF Elements
  <2>3. Head(s) \in Elements(s)
    BY <1>1, <1>5 DEF Elements
  <2>4. QED
    BY <2>1, <2>2, <2>3
<1>7. Distinct(s) => Head(s) \notin Elements(r)
  BY <1>1, <1>4, <1>5 DEF Distinct, Elements
<1>8. Distinct(s) => Distinct(r)
  <2> SUFFICES ASSUME Distinct(s), NEW i \in DOMAIN r, NEW j \in DOMAIN r, r[i] = r[j]
               PROVE  i = j
    BY DEF Distinct
  <2>1. i + 1 = j + 1
    BY <1>4 DEF Distinct
  <2>2. QED
    BY <1>2, <2>1
<1>9. QED
  BY <1>1, <1>6, <1>7, <1>8 DEF r

(***************************************************************************)
(* What a walk has yet to visit.                                           *)
(***************************************************************************)
LEMMA TailOfAll ==
  ASSUME NEW S, NEW l \in Seq(S)
  PROVE  IsTailOf(l, l)
<1>1. 0 \in 0 .. Len(l) /\ l = SubSeq(l, 0 + 1, Len(l))
  OBVIOUS
<1>2. QED
  BY <1>1 DEF IsTailOf

LEMMA TailOfTail ==
  ASSUME NEW S, NEW l \in Seq(S), NEW s \in Seq(S), s # <<>>, IsTailOf(s, l)
  PROVE  IsTailOf(Tail(s), l) /\ Head(s) \in Elements(l)
<1>1. PICK n \in 0 .. Len(l) : s = SubSeq(l, n + 1, Len(l))
  BY DEF IsTailOf
<1>2. n + 1 \in 1 .. Len(l)
  BY <1>1
<1>3. Head(s) = l[n + 1]
  BY <1>1, <1>2
<1>4. Tail(s) = SubSeq(l, (n + 1) + 1, Len(l))
  BY <1>1, <1>2
<1>5. n + 1 \in 0 .. Len(l)
  BY <1>2
<1>6. IsTailOf(Tail(s), l)
  BY <1>4, <1>5 DEF IsTailOf
<1>7. Head(s) \in Elements(l)
  BY <1>2, <1>3 DEF Elements
<1>8. QED
  BY <1>6, <1>7

-----------------------------------------------------------------------------
(***************************************************************************)
(* Types, and which places belong to which threads.                        *)
(***************************************************************************)
Held == {"transmit", "wait"}

ObjectOK ==
  /\ _State \in [Conns -> {"INITIAL", "ESTABLISHED", "TERMINATED"}]
  /\ _Socket \in [Conns -> BOOLEAN]
  /\ _ThreadpoolThreadId \in [Conns -> {"other", "receiver", "establisher", "closer"}]
  /\ exists \in [Conns -> {"none", "live", "freed"}]
  /\ peer \in [Conns -> {"up", "gone"}]
  /\ shut \in [Conns -> BOOLEAN]
  /\ closes \in [Conns -> Nat]

QueueOK ==
  /\ m_ConnectionHead \in Seq(Conns)
  /\ m_PubsHead \in Seq(Pubs)
  /\ m_ConnectionLock \in Pubs \cup {Nobody}
  /\ m_PubsLock \in Conns \cup {Nobody}
  /\ unload \in {"no", "delete", "gone"} \cup Conns
  /\ enabled \in [Pubs -> BOOLEAN]
  /\ due \in [Conns -> SUBSET Pubs]
  /\ arrivals \in Nat
  /\ departures \in Nat
  /\ disturbed \in BOOLEAN
  /\ ub \in BOOLEAN

ThreadOK ==
  /\ pc \in [Conns \cup Pubs ->
              {"idle", "failed", "insert", "arrive", "walk", "transmit", "wait",
               "publish", "done", "closing", "reaping", "closed"}]
  /\ rcv \in [Conns -> {"none", "queued", "recv", "remove", "delete", "depart",
                        "return", "done"}]
  /\ fNoMoreConnections \in [Conns -> BOOLEAN]
  /\ \A c \in Conns : pc[c] # "publish"
  /\ \A c \in Inbound : pc[c] \notin {"closing", "reaping", "closed"}
  /\ \A p \in Pubs : pc[p] \in Held \cup {"idle", "publish", "done", "closed"}

RestOK ==
  /\ rest \in [Conns \cup Pubs -> Seq(Conns \cup Pubs)]
  /\ \A c \in Conns : rest[c] \in Seq(Pubs)
  /\ \A p \in Pubs : rest[p] \in Seq(Conns)
  /\ \A t \in Conns \cup Pubs : pc[t] = "wait" => rest[t] # <<>>

Typed == ObjectOK /\ QueueOK /\ ThreadOK /\ RestOK

LEMMA TypedMeans ==
  ASSUME Typed
  PROVE  TypeOK
BY DEF Typed, ObjectOK, QueueOK, ThreadOK, RestOK, TypeOK

LEMMA Threads ==
  /\ Inbound \subseteq Conns /\ Outbound \subseteq Conns
  /\ \A c \in Conns : c \notin Pubs /\ c # Nobody
  /\ \A p \in Pubs : p \notin Conns /\ p # Nobody
  /\ \A c \in Inbound : c \notin Outbound
BY ThreadsAssumption DEF Conns

LEMMA TypedStarts == Init => Typed
<1> SUFFICES ASSUME Init PROVE Typed
  OBVIOUS
<1>1. ObjectOK
  BY DEF Init, ObjectOK
<1>2. QueueOK
  <2>1. /\ m_ConnectionHead \in Seq(Conns) /\ m_PubsHead \in Seq(Pubs)
        /\ m_ConnectionLock = Nobody /\ m_PubsLock = Nobody /\ unload = "no"
    BY DEF Init
  <2>2. enabled \in [Pubs -> BOOLEAN] /\ due \in [Conns -> SUBSET Pubs]
    BY DEF Init
  <2>3. arrivals \in Nat /\ departures \in Nat /\ disturbed \in BOOLEAN /\ ub \in BOOLEAN
    BY DEF Init
  <2>4. QED
    BY <2>1, <2>2, <2>3 DEF QueueOK
<1>3. ThreadOK
  BY Threads DEF Init, ThreadOK
<1>4. RestOK
  BY DEF Init, RestOK
<1>5. QED
  BY <1>1, <1>2, <1>3, <1>4 DEF Typed

(***************************************************************************)
(* A step that uses what is deleted changes nothing else.                  *)
(***************************************************************************)
Untouched == UNCHANGED <<object, queue, threads, net, enabled, history, disturbed>>

LEMMA TypedUntouched ==
  ASSUME Typed, Undefined
  PROVE  Typed'
<1>1. ub' \in BOOLEAN /\ Untouched
  BY DEF Undefined, Untouched
<1>2. ObjectOK'
  BY <1>1 DEF Untouched, object, net, history, Typed, ObjectOK
<1>3. QueueOK'
  BY <1>1 DEF Untouched, queue, threads, history, events, Typed, QueueOK
<1>4. ThreadOK'
  BY <1>1 DEF Untouched, threads, Typed, ThreadOK
<1>5. RestOK'
  BY <1>1 DEF Untouched, threads, Typed, RestOK
<1>6. QED
  BY <1>2, <1>3, <1>4, <1>5 DEF Typed

LEMMA LinkTyped ==
  ASSUME Typed, NEW t \in Conns \cup Pubs, rest[t] # <<>>
  PROVE  LinkOf(t) \in Conns /\ PubOf(t) \in Pubs
<1>1. CASE t \in Conns
  BY <1>1, TailTaken, Threads DEF LinkOf, PubOf, Typed, RestOK
<1>2. CASE t \in Pubs
  BY <1>2, TailTaken, Threads DEF LinkOf, PubOf, Typed, RestOK
<1>3. QED
  BY <1>1, <1>2

LEMMA WalkTyped ==
  ASSUME Typed, NEW t \in Conns \cup Pubs, rest[t] # <<>>,
         rest' = [rest EXCEPT ![t] = Tail(@)], \A u \in Conns \cup Pubs : pc'[u] = "wait" => pc[u] = "wait" /\ u # t
  PROVE  RestOK'
<1>1. rest'[t] = Tail(rest[t]) /\ \A u \in Conns \cup Pubs : u # t => rest'[u] = rest[u]
  BY DEF Typed, RestOK
<1>2. t \in Conns => Tail(rest[t]) \in Seq(Pubs)
  BY TailTaken DEF Typed, RestOK
<1>3. t \in Pubs => Tail(rest[t]) \in Seq(Conns)
  BY TailTaken DEF Typed, RestOK
<1>4. rest' \in [Conns \cup Pubs -> Seq(Conns \cup Pubs)]
  <2>1. Tail(rest[t]) \in Seq(Conns \cup Pubs)
    BY TailTaken DEF Typed, RestOK
  <2>2. QED
    BY <2>1 DEF Typed, RestOK
<1>5. QED
  BY <1>1, <1>2, <1>3, <1>4, Threads DEF Typed, RestOK

LEMMA CloseTyped ==
  ASSUME Typed, NEW c \in Conns, CloseSocket(c)
  PROVE  _Socket' \in [Conns -> BOOLEAN] /\ closes' \in [Conns -> Nat]
BY DEF CloseSocket, Typed, ObjectOK

LEMMA TypedKept ==
  ASSUME Typed, [Next]_vars
  PROVE  Typed'
<1> USE Threads
<1>1. ASSUME NEW c \in Conns, NEW id \in StaleIds \cup {"other"}, FinalizeEstablish(c, id)
      PROVE  Typed'
  <2>a. ObjectOK'
    BY <1>1, ChoicesAssumption DEF FinalizeEstablish, Typed, ObjectOK, queue, net, history,
       events
  <2>b. QueueOK'
    BY <1>1 DEF FinalizeEstablish, Typed, QueueOK, queue, net, history, events
  <2>c. ThreadOK'
    BY <1>1 DEF FinalizeEstablish, Typed, ThreadOK, queue, net, history, events, Held
  <2>d. RestOK'
    BY <1>1 DEF FinalizeEstablish, Typed, RestOK, queue, net, history, events
  <2>e. QED
    BY <2>a, <2>b, <2>c, <2>d DEF Typed
<1>2. ASSUME NEW c \in Conns, FailEstablish(c)
      PROVE  Typed'
  <2>a. ObjectOK'
    BY <1>2 DEF FailEstablish, Typed, ObjectOK, queue, net, events
  <2>b. QueueOK'
    BY <1>2 DEF FailEstablish, Typed, QueueOK, queue, net, events
  <2>c. ThreadOK'
    BY <1>2 DEF FailEstablish, Typed, ThreadOK, queue, net, events, Held
  <2>d. RestOK'
    BY <1>2 DEF FailEstablish, Typed, RestOK, queue, net, events
  <2>e. QED
    BY <2>a, <2>b, <2>c, <2>d DEF Typed
<1>3. ASSUME NEW c \in Conns, ConnectionEstablished(c)
      PROVE  Typed'
  <2>1. CASE Undefined
    BY <2>1, TypedUntouched
  <2>2. CASE ~Undefined
    <3>1. <<c>> \o m_ConnectionHead \in Seq(Conns)
      BY HeadInserted DEF Typed, QueueOK
    <3>2. {p \in Elements(m_PubsHead) : enabled[p]} \in SUBSET Pubs
      BY DEF Elements, Typed, QueueOK
    <3>a. ObjectOK'
      BY <1>3, <2>2 DEF ConnectionEstablished, Typed, ObjectOK, object, net, events
    <3>b. QueueOK'
      BY <1>3, <2>2, <3>1, <3>2 DEF ConnectionEstablished, Typed, QueueOK, object, net, events
    <3>c. ThreadOK'
      BY <1>3, <2>2 DEF ConnectionEstablished, Typed, ThreadOK, object, net, events, Held
    <3>d. RestOK'
      BY <1>3, <2>2 DEF ConnectionEstablished, Typed, RestOK, object, net, events, ThreadOK
    <3>e. QED
      BY <3>a, <3>b, <3>c, <3>d DEF Typed
  <2>3. QED
    BY <2>1, <2>2
<1>4. ASSUME NEW c \in Conns, AddArrivalEvent(c)
      PROVE  Typed'
  <2>a. ObjectOK'
    BY <1>4 DEF AddArrivalEvent, Typed, ObjectOK, object, queue, net
  <2>b. QueueOK'
    BY <1>4 DEF AddArrivalEvent, Typed, QueueOK, object, queue, net
  <2>c. ThreadOK'
    BY <1>4 DEF AddArrivalEvent, Typed, ThreadOK, object, queue, net, Held
  <2>d. RestOK'
    BY <1>4 DEF AddArrivalEvent, Typed, RestOK, object, queue, net
  <2>e. QED
    BY <2>a, <2>b, <2>c, <2>d DEF Typed
<1>5. ASSUME NEW c \in Conns, WalkPubs(c)
      PROVE  Typed'
  <2>a. ObjectOK'
    BY <1>5 DEF WalkPubs, Typed, ObjectOK, object, net, history, events
  <2>b. QueueOK'
    BY <1>5 DEF WalkPubs, Typed, QueueOK, object, net, history, events
  <2>c. ThreadOK'
    BY <1>5 DEF WalkPubs, Typed, ThreadOK, object, net, history, events, Held
  <2>d. RestOK'
    BY <1>5, <2>c DEF WalkPubs, Typed, RestOK, object, net, history, events, ThreadOK, QueueOK
  <2>e. QED
    BY <2>a, <2>b, <2>c, <2>d DEF Typed
<1>6. ASSUME NEW c \in Conns, ReceiveStart(c)
      PROVE  Typed'
  <2>1. CASE Undefined
    BY <2>1, TypedUntouched
  <2>2. CASE ~Undefined
    <3>a. ObjectOK'
      BY <1>6, <2>2 DEF ReceiveStart, Typed, ObjectOK, queue, net, history, events
    <3>b. QueueOK'
      BY <1>6, <2>2 DEF ReceiveStart, Typed, QueueOK, queue, net, history, events
    <3>c. ThreadOK'
      BY <1>6, <2>2 DEF ReceiveStart, Typed, ThreadOK, queue, net, history, events, Held
    <3>d. RestOK'
      BY <1>6, <2>2 DEF ReceiveStart, Typed, RestOK, queue, net, history, events
    <3>e. QED
      BY <3>a, <3>b, <3>c, <3>d DEF Typed
  <2>3. QED
    BY <2>1, <2>2
<1>7. ASSUME NEW c \in Conns, ReceiveTerminate(c)
      PROVE  Typed'
  <2>1. CASE Undefined
    BY <2>1, TypedUntouched
  <2>2. CASE ~Undefined
    <3>a. ObjectOK'
      BY <1>7, <2>2, CloseTyped DEF ReceiveTerminate, Typed, ObjectOK, queue, events
    <3>b. QueueOK'
      BY <1>7, <2>2 DEF ReceiveTerminate, Typed, QueueOK, queue, events
    <3>c. ThreadOK'
      BY <1>7, <2>2 DEF ReceiveTerminate, Typed, ThreadOK, queue, events, Held
    <3>d. RestOK'
      BY <1>7, <2>2 DEF ReceiveTerminate, Typed, RestOK, queue, events
    <3>e. QED
      BY <3>a, <3>b, <3>c, <3>d DEF Typed
  <2>3. QED
    BY <2>1, <2>2
<1>8. ASSUME NEW c \in Conns, ConnectionTerminated(c)
      PROVE  Typed'
  <2>1. CASE Undefined
    BY <2>1, TypedUntouched
  <2>2. CASE ~Undefined
    <3>a. ObjectOK'
      BY <1>8, <2>2 DEF ConnectionTerminated, Typed, ObjectOK, object, net, history, events
    <3>b. QueueOK'
      BY <1>8, <2>2, UnlinkRemoves DEF ConnectionTerminated, Typed, QueueOK, object, net,
         history, events
    <3>c. ThreadOK'
      BY <1>8, <2>2 DEF ConnectionTerminated, Typed, ThreadOK, object, net, history, events,
         Held
    <3>d. RestOK'
      BY <1>8, <2>2 DEF ConnectionTerminated, Typed, RestOK, object, net, history, events
    <3>e. QED
      BY <3>a, <3>b, <3>c, <3>d DEF Typed
  <2>3. QED
    BY <2>1, <2>2
<1>9. ASSUME NEW c \in Conns, DeleteInbound(c)
      PROVE  Typed'
  <2>1. CASE Undefined
    BY <2>1, TypedUntouched
  <2>2. CASE ~Undefined
    <3>a. ObjectOK'
      BY <1>9, <2>2 DEF DeleteInbound, Typed, ObjectOK, queue, net, history, events
    <3>b. QueueOK'
      BY <1>9, <2>2 DEF DeleteInbound, Typed, QueueOK, queue, net, history, events
    <3>c. ThreadOK'
      BY <1>9, <2>2 DEF DeleteInbound, Typed, ThreadOK, queue, net, history, events, Held
    <3>d. RestOK'
      BY <1>9, <2>2 DEF DeleteInbound, Typed, RestOK, queue, net, history, events
    <3>e. QED
      BY <3>a, <3>b, <3>c, <3>d DEF Typed
  <2>3. QED
    BY <2>1, <2>2
<1>10. ASSUME NEW c \in Conns, AddRemovalEvent(c)
      PROVE  Typed'
  <2>1. CASE Undefined
    BY <2>1, TypedUntouched
  <2>2. CASE ~Undefined
    <3>a. ObjectOK'
      BY <1>10, <2>2 DEF AddRemovalEvent, Typed, ObjectOK, object, queue, net
    <3>b. QueueOK'
      BY <1>10, <2>2 DEF AddRemovalEvent, Typed, QueueOK, object, queue, net
    <3>c. ThreadOK'
      BY <1>10, <2>2 DEF AddRemovalEvent, Typed, ThreadOK, object, queue, net, Held
    <3>d. RestOK'
      BY <1>10, <2>2 DEF AddRemovalEvent, Typed, RestOK, object, queue, net
    <3>e. QED
      BY <3>a, <3>b, <3>c, <3>d DEF Typed
  <2>3. QED
    BY <2>1, <2>2
<1>11. ASSUME NEW c \in Conns, ReceiveReturn(c)
      PROVE  Typed'
  <2>1. CASE Undefined
    BY <2>1, TypedUntouched
  <2>2. CASE ~Undefined
    <3>a. ObjectOK'
      BY <1>11, <2>2 DEF ReceiveReturn, Typed, ObjectOK, queue, net, history, events
    <3>b. QueueOK'
      BY <1>11, <2>2 DEF ReceiveReturn, Typed, QueueOK, queue, net, history, events
    <3>c. ThreadOK'
      BY <1>11, <2>2 DEF ReceiveReturn, Typed, ThreadOK, queue, net, history, events, Held
    <3>d. RestOK'
      BY <1>11, <2>2 DEF ReceiveReturn, Typed, RestOK, queue, net, history, events
    <3>e. QED
      BY <3>a, <3>b, <3>c, <3>d DEF Typed
  <2>3. QED
    BY <2>1, <2>2
<1>12. ASSUME NEW c \in Conns, PeerGone(c)
      PROVE  Typed'
  <2>a. ObjectOK'
    BY <1>12 DEF PeerGone, Typed, ObjectOK, object, queue, threads, history, events
  <2>b. QueueOK'
    BY <1>12 DEF PeerGone, Typed, QueueOK, object, queue, threads, history, events
  <2>c. ThreadOK'
    BY <1>12 DEF PeerGone, Typed, ThreadOK, object, queue, threads, history, events, Held
  <2>d. RestOK'
    BY <1>12 DEF PeerGone, Typed, RestOK, object, queue, threads, history, events
  <2>e. QED
    BY <2>a, <2>b, <2>c, <2>d DEF Typed
<1>13. ASSUME NEW c \in Outbound, CloseOutbound(c)
      PROVE  Typed'
  <2>a. ObjectOK'
    BY <1>13, CloseTyped DEF CloseOutbound, Typed, ObjectOK, queue, events
  <2>b. QueueOK'
    BY <1>13 DEF CloseOutbound, Typed, QueueOK, queue, events
  <2>c. ThreadOK'
    BY <1>13 DEF CloseOutbound, Typed, ThreadOK, queue, events, Held
  <2>d. RestOK'
    BY <1>13 DEF CloseOutbound, Typed, RestOK, queue, events, ThreadOK
  <2>e. QED
    BY <2>a, <2>b, <2>c, <2>d DEF Typed
<1>14. ASSUME NEW c \in Outbound, FreeOutbound(c)
      PROVE  Typed'
  <2>a. ObjectOK'
    BY <1>14, CloseTyped DEF FreeOutbound, Typed, ObjectOK, queue, net, events
  <2>b. QueueOK'
    BY <1>14 DEF FreeOutbound, Typed, QueueOK, queue, net, events
  <2>c. ThreadOK'
    BY <1>14 DEF FreeOutbound, Typed, ThreadOK, queue, net, events, Held
  <2>d. RestOK'
    BY <1>14 DEF FreeOutbound, Typed, RestOK, queue, net, events
  <2>e. QED
    BY <2>a, <2>b, <2>c, <2>d DEF Typed
<1>15. ASSUME NEW p \in Pubs, SetPayload(p)
      PROVE  Typed'
  <2>a. ObjectOK'
    BY <1>15 DEF SetPayload, Typed, ObjectOK, object, net, history, events
  <2>b. QueueOK'
    BY <1>15 DEF SetPayload, Typed, QueueOK, object, net, history, events
  <2>c. ThreadOK'
    BY <1>15 DEF SetPayload, Typed, ThreadOK, object, net, history, events, Held
  <2>d. RestOK'
    BY <1>15, <2>c DEF SetPayload, Typed, RestOK, object, net, history, events, ThreadOK,
       QueueOK
  <2>e. QED
    BY <2>a, <2>b, <2>c, <2>d DEF Typed
<1>16. ASSUME NEW p \in Pubs, Publish(p)
      PROVE  Typed'
  <2>a. ObjectOK'
    BY <1>16 DEF Publish, Typed, ObjectOK, object, net, history, events
  <2>b. QueueOK'
    BY <1>16, HeadInserted DEF Publish, Typed, QueueOK, object, net, history, events
  <2>c. ThreadOK'
    BY <1>16 DEF Publish, Typed, ThreadOK, object, net, history, events, Held
  <2>d. RestOK'
    BY <1>16 DEF Publish, Typed, RestOK, object, net, history, events
  <2>e. QED
    BY <2>a, <2>b, <2>c, <2>d DEF Typed
<1>17. ASSUME NEW p \in Pubs, SetEnabled(p)
      PROVE  Typed'
  <2>a. ObjectOK'
    BY <1>17 DEF SetEnabled, Typed, ObjectOK, object, queue, threads, net, events
  <2>b. QueueOK'
    BY <1>17 DEF SetEnabled, Typed, QueueOK, object, queue, threads, net, events
  <2>c. ThreadOK'
    BY <1>17 DEF SetEnabled, Typed, ThreadOK, object, queue, threads, net, events, Held
  <2>d. RestOK'
    BY <1>17 DEF SetEnabled, Typed, RestOK, object, queue, threads, net, events
  <2>e. QED
    BY <2>a, <2>b, <2>c, <2>d DEF Typed
<1>18. ASSUME NEW p \in Pubs, ClosePublication(p)
      PROVE  Typed'
  <2>a. ObjectOK'
    BY <1>18 DEF ClosePublication, Typed, ObjectOK, object, net, events
  <2>b. QueueOK'
    BY <1>18, UnlinkRemoves DEF ClosePublication, Typed, QueueOK, object, net, events
  <2>c. ThreadOK'
    BY <1>18 DEF ClosePublication, Typed, ThreadOK, object, net, events, Held
  <2>d. RestOK'
    BY <1>18 DEF ClosePublication, Typed, RestOK, object, net, events
  <2>e. QED
    BY <2>a, <2>b, <2>c, <2>d DEF Typed
<1>19. ASSUME NEW t \in Conns \cup Pubs, TransmitMessage(t)
      PROVE  Typed'
  <2>1. CASE Undefined
    BY <2>1, TypedUntouched
  <2>2. CASE ~Undefined
    <3>1. rest[t] # <<>> /\ LinkOf(t) \in Conns /\ PubOf(t) \in Pubs
      BY <1>19, LinkTyped DEF TransmitMessage
    <3>2. \/ rest' = [rest EXCEPT ![t] = Tail(@)] /\ pc' = pc /\ pc[t] = "transmit"
          \/ rest' = rest /\ pc' = [pc EXCEPT ![t] = "wait"]
      BY <1>19, <2>2 DEF TransmitMessage
    <3>a. ObjectOK'
      BY <1>19, <2>2, <3>1, CloseTyped DEF TransmitMessage, Typed, ObjectOK, object, queue,
         net, history, events
    <3>b. QueueOK'
      BY <1>19, <2>2, <3>1 DEF TransmitMessage, Typed, QueueOK, object, queue, net, history,
         events
    <3>c. ThreadOK'
      BY <1>19, <2>2 DEF TransmitMessage, Typed, ThreadOK, object, queue, net, history,
         events, Held
    <3>d. RestOK'
      BY <1>19, <2>2, <3>1, <3>2, WalkTyped DEF TransmitMessage, Typed, RestOK, ThreadOK
    <3>e. QED
      BY <3>a, <3>b, <3>c, <3>d DEF Typed
  <2>3. QED
    BY <2>1, <2>2
<1>20. ASSUME NEW t \in Conns \cup Pubs, TerminateReturns(t)
      PROVE  Typed'
  <2>1. CASE Undefined
    BY <2>1, TypedUntouched
  <2>2. CASE ~Undefined
    <3>1. rest[t] # <<>> /\ LinkOf(t) \in Conns
      BY <1>20, LinkTyped DEF TerminateReturns, Typed, RestOK
    <3>a. ObjectOK'
      BY <1>20, <2>2, <3>1, CloseTyped DEF TerminateReturns, Typed, ObjectOK, queue, net, events
    <3>b. QueueOK'
      BY <1>20, <2>2 DEF TerminateReturns, Typed, QueueOK, queue, net, events
    <3>c. ThreadOK'
      BY <1>20, <2>2 DEF TerminateReturns, Typed, ThreadOK, queue, net, events, Held
    <3>d. RestOK'
      BY <1>20, <2>2, <3>1, WalkTyped DEF TerminateReturns, Typed, ThreadOK
    <3>e. QED
      BY <3>a, <3>b, <3>c, <3>d DEF Typed
  <2>3. QED
    BY <2>1, <2>2
<1>21. ASSUME NEW t \in Conns \cup Pubs, EndWalk(t)
      PROVE  Typed'
  <2>a. ObjectOK'
    BY <1>21 DEF EndWalk, Typed, ObjectOK, object, net, history, events
  <2>b. QueueOK'
    BY <1>21 DEF EndWalk, Typed, QueueOK, object, net, history, events
  <2>c. ThreadOK'
    BY <1>21 DEF EndWalk, Typed, ThreadOK, object, net, history, events, Held
  <2>d. RestOK'
    BY <1>21 DEF EndWalk, Typed, RestOK, object, net, history, events, ThreadOK
  <2>e. QED
    BY <2>a, <2>b, <2>c, <2>d DEF Typed
<1>22. CASE BeginUnload
  <2>a. ObjectOK'
    BY <1>22 DEF BeginUnload, Typed, ObjectOK, object, queue, net, history, events
  <2>b. QueueOK'
    BY <1>22 DEF BeginUnload, Typed, QueueOK, object, queue, net, history, events
  <2>c. ThreadOK'
    BY <1>22 DEF BeginUnload, Typed, ThreadOK, object, queue, net, history, events, Held
  <2>d. RestOK'
    BY <1>22 DEF BeginUnload, Typed, RestOK, object, queue, net, history, events
  <2>e. QED
    BY <2>a, <2>b, <2>c, <2>d DEF Typed
<1>23. CASE DeleteConnection
  <2>1. CASE Undefined
    BY <2>1, TypedUntouched
  <2>2. CASE ~Undefined
    <3>1. Head(m_ConnectionHead) \in Conns /\ Tail(m_ConnectionHead) \in Seq(Conns)
      BY <1>23, TailTaken DEF DeleteConnection, Typed, QueueOK
    <3>a. ObjectOK'
      BY <1>23, <2>2, TailTaken DEF DeleteConnection, Typed, ObjectOK, history, events, QueueOK
    <3>b. QueueOK'
      BY <1>23, <2>2, <3>1 DEF DeleteConnection, Typed, QueueOK, history, events
    <3>c. ThreadOK'
      BY <1>23, <2>2 DEF DeleteConnection, Typed, ThreadOK, history, events, Held
    <3>d. RestOK'
      BY <1>23, <2>2 DEF DeleteConnection, Typed, RestOK, history, events
    <3>e. QED
      BY <3>a, <3>b, <3>c, <3>d DEF Typed
  <2>3. QED
    BY <2>1, <2>2
<1>24. CASE DeleteReturns
  <2>1. CASE Undefined
    BY <2>1, TypedUntouched
  <2>2. CASE ~Undefined
    <3>a. ObjectOK'
      BY <1>24, <2>2 DEF DeleteReturns, Typed, ObjectOK
    <3>b. QueueOK'
      BY <1>24, <2>2 DEF DeleteReturns, Typed, QueueOK
    <3>c. ThreadOK'
      BY <1>24, <2>2 DEF DeleteReturns, Typed, ThreadOK, Held
    <3>d. RestOK'
      BY <1>24, <2>2 DEF DeleteReturns, Typed, RestOK
    <3>e. QED
      BY <3>a, <3>b, <3>c, <3>d DEF Typed
  <2>3. QED
    BY <2>1, <2>2
<1>25. CASE EndUnload
  <2>a. ObjectOK'
    BY <1>25 DEF EndUnload, Typed, ObjectOK, object, queue, net, history, events
  <2>b. QueueOK'
    BY <1>25 DEF EndUnload, Typed, QueueOK, object, queue, net, history, events
  <2>c. ThreadOK'
    BY <1>25 DEF EndUnload, Typed, ThreadOK, object, queue, net, history, events, Held
  <2>d. RestOK'
    BY <1>25 DEF EndUnload, Typed, RestOK, object, queue, net, history, events
  <2>e. QED
    BY <2>a, <2>b, <2>c, <2>d DEF Typed
<1>26. CASE UNCHANGED vars
  <2>a. ObjectOK'
    BY <1>26 DEF Typed, ObjectOK, object, queue, threads, net, history, events, vars
  <2>b. QueueOK'
    BY <1>26 DEF Typed, QueueOK, object, queue, threads, net, history, events, vars
  <2>c. ThreadOK'
    BY <1>26 DEF Typed, ThreadOK, object, queue, threads, net, history, events, vars, Held
  <2>d. RestOK'
    BY <1>26 DEF Typed, RestOK, object, queue, threads, net, history, events, vars
  <2>e. QED
    BY <2>a, <2>b, <2>c, <2>d DEF Typed
<1>27. QED
  BY <1>1, <1>2, <1>3, <1>4, <1>5, <1>6, <1>7, <1>8, <1>9, <1>10, <1>11,
     <1>12, <1>13, <1>14, <1>15, <1>16, <1>17, <1>18, <1>19, <1>20, <1>21,
     <1>22, <1>23, <1>24, <1>25, <1>26
  DEF Next, Establish, Receive

-----------------------------------------------------------------------------
(***************************************************************************)
(* The life of a connection: what is so before it is established, what     *)
(* stays so when it is terminated, and who deletes it.                     *)
(***************************************************************************)
Phases ==
  \A c \in Conns :
    /\ pc[c] = "idle" => exists[c] = "none"
    /\ pc[c] \in {"idle", "failed"} =>
         _State[c] = "INITIAL" /\ rcv[c] = "none" /\ ~_Socket[c]
    /\ pc[c] = "idle" => closes[c] = 0 /\ ~shut[c]
    /\ pc[c] \notin {"idle", "failed"} =>
         _State[c] # "INITIAL" /\ rcv[c] # "none" /\ exists[c] # "none"
    /\ pc[c] \in {"closing", "reaping", "closed"} => _State[c] = "TERMINATED"
    /\ _State[c] = "ESTABLISHED" => _Socket[c] /\ ~shut[c]

Freed ==
  /\ \A c \in Inbound : exists[c] = "freed" <=> rcv[c] \in {"depart", "return", "done"}
  /\ \A c \in Outbound : exists[c] = "freed" <=> pc[c] = "closed"

WaitTerminates ==
  \A t \in Conns \cup Pubs : pc[t] = "wait" => _State[LinkOf(t)] = "TERMINATED"

UnloadIsLast ==
  unload # "no" => /\ disturbed
                   /\ \A p \in Pubs : pc[p] = "closed"
                   /\ \A c \in Outbound : pc[c] \in {"idle", "failed", "closed"}
                   /\ \A c \in Inbound : pc[c] \in {"idle", "failed", "done"}

\* What is in the list of connections, once.
Listing ==
  /\ Distinct(m_ConnectionHead)
  /\ \A c \in Elements(m_ConnectionHead) : pc[c] \notin {"idle", "failed", "insert"}

LifeInv == Phases /\ Listing /\ SocketClosedOnce /\ Freed /\ WaitTerminates /\ UnloadIsLast

LEMMA ListingStays ==
  ASSUME Typed, Listing, UNCHANGED m_ConnectionHead,
         \A c \in Conns : pc[c] \notin {"idle", "failed", "insert"}
                            => pc'[c] \notin {"idle", "failed", "insert"}
  PROVE  Listing'
<1>1. Elements(m_ConnectionHead) \subseteq Conns
  BY DEF Elements, Typed, QueueOK
<1>2. QED
  BY <1>1 DEF Listing

LEMMA LifeStarts == Init => LifeInv
<1> SUFFICES ASSUME Init PROVE LifeInv
  OBVIOUS
<1> USE Threads
<1>1. Phases /\ SocketClosedOnce
  BY DEF Init, Phases, SocketClosedOnce
<1>2. Freed /\ WaitTerminates /\ UnloadIsLast
  BY DEF Init, Freed, WaitTerminates, UnloadIsLast
<1>3. Listing
  BY DEF Init, Listing, Distinct, Elements
<1>4. QED
  BY <1>1, <1>2, <1>3 DEF LifeInv

LEMMA LifeKept ==
  ASSUME Typed, LifeInv, [Next]_vars
  PROVE  LifeInv'
<1> USE Threads
<1>1. ASSUME NEW c \in Conns, NEW id \in StaleIds \cup {"other"}, FinalizeEstablish(c, id)
      PROVE  LifeInv'
  <2>a. Phases'
    BY <1>1 DEF FinalizeEstablish, Phases, LifeInv, Typed, ObjectOK, ThreadOK, queue, net,
       history, events
  <2>b. Listing'
    BY <1>1 DEF FinalizeEstablish, Listing, LifeInv, Typed, ObjectOK, ThreadOK, QueueOK,
       queue, net, history, events
  <2>c. SocketClosedOnce'
    BY <1>1 DEF FinalizeEstablish, SocketClosedOnce, LifeInv, Typed, ObjectOK, ThreadOK,
       Phases, queue, net, history, events
  <2>d. Freed'
    BY <1>1 DEF FinalizeEstablish, Freed, LifeInv, Typed, ObjectOK, ThreadOK, Phases, queue,
       net, history, events
  <2>e. WaitTerminates'
    BY <1>1, ChoicesAssumption DEF FinalizeEstablish, WaitTerminates, LifeInv, Typed,
       ObjectOK, ThreadOK, RestOK, LinkOf, queue, net, history, events, Phases
  <2>f. UnloadIsLast'
    BY <1>1 DEF FinalizeEstablish, UnloadIsLast, LifeInv, Typed, ObjectOK, ThreadOK, QueueOK,
       Held, queue, net, history, events
  <2>z. QED
    BY <2>a, <2>b, <2>c, <2>d, <2>e, <2>f DEF LifeInv
<1>2. ASSUME NEW c \in Conns, FailEstablish(c)
      PROVE  LifeInv'
  <2>a. Phases'
    BY <1>2 DEF FailEstablish, Phases, LifeInv, Typed, ObjectOK, ThreadOK, queue, net, events
  <2>b. Listing'
    BY <1>2 DEF FailEstablish, Listing, LifeInv, Typed, ObjectOK, ThreadOK, QueueOK, queue,
       net, events
  <2>c. SocketClosedOnce'
    BY <1>2 DEF FailEstablish, SocketClosedOnce, LifeInv, Typed, ObjectOK, ThreadOK, Phases,
       queue, net, events
  <2>d. Freed'
    BY <1>2 DEF FailEstablish, Freed, LifeInv, Typed, ObjectOK, ThreadOK, Phases, queue, net,
       events
  <2>e. WaitTerminates'
    BY <1>2 DEF FailEstablish, WaitTerminates, LifeInv, Typed, ObjectOK, ThreadOK, RestOK,
       LinkOf, queue, net, events
  <2>f. UnloadIsLast'
    BY <1>2 DEF FailEstablish, UnloadIsLast, LifeInv, Typed, ObjectOK, ThreadOK, QueueOK,
       Held, queue, net, events
  <2>z. QED
    BY <2>a, <2>b, <2>c, <2>d, <2>e, <2>f DEF LifeInv
<1>3. ASSUME NEW c \in Conns, ConnectionEstablished(c)
      PROVE  LifeInv'
  <2>1. CASE Undefined
    <3>1. Untouched
      BY <2>1 DEF Undefined, Untouched
    <3>2. QED
      BY <3>1 DEF Untouched, LifeInv, Phases, Typed, ObjectOK, ThreadOK, Listing, QueueOK,
         SocketClosedOnce, Freed, WaitTerminates, RestOK, LinkOf, UnloadIsLast, Held, object,
         queue, threads, net, history, events
  <2>2. CASE ~Undefined
    <3>a. Phases'
      BY <1>3, <2>2 DEF ConnectionEstablished, Phases, LifeInv, Typed, ObjectOK, ThreadOK,
         object, net, events
    <3>b. Listing'
      <4>1. /\ pc[c] = "insert" /\ (\/ pc' = [pc EXCEPT ![c] = "arrive"] \/ pc' = [pc EXCEPT ![c] = "walk"])
            /\ m_ConnectionHead' = <<c>> \o m_ConnectionHead
        BY <1>3, <2>2 DEF ConnectionEstablished
      <4>2. /\ Elements(m_ConnectionHead') = Elements(m_ConnectionHead) \cup {c}
            /\ c \notin Elements(m_ConnectionHead) => Distinct(m_ConnectionHead')
        BY <4>1, HeadInserted DEF LifeInv, Listing, Typed, QueueOK
      <4>3. Elements(m_ConnectionHead) \subseteq Conns
        BY DEF Elements, Typed, QueueOK
      <4>4. QED
        BY <4>1, <4>2, <4>3 DEF Listing, LifeInv, Typed, ThreadOK
    <3>c. SocketClosedOnce'
      BY <1>3, <2>2 DEF ConnectionEstablished, SocketClosedOnce, LifeInv, Typed, ObjectOK,
         ThreadOK, Phases, object, net, events
    <3>d. Freed'
      BY <1>3, <2>2 DEF ConnectionEstablished, Freed, LifeInv, Typed, ObjectOK, ThreadOK,
         Phases, object, net, events
    <3>e. WaitTerminates'
      BY <1>3, <2>2 DEF ConnectionEstablished, WaitTerminates, LifeInv, Typed, ObjectOK,
         ThreadOK, RestOK, LinkOf, object, net, events
    <3>f. UnloadIsLast'
      <4>1. unload = "no" /\ UNCHANGED unload
        BY <1>3, <2>2, Threads DEF ConnectionEstablished, LifeInv, UnloadIsLast, Conns
      <4>2. QED
        BY <4>1 DEF UnloadIsLast
    <3>z. QED
      BY <3>a, <3>b, <3>c, <3>d, <3>e, <3>f DEF LifeInv
  <2>3. QED
    BY <2>1, <2>2
<1>4. ASSUME NEW c \in Conns, AddArrivalEvent(c)
      PROVE  LifeInv'
  <2>a. Phases'
    BY <1>4 DEF AddArrivalEvent, Phases, LifeInv, Typed, ObjectOK, ThreadOK, object, queue, net
  <2>b. Listing'
    BY <1>4 DEF AddArrivalEvent, Listing, LifeInv, Typed, ObjectOK, ThreadOK, QueueOK, object,
       queue, net
  <2>c. SocketClosedOnce'
    BY <1>4 DEF AddArrivalEvent, SocketClosedOnce, LifeInv, Typed, ObjectOK, ThreadOK, Phases,
       object, queue, net
  <2>d. Freed'
    BY <1>4 DEF AddArrivalEvent, Freed, LifeInv, Typed, ObjectOK, ThreadOK, Phases, object,
       queue, net
  <2>e. WaitTerminates'
    BY <1>4 DEF AddArrivalEvent, WaitTerminates, LifeInv, Typed, ObjectOK, ThreadOK, RestOK,
       LinkOf, object, queue, net
  <2>f. UnloadIsLast'
    BY <1>4 DEF AddArrivalEvent, UnloadIsLast, LifeInv, Typed, ObjectOK, ThreadOK, QueueOK,
       Held, object, queue, net
  <2>z. QED
    BY <2>a, <2>b, <2>c, <2>d, <2>e, <2>f DEF LifeInv
<1>5. ASSUME NEW c \in Conns, WalkPubs(c)
      PROVE  LifeInv'
  <2>a. Phases'
    BY <1>5 DEF WalkPubs, Phases, LifeInv, Typed, ObjectOK, ThreadOK, object, net, history,
       events
  <2>b. Listing'
    BY <1>5 DEF WalkPubs, Listing, LifeInv, Typed, ObjectOK, ThreadOK, QueueOK, object, net,
       history, events
  <2>c. SocketClosedOnce'
    BY <1>5 DEF WalkPubs, SocketClosedOnce, LifeInv, Typed, ObjectOK, ThreadOK, Phases,
       object, net, history, events
  <2>d. Freed'
    BY <1>5 DEF WalkPubs, Freed, LifeInv, Typed, ObjectOK, ThreadOK, Phases, object, net,
       history, events
  <2>e. WaitTerminates'
    BY <1>5 DEF WalkPubs, WaitTerminates, LifeInv, Typed, ObjectOK, ThreadOK, RestOK, LinkOf,
       object, net, history, events
  <2>f. UnloadIsLast'
    BY <1>5 DEF WalkPubs, UnloadIsLast, LifeInv, Typed, ObjectOK, ThreadOK, QueueOK, Held,
       object, net, history, events
  <2>z. QED
    BY <2>a, <2>b, <2>c, <2>d, <2>e, <2>f DEF LifeInv
<1>6. ASSUME NEW c \in Conns, ReceiveStart(c)
      PROVE  LifeInv'
  <2>1. CASE Undefined
    <3>1. Untouched
      BY <2>1 DEF Undefined, Untouched
    <3>2. QED
      BY <3>1 DEF Untouched, LifeInv, Phases, Typed, ObjectOK, ThreadOK, Listing, QueueOK,
         SocketClosedOnce, Freed, WaitTerminates, RestOK, LinkOf, UnloadIsLast, Held, object,
         queue, threads, net, history, events
  <2>2. CASE ~Undefined
    <3>a. Phases'
      BY <1>6, <2>2 DEF ReceiveStart, Phases, LifeInv, Typed, ObjectOK, ThreadOK, queue, net,
         history, events
    <3>b. Listing'
      BY <1>6, <2>2 DEF ReceiveStart, Listing, LifeInv, Typed, ObjectOK, ThreadOK, QueueOK,
         queue, net, history, events
    <3>c. SocketClosedOnce'
      BY <1>6, <2>2 DEF ReceiveStart, SocketClosedOnce, LifeInv, Typed, ObjectOK, ThreadOK,
         Phases, queue, net, history, events
    <3>d. Freed'
      BY <1>6, <2>2 DEF ReceiveStart, Freed, LifeInv, Typed, ObjectOK, ThreadOK, Phases,
         queue, net, history, events
    <3>e. WaitTerminates'
      BY <1>6, <2>2 DEF ReceiveStart, WaitTerminates, LifeInv, Typed, ObjectOK, ThreadOK,
         RestOK, LinkOf, queue, net, history, events
    <3>f. UnloadIsLast'
      BY <1>6, <2>2 DEF ReceiveStart, UnloadIsLast, LifeInv, Typed, ObjectOK, ThreadOK,
         QueueOK, Held, queue, net, history, events
    <3>z. QED
      BY <3>a, <3>b, <3>c, <3>d, <3>e, <3>f DEF LifeInv
  <2>3. QED
    BY <2>1, <2>2
<1>7. ASSUME NEW c \in Conns, ReceiveTerminate(c)
      PROVE  LifeInv'
  <2>1. CASE Undefined
    <3>1. Untouched
      BY <2>1 DEF Undefined, Untouched
    <3>2. QED
      BY <3>1 DEF Untouched, LifeInv, Phases, Typed, ObjectOK, ThreadOK, Listing, QueueOK,
         SocketClosedOnce, Freed, WaitTerminates, RestOK, LinkOf, UnloadIsLast, Held, object,
         queue, threads, net, history, events
  <2>2. CASE ~Undefined
    <3>a. Phases'
      BY <1>7, <2>2 DEF ReceiveTerminate, Phases, LifeInv, Typed, ObjectOK, ThreadOK, queue,
         events, CloseSocket
    <3>b. Listing'
      BY <1>7, <2>2 DEF ReceiveTerminate, Listing, LifeInv, Typed, ObjectOK, ThreadOK,
         QueueOK, queue, events
    <3>c. SocketClosedOnce'
      BY <1>7, <2>2 DEF ReceiveTerminate, SocketClosedOnce, LifeInv, Typed, ObjectOK,
         ThreadOK, Phases, queue, events, CloseSocket
    <3>d. Freed'
      BY <1>7, <2>2 DEF ReceiveTerminate, Freed, LifeInv, Typed, ObjectOK, ThreadOK, Phases,
         queue, events
    <3>e. WaitTerminates'
      BY <1>7, <2>2 DEF ReceiveTerminate, WaitTerminates, LifeInv, Typed, ObjectOK, ThreadOK,
         RestOK, LinkOf, queue, events
    <3>f. UnloadIsLast'
      BY <1>7, <2>2 DEF ReceiveTerminate, UnloadIsLast, LifeInv, Typed, ObjectOK, ThreadOK,
         QueueOK, Held, queue, events
    <3>z. QED
      BY <3>a, <3>b, <3>c, <3>d, <3>e, <3>f DEF LifeInv
  <2>3. QED
    BY <2>1, <2>2
<1>8. ASSUME NEW c \in Conns, ConnectionTerminated(c)
      PROVE  LifeInv'
  <2>1. CASE Undefined
    <3>1. Untouched
      BY <2>1 DEF Undefined, Untouched
    <3>2. QED
      BY <3>1 DEF Untouched, LifeInv, Phases, Typed, ObjectOK, ThreadOK, Listing, QueueOK,
         SocketClosedOnce, Freed, WaitTerminates, RestOK, LinkOf, UnloadIsLast, Held, object,
         queue, threads, net, history, events
  <2>2. CASE ~Undefined
    <3>1. /\ rcv[c] = "remove" /\ rcv' = [rcv EXCEPT ![c] = "delete"]
          /\ UNCHANGED <<object, pc, exists>>
      BY <1>8, <2>2 DEF ConnectionTerminated, object
    <3>a. Phases'
      BY <1>8, <2>2 DEF ConnectionTerminated, Phases, LifeInv, Typed, ObjectOK, ThreadOK,
         object, net, history, events
    <3>b. Listing'
      BY <1>8, <2>2, UnlinkRemoves DEF ConnectionTerminated, Listing, LifeInv, Typed,
         ObjectOK, ThreadOK, QueueOK, object, net, history, events
    <3>c. SocketClosedOnce'
      BY <1>8, <2>2 DEF ConnectionTerminated, SocketClosedOnce, LifeInv, Typed, ObjectOK,
         ThreadOK, Phases, object, net, history, events
    <3>d. Freed'
      BY <3>1 DEF Freed, LifeInv, Typed, ThreadOK
    <3>e. WaitTerminates'
      BY <1>8, <2>2 DEF ConnectionTerminated, WaitTerminates, LifeInv, Typed, ObjectOK,
         ThreadOK, RestOK, LinkOf, object, net, history, events
    <3>f. UnloadIsLast'
      BY <1>8, <2>2 DEF ConnectionTerminated, UnloadIsLast, LifeInv, Typed, ObjectOK,
         ThreadOK, QueueOK, Held, object, net, history, events
    <3>z. QED
      BY <3>a, <3>b, <3>c, <3>d, <3>e, <3>f DEF LifeInv
  <2>3. QED
    BY <2>1, <2>2
<1>9. ASSUME NEW c \in Conns, DeleteInbound(c)
      PROVE  LifeInv'
  <2>1. CASE Undefined
    <3>1. Untouched
      BY <2>1 DEF Undefined, Untouched
    <3>2. QED
      BY <3>1 DEF Untouched, LifeInv, Phases, Typed, ObjectOK, ThreadOK, Listing, QueueOK,
         SocketClosedOnce, Freed, WaitTerminates, RestOK, LinkOf, UnloadIsLast, Held, object,
         queue, threads, net, history, events
  <2>2. CASE ~Undefined
    <3>a. Phases'
      BY <1>9, <2>2 DEF DeleteInbound, Phases, LifeInv, Typed, ObjectOK, ThreadOK, queue, net,
         history, events
    <3>b. Listing'
      BY <1>9, <2>2 DEF DeleteInbound, Listing, LifeInv, Typed, ObjectOK, ThreadOK, QueueOK,
         queue, net, history, events
    <3>c. SocketClosedOnce'
      BY <1>9, <2>2 DEF DeleteInbound, SocketClosedOnce, LifeInv, Typed, ObjectOK, ThreadOK,
         Phases, queue, net, history, events
    <3>d. Freed'
      BY <1>9, <2>2 DEF DeleteInbound, Freed, LifeInv, Typed, ObjectOK, ThreadOK, Phases,
         queue, net, history, events
    <3>e. WaitTerminates'
      BY <1>9, <2>2 DEF DeleteInbound, WaitTerminates, LifeInv, Typed, ObjectOK, ThreadOK,
         RestOK, LinkOf, queue, net, history, events
    <3>f. UnloadIsLast'
      BY <1>9, <2>2 DEF DeleteInbound, UnloadIsLast, LifeInv, Typed, ObjectOK, ThreadOK,
         QueueOK, Held, queue, net, history, events
    <3>z. QED
      BY <3>a, <3>b, <3>c, <3>d, <3>e, <3>f DEF LifeInv
  <2>3. QED
    BY <2>1, <2>2
<1>10. ASSUME NEW c \in Conns, AddRemovalEvent(c)
      PROVE  LifeInv'
  <2>1. CASE Undefined
    <3>1. Untouched
      BY <2>1 DEF Undefined, Untouched
    <3>2. QED
      BY <3>1 DEF Untouched, LifeInv, Phases, Typed, ObjectOK, ThreadOK, Listing, QueueOK,
         SocketClosedOnce, Freed, WaitTerminates, RestOK, LinkOf, UnloadIsLast, Held, object,
         queue, threads, net, history, events
  <2>2. CASE ~Undefined
    <3>a. Phases'
      BY <1>10, <2>2 DEF AddRemovalEvent, Phases, LifeInv, Typed, ObjectOK, ThreadOK, object,
         queue, net
    <3>b. Listing'
      BY <1>10, <2>2 DEF AddRemovalEvent, Listing, LifeInv, Typed, ObjectOK, ThreadOK,
         QueueOK, object, queue, net
    <3>c. SocketClosedOnce'
      BY <1>10, <2>2 DEF AddRemovalEvent, SocketClosedOnce, LifeInv, Typed, ObjectOK,
         ThreadOK, Phases, object, queue, net
    <3>d. Freed'
      BY <1>10, <2>2 DEF AddRemovalEvent, Freed, LifeInv, Typed, ObjectOK, ThreadOK, Phases,
         object, queue, net
    <3>e. WaitTerminates'
      BY <1>10, <2>2 DEF AddRemovalEvent, WaitTerminates, LifeInv, Typed, ObjectOK, ThreadOK,
         RestOK, LinkOf, object, queue, net
    <3>f. UnloadIsLast'
      BY <1>10, <2>2 DEF AddRemovalEvent, UnloadIsLast, LifeInv, Typed, ObjectOK, ThreadOK,
         QueueOK, Held, object, queue, net
    <3>z. QED
      BY <3>a, <3>b, <3>c, <3>d, <3>e, <3>f DEF LifeInv
  <2>3. QED
    BY <2>1, <2>2
<1>11. ASSUME NEW c \in Conns, ReceiveReturn(c)
      PROVE  LifeInv'
  <2>1. CASE Undefined
    <3>1. Untouched
      BY <2>1 DEF Undefined, Untouched
    <3>2. QED
      BY <3>1 DEF Untouched, LifeInv, Phases, Typed, ObjectOK, ThreadOK, Listing, QueueOK,
         SocketClosedOnce, Freed, WaitTerminates, RestOK, LinkOf, UnloadIsLast, Held, object,
         queue, threads, net, history, events
  <2>2. CASE ~Undefined
    <3>a. Phases'
      BY <1>11, <2>2 DEF ReceiveReturn, Phases, LifeInv, Typed, ObjectOK, ThreadOK, queue,
         net, history, events
    <3>b. Listing'
      BY <1>11, <2>2 DEF ReceiveReturn, Listing, LifeInv, Typed, ObjectOK, ThreadOK, QueueOK,
         queue, net, history, events
    <3>c. SocketClosedOnce'
      BY <1>11, <2>2 DEF ReceiveReturn, SocketClosedOnce, LifeInv, Typed, ObjectOK, ThreadOK,
         Phases, queue, net, history, events
    <3>d. Freed'
      BY <1>11, <2>2 DEF ReceiveReturn, Freed, LifeInv, Typed, ObjectOK, ThreadOK, Phases,
         queue, net, history, events
    <3>e. WaitTerminates'
      BY <1>11, <2>2 DEF ReceiveReturn, WaitTerminates, LifeInv, Typed, ObjectOK, ThreadOK,
         RestOK, LinkOf, queue, net, history, events
    <3>f. UnloadIsLast'
      BY <1>11, <2>2 DEF ReceiveReturn, UnloadIsLast, LifeInv, Typed, ObjectOK, ThreadOK,
         QueueOK, Held, queue, net, history, events
    <3>z. QED
      BY <3>a, <3>b, <3>c, <3>d, <3>e, <3>f DEF LifeInv
  <2>3. QED
    BY <2>1, <2>2
<1>12. ASSUME NEW c \in Conns, PeerGone(c)
      PROVE  LifeInv'
  <2>a. Phases'
    BY <1>12 DEF PeerGone, Phases, LifeInv, Typed, ObjectOK, ThreadOK, object, queue, threads,
       history, events
  <2>b. Listing'
    BY <1>12 DEF PeerGone, Listing, LifeInv, Typed, ObjectOK, ThreadOK, QueueOK, object,
       queue, threads, history, events
  <2>c. SocketClosedOnce'
    BY <1>12 DEF PeerGone, SocketClosedOnce, LifeInv, Typed, ObjectOK, ThreadOK, Phases,
       object, queue, threads, history, events
  <2>d. Freed'
    BY <1>12 DEF PeerGone, Freed, LifeInv, Typed, ObjectOK, ThreadOK, Phases, object, queue,
       threads, history, events
  <2>e. WaitTerminates'
    BY <1>12 DEF PeerGone, WaitTerminates, LifeInv, Typed, ObjectOK, ThreadOK, RestOK, LinkOf,
       object, queue, threads, history, events
  <2>f. UnloadIsLast'
    BY <1>12 DEF PeerGone, UnloadIsLast, LifeInv, Typed, ObjectOK, ThreadOK, QueueOK, Held,
       object, queue, threads, history, events
  <2>z. QED
    BY <2>a, <2>b, <2>c, <2>d, <2>e, <2>f DEF LifeInv
<1>13. ASSUME NEW c \in Outbound, CloseOutbound(c)
      PROVE  LifeInv'
  <2>a. Phases'
    BY <1>13 DEF CloseOutbound, Phases, LifeInv, Typed, ObjectOK, ThreadOK, queue, events,
       CloseSocket
  <2>b. Listing'
    <3>1. UNCHANGED m_ConnectionHead
      BY <1>13 DEF CloseOutbound, queue
    <3>2. \E x \in {"closed", "closing", "reaping"} : pc' = [pc EXCEPT ![c] = x]
      BY <1>13 DEF CloseOutbound
    <3>3. QED
      BY <3>1, <3>2, ListingStays DEF LifeInv, Typed, ThreadOK
  <2>c. SocketClosedOnce'
    BY <1>13 DEF CloseOutbound, SocketClosedOnce, LifeInv, Typed, ObjectOK, ThreadOK, Phases,
       queue, events, CloseSocket
  <2>d. Freed'
    BY <1>13 DEF CloseOutbound, Freed, LifeInv, Typed, ObjectOK, ThreadOK, Phases, queue, events
  <2>e. WaitTerminates'
    BY <1>13 DEF CloseOutbound, WaitTerminates, LifeInv, Typed, ObjectOK, ThreadOK, RestOK,
       LinkOf, queue, events
  <2>f. UnloadIsLast'
    BY <1>13 DEF CloseOutbound, UnloadIsLast, LifeInv, Typed, ObjectOK, ThreadOK, QueueOK,
       Held, queue, events
  <2>z. QED
    BY <2>a, <2>b, <2>c, <2>d, <2>e, <2>f DEF LifeInv
<1>14. ASSUME NEW c \in Outbound, FreeOutbound(c)
      PROVE  LifeInv'
  <2>a. Phases'
    BY <1>14 DEF FreeOutbound, Phases, LifeInv, Typed, ObjectOK, ThreadOK, queue, net, events,
       CloseSocket
  <2>b. Listing'
    BY <1>14 DEF FreeOutbound, Listing, LifeInv, Typed, ObjectOK, ThreadOK, QueueOK, queue,
       net, events
  <2>c. SocketClosedOnce'
    BY <1>14 DEF FreeOutbound, SocketClosedOnce, LifeInv, Typed, ObjectOK, ThreadOK, Phases,
       queue, net, events, CloseSocket
  <2>d. Freed'
    BY <1>14 DEF FreeOutbound, Freed, LifeInv, Typed, ObjectOK, ThreadOK, Phases, queue, net,
       events
  <2>e. WaitTerminates'
    BY <1>14 DEF FreeOutbound, WaitTerminates, LifeInv, Typed, ObjectOK, ThreadOK, RestOK,
       LinkOf, queue, net, events
  <2>f. UnloadIsLast'
    BY <1>14 DEF FreeOutbound, UnloadIsLast, LifeInv, Typed, ObjectOK, ThreadOK, QueueOK,
       Held, queue, net, events
  <2>z. QED
    BY <2>a, <2>b, <2>c, <2>d, <2>e, <2>f DEF LifeInv
<1>15. ASSUME NEW p \in Pubs, SetPayload(p)
      PROVE  LifeInv'
  <2>a. Phases'
    BY <1>15 DEF SetPayload, Phases, LifeInv, Typed, ObjectOK, ThreadOK, object, net, history,
       events
  <2>b. Listing'
    BY <1>15 DEF SetPayload, Listing, LifeInv, Typed, ObjectOK, ThreadOK, QueueOK, object,
       net, history, events
  <2>c. SocketClosedOnce'
    BY <1>15 DEF SetPayload, SocketClosedOnce, LifeInv, Typed, ObjectOK, ThreadOK, Phases,
       object, net, history, events
  <2>d. Freed'
    BY <1>15 DEF SetPayload, Freed, LifeInv, Typed, ObjectOK, ThreadOK, Phases, object, net,
       history, events
  <2>e. WaitTerminates'
    BY <1>15 DEF SetPayload, WaitTerminates, LifeInv, Typed, ObjectOK, ThreadOK, RestOK,
       LinkOf, object, net, history, events
  <2>f. UnloadIsLast'
    BY <1>15 DEF SetPayload, UnloadIsLast, LifeInv, Typed, ObjectOK, ThreadOK, QueueOK, Held,
       object, net, history, events
  <2>z. QED
    BY <2>a, <2>b, <2>c, <2>d, <2>e, <2>f DEF LifeInv
<1>16. ASSUME NEW p \in Pubs, Publish(p)
      PROVE  LifeInv'
  <2>a. Phases'
    BY <1>16 DEF Publish, Phases, LifeInv, Typed, ObjectOK, ThreadOK, object, net, history,
       events
  <2>b. Listing'
    BY <1>16 DEF Publish, Listing, LifeInv, Typed, ObjectOK, ThreadOK, QueueOK, object, net,
       history, events
  <2>c. SocketClosedOnce'
    BY <1>16 DEF Publish, SocketClosedOnce, LifeInv, Typed, ObjectOK, ThreadOK, Phases,
       object, net, history, events
  <2>d. Freed'
    BY <1>16 DEF Publish, Freed, LifeInv, Typed, ObjectOK, ThreadOK, Phases, object, net,
       history, events
  <2>e. WaitTerminates'
    BY <1>16 DEF Publish, WaitTerminates, LifeInv, Typed, ObjectOK, ThreadOK, RestOK, LinkOf,
       object, net, history, events
  <2>f. UnloadIsLast'
    BY <1>16 DEF Publish, UnloadIsLast, LifeInv, Typed, ObjectOK, ThreadOK, QueueOK, Held,
       object, net, history, events
  <2>z. QED
    BY <2>a, <2>b, <2>c, <2>d, <2>e, <2>f DEF LifeInv
<1>17. ASSUME NEW p \in Pubs, SetEnabled(p)
      PROVE  LifeInv'
  <2>a. Phases'
    BY <1>17 DEF SetEnabled, Phases, LifeInv, Typed, ObjectOK, ThreadOK, object, queue,
       threads, net, events
  <2>b. Listing'
    BY <1>17 DEF SetEnabled, Listing, LifeInv, Typed, ObjectOK, ThreadOK, QueueOK, object,
       queue, threads, net, events
  <2>c. SocketClosedOnce'
    BY <1>17 DEF SetEnabled, SocketClosedOnce, LifeInv, Typed, ObjectOK, ThreadOK, Phases,
       object, queue, threads, net, events
  <2>d. Freed'
    BY <1>17 DEF SetEnabled, Freed, LifeInv, Typed, ObjectOK, ThreadOK, Phases, object, queue,
       threads, net, events
  <2>e. WaitTerminates'
    BY <1>17 DEF SetEnabled, WaitTerminates, LifeInv, Typed, ObjectOK, ThreadOK, RestOK,
       LinkOf, object, queue, threads, net, events
  <2>f. UnloadIsLast'
    BY <1>17 DEF SetEnabled, UnloadIsLast, LifeInv, Typed, ObjectOK, ThreadOK, QueueOK, Held,
       object, queue, threads, net, events
  <2>z. QED
    BY <2>a, <2>b, <2>c, <2>d, <2>e, <2>f DEF LifeInv
<1>18. ASSUME NEW p \in Pubs, ClosePublication(p)
      PROVE  LifeInv'
  <2>a. Phases'
    BY <1>18 DEF ClosePublication, Phases, LifeInv, Typed, ObjectOK, ThreadOK, object, net,
       events
  <2>b. Listing'
    BY <1>18 DEF ClosePublication, Listing, LifeInv, Typed, ObjectOK, ThreadOK, QueueOK,
       object, net, events
  <2>c. SocketClosedOnce'
    BY <1>18 DEF ClosePublication, SocketClosedOnce, LifeInv, Typed, ObjectOK, ThreadOK,
       Phases, object, net, events
  <2>d. Freed'
    BY <1>18 DEF ClosePublication, Freed, LifeInv, Typed, ObjectOK, ThreadOK, Phases, object,
       net, events
  <2>e. WaitTerminates'
    BY <1>18 DEF ClosePublication, WaitTerminates, LifeInv, Typed, ObjectOK, ThreadOK, RestOK,
       LinkOf, object, net, events
  <2>f. UnloadIsLast'
    BY <1>18 DEF ClosePublication, UnloadIsLast, LifeInv, Typed, ObjectOK, ThreadOK, QueueOK,
       Held, object, net, events
  <2>z. QED
    BY <2>a, <2>b, <2>c, <2>d, <2>e, <2>f DEF LifeInv
<1>19. ASSUME NEW t \in Conns \cup Pubs, TransmitMessage(t)
      PROVE  LifeInv'
  <2>1. CASE Undefined
    <3>1. Untouched
      BY <2>1 DEF Undefined, Untouched
    <3>2. QED
      BY <3>1 DEF Untouched, LifeInv, Phases, Typed, ObjectOK, ThreadOK, Listing, QueueOK,
         SocketClosedOnce, Freed, WaitTerminates, RestOK, LinkOf, UnloadIsLast, Held, object,
         queue, threads, net, history, events
  <2>2. CASE ~Undefined
    <3>1. rest[t] # <<>> /\ LinkOf(t) \in Conns /\ PubOf(t) \in Pubs
      BY <1>19, LinkTyped DEF TransmitMessage, Typed, RestOK
    <3> DEFINE k == LinkOf(t)
    <3>2. \/ UNCHANGED <<_State, _Socket, shut, closes, pc>>
          \/ /\ _Socket[k] /\ ~shut[k] /\ pc[t] = "transmit"
             /\ _State' = [_State EXCEPT ![k] = "TERMINATED"] /\ shut' = [shut EXCEPT ![k] = TRUE]
             /\ \/ CloseSocket(k) /\ pc' = pc
                \/ UNCHANGED <<_Socket, closes>> /\ pc' = [pc EXCEPT ![t] = "wait"]
      BY <1>19, <2>2 DEF TransmitMessage, object, net, history
    <3>3. UNCHANGED <<exists, rcv>> /\ (t \in Conns => k = t /\ (_Socket[t] => exists[t] # "none"))
      BY <1>19, <2>2, <3>1, Threads DEF TransmitMessage, object, net, history, LinkOf,
         LifeInv, Phases
    <3> HIDE DEF k
    <3>a. Phases'
      BY <3>1, <3>2, <3>3 DEF Phases, LifeInv, Typed, ObjectOK, ThreadOK, CloseSocket, k
    <3>b. Listing'
      <4>1. UNCHANGED m_ConnectionHead
        BY <1>19, <2>2 DEF TransmitMessage, queue
      <4>2. \A c \in Conns : pc'[c] = pc[c] \/ pc'[c] = "wait"
        BY <3>2 DEF Typed, ThreadOK
      <4>3. QED
        BY <4>1, <4>2, ListingStays DEF LifeInv
    <3>c. SocketClosedOnce'
      BY <1>19, <2>2, <3>1 DEF TransmitMessage, SocketClosedOnce, LifeInv, Typed, ObjectOK,
         ThreadOK, Phases, object, queue, net, history, events, CloseSocket
    <3>d. Freed'
      BY <1>19, <2>2, <3>1 DEF TransmitMessage, Freed, LifeInv, Typed, ObjectOK, ThreadOK,
         Phases, object, queue, net, history, events, CloseSocket
    <3>e. WaitTerminates'
      <4>1. \A u \in Conns \cup Pubs : u # t => rest'[u] = rest[u] /\ pc'[u] = pc[u]
        BY <1>19, <2>2 DEF TransmitMessage, Typed, ThreadOK, RestOK
      <4>2. \A u \in Conns \cup Pubs : pc[u] = "wait" =>
                LinkOf(u) \in Conns /\ _State[LinkOf(u)] = "TERMINATED"
        BY LinkTyped DEF LifeInv, WaitTerminates, Typed, RestOK
      <4>3. \A d \in Conns : _State[d] = "TERMINATED" => _State'[d] = "TERMINATED"
        BY <3>2 DEF Typed, ObjectOK
      <4>4. pc'[t] = "wait" => rest' = rest /\ _State'[k] = "TERMINATED"
        BY <1>19, <2>2, <3>1 DEF TransmitMessage, Typed, ObjectOK, k
      <4>5. QED
        BY <4>1, <4>2, <4>3, <4>4 DEF WaitTerminates, LinkOf, k
    <3>f. UnloadIsLast'
      <4>1. pc[t] \in Held /\ UNCHANGED unload
        BY <1>19, <2>2 DEF TransmitMessage, Held
      <4>2. unload = "no"
        BY <4>1 DEF Held, LifeInv, UnloadIsLast, Conns
      <4>3. QED
        BY <4>1, <4>2 DEF UnloadIsLast
    <3>z. QED
      BY <3>a, <3>b, <3>c, <3>d, <3>e, <3>f DEF LifeInv
  <2>3. QED
    BY <2>1, <2>2
<1>20. ASSUME NEW t \in Conns \cup Pubs, TerminateReturns(t)
      PROVE  LifeInv'
  <2>1. CASE Undefined
    <3>1. Untouched
      BY <2>1 DEF Undefined, Untouched
    <3>2. QED
      BY <3>1 DEF Untouched, LifeInv, Phases, Typed, ObjectOK, ThreadOK, Listing, QueueOK,
         SocketClosedOnce, Freed, WaitTerminates, RestOK, LinkOf, UnloadIsLast, Held, object,
         queue, threads, net, history, events
  <2>2. CASE ~Undefined
    <3>1. rest[t] # <<>> /\ LinkOf(t) \in Conns /\ PubOf(t) \in Pubs
      BY <1>20, LinkTyped DEF TerminateReturns, Typed, RestOK
    <3> DEFINE k == LinkOf(t)
    <3>2. /\ pc[t] = "wait" /\ pc' = [pc EXCEPT ![t] = "transmit"] /\ CloseSocket(k)
          /\ UNCHANGED <<_State, exists, rcv, shut>> /\ _State[k] = "TERMINATED"
      BY <1>20, <2>2, <3>1 DEF TerminateReturns, net, LifeInv, WaitTerminates
    <3>a. Phases'
      BY <3>1, <3>2 DEF Phases, LifeInv, Typed, ObjectOK, ThreadOK, CloseSocket
    <3>b. Listing'
      <4>1. UNCHANGED m_ConnectionHead
        BY <1>20, <2>2 DEF TerminateReturns, queue
      <4>2. pc' = [pc EXCEPT ![t] = "transmit"]
        BY <1>20, <2>2 DEF TerminateReturns
      <4>3. QED
        BY <4>1, <4>2, ListingStays DEF LifeInv, Typed, ThreadOK
    <3>c. SocketClosedOnce'
      BY <3>1, <3>2 DEF SocketClosedOnce, LifeInv, Typed, ObjectOK, CloseSocket
    <3>d. Freed'
      BY <1>20, <2>2, <3>1 DEF TerminateReturns, Freed, LifeInv, Typed, ObjectOK, ThreadOK,
         Phases, queue, net, events, CloseSocket
    <3>e. WaitTerminates'
      BY <1>20, <2>2, <3>1 DEF TerminateReturns, WaitTerminates, LifeInv, Typed, ObjectOK,
         ThreadOK, RestOK, LinkOf, queue, net, events, CloseSocket
    <3>f. UnloadIsLast'
      <4>1. pc[t] \in Held /\ UNCHANGED unload
        BY <1>20, <2>2 DEF TerminateReturns, Held
      <4>2. unload = "no"
        BY <4>1 DEF Held, LifeInv, UnloadIsLast, Conns
      <4>3. QED
        BY <4>1, <4>2 DEF UnloadIsLast
    <3>z. QED
      BY <3>a, <3>b, <3>c, <3>d, <3>e, <3>f DEF LifeInv
  <2>3. QED
    BY <2>1, <2>2
<1>21. ASSUME NEW t \in Conns \cup Pubs, EndWalk(t)
      PROVE  LifeInv'
  <2>a. Phases'
    BY <1>21 DEF EndWalk, Phases, LifeInv, Typed, ObjectOK, ThreadOK, object, net, history,
       events
  <2>b. Listing'
    <3>1. UNCHANGED m_ConnectionHead
      BY <1>21 DEF EndWalk
    <3>2. \/ pc' = [pc EXCEPT ![t] = "done"] \/ pc' = [pc EXCEPT ![t] = "publish"]
      BY <1>21 DEF EndWalk
    <3>3. QED
      BY <3>1, <3>2, ListingStays DEF LifeInv, Typed, ThreadOK
  <2>c. SocketClosedOnce'
    BY <1>21 DEF EndWalk, SocketClosedOnce, LifeInv, Typed, ObjectOK, ThreadOK, Phases,
       object, net, history, events
  <2>d. Freed'
    BY <1>21 DEF EndWalk, Freed, LifeInv, Typed, ObjectOK, ThreadOK, Phases, object, net,
       history, events
  <2>e. WaitTerminates'
    BY <1>21 DEF EndWalk, WaitTerminates, LifeInv, Typed, ObjectOK, ThreadOK, RestOK, LinkOf,
       object, net, history, events
  <2>f. UnloadIsLast'
    <3>1. pc[t] \in Held /\ UNCHANGED unload
      BY <1>21 DEF EndWalk, Held
    <3>2. unload = "no"
      BY <3>1 DEF Held, LifeInv, UnloadIsLast, Conns
    <3>3. QED
      BY <3>1, <3>2 DEF UnloadIsLast
  <2>z. QED
    BY <2>a, <2>b, <2>c, <2>d, <2>e, <2>f DEF LifeInv
<1>22. CASE BeginUnload
  <2>a. Phases'
    BY <1>22 DEF BeginUnload, Phases, LifeInv, Typed, ObjectOK, ThreadOK, object, queue, net,
       history, events
  <2>b. Listing'
    BY <1>22 DEF BeginUnload, Listing, LifeInv, Typed, ObjectOK, ThreadOK, QueueOK, object,
       queue, net, history, events
  <2>c. SocketClosedOnce'
    BY <1>22 DEF BeginUnload, SocketClosedOnce, LifeInv, Typed, ObjectOK, ThreadOK, Phases,
       object, queue, net, history, events
  <2>d. Freed'
    BY <1>22 DEF BeginUnload, Freed, LifeInv, Typed, ObjectOK, ThreadOK, Phases, object,
       queue, net, history, events
  <2>e. WaitTerminates'
    BY <1>22 DEF BeginUnload, WaitTerminates, LifeInv, Typed, ObjectOK, ThreadOK, RestOK,
       LinkOf, object, queue, net, history, events
  <2>f. UnloadIsLast'
    BY <1>22 DEF BeginUnload, UnloadIsLast, LifeInv, Typed, ObjectOK, ThreadOK, QueueOK, Held,
       object, queue, net, history, events
  <2>z. QED
    BY <2>a, <2>b, <2>c, <2>d, <2>e, <2>f DEF LifeInv
<1>23. CASE DeleteConnection
  <2>1. CASE Undefined
    <3>1. Untouched
      BY <2>1 DEF Undefined, Untouched
    <3>2. QED
      BY <3>1 DEF Untouched, LifeInv, Phases, Typed, ObjectOK, ThreadOK, Listing, QueueOK,
         SocketClosedOnce, Freed, WaitTerminates, RestOK, LinkOf, UnloadIsLast, Held, object,
         queue, threads, net, history, events
  <2>2. CASE ~Undefined
    <3>1. Head(m_ConnectionHead) \in Conns
      BY <1>23, TailTaken DEF DeleteConnection, Typed, QueueOK
    <3>2. /\ pc[Head(m_ConnectionHead)] \notin {"idle", "failed", "insert"}
          /\ Distinct(Tail(m_ConnectionHead))
          /\ Elements(Tail(m_ConnectionHead)) \subseteq Elements(m_ConnectionHead)
      BY <1>23, TailTaken DEF DeleteConnection, Typed, QueueOK, LifeInv, Listing
    <3>3. /\ unload = "delete" /\ UNCHANGED <<pc, disturbed>>
          /\ m_ConnectionHead' = Tail(m_ConnectionHead)
      BY <1>23, <2>2 DEF DeleteConnection
    <3>a. Phases'
      BY <1>23, <2>2, <3>1, <3>2 DEF DeleteConnection, Phases, LifeInv, Typed, ObjectOK,
         ThreadOK, history, events
    <3>b. Listing'
      BY <3>2, <3>3 DEF Listing, LifeInv, Typed, QueueOK
    <3>c. SocketClosedOnce'
      BY <1>23, <2>2 DEF DeleteConnection, SocketClosedOnce, LifeInv, Typed, ObjectOK,
         ThreadOK, Phases, history, events
    <3>d. Freed'
      BY <1>23, <2>2 DEF DeleteConnection, Freed, LifeInv, Typed, ObjectOK, ThreadOK, Phases,
         history, events
    <3>e. WaitTerminates'
      BY <1>23, <2>2, <3>1 DEF DeleteConnection, WaitTerminates, LifeInv, Typed, ObjectOK,
         ThreadOK, RestOK, LinkOf, history, events
    <3>f. UnloadIsLast'
      BY <3>3 DEF UnloadIsLast, LifeInv
    <3>z. QED
      BY <3>a, <3>b, <3>c, <3>d, <3>e, <3>f DEF LifeInv
  <2>3. QED
    BY <2>1, <2>2
<1>24. CASE DeleteReturns
  <2>1. CASE Undefined
    <3>1. Untouched
      BY <2>1 DEF Undefined, Untouched
    <3>2. QED
      BY <3>1 DEF Untouched, LifeInv, Phases, Typed, ObjectOK, ThreadOK, Listing, QueueOK,
         SocketClosedOnce, Freed, WaitTerminates, RestOK, LinkOf, UnloadIsLast, Held, object,
         queue, threads, net, history, events
  <2>2. CASE ~Undefined
    <3>a. Phases'
      BY <1>24, <2>2 DEF DeleteReturns, Phases, LifeInv, Typed, ObjectOK, ThreadOK
    <3>b. Listing'
      BY <1>24, <2>2 DEF DeleteReturns, Listing, LifeInv, Typed, ObjectOK, ThreadOK, QueueOK
    <3>c. SocketClosedOnce'
      BY <1>24, <2>2 DEF DeleteReturns, SocketClosedOnce, LifeInv, Typed, ObjectOK, ThreadOK,
         Phases
    <3>d. Freed'
      BY <1>24, <2>2 DEF DeleteReturns, Freed, LifeInv, Typed, ObjectOK, ThreadOK, Phases
    <3>e. WaitTerminates'
      BY <1>24, <2>2 DEF DeleteReturns, WaitTerminates, LifeInv, Typed, ObjectOK, ThreadOK,
         RestOK, LinkOf
    <3>f. UnloadIsLast'
      BY <1>24, <2>2 DEF DeleteReturns, UnloadIsLast, LifeInv, Typed, ObjectOK, ThreadOK,
         QueueOK, Held
    <3>z. QED
      BY <3>a, <3>b, <3>c, <3>d, <3>e, <3>f DEF LifeInv
  <2>3. QED
    BY <2>1, <2>2
<1>25. CASE EndUnload
  <2>a. Phases'
    BY <1>25 DEF EndUnload, Phases, LifeInv, Typed, ObjectOK, ThreadOK, object, queue, net,
       history, events
  <2>b. Listing'
    BY <1>25 DEF EndUnload, Listing, LifeInv, Typed, ObjectOK, ThreadOK, QueueOK, object,
       queue, net, history, events
  <2>c. SocketClosedOnce'
    BY <1>25 DEF EndUnload, SocketClosedOnce, LifeInv, Typed, ObjectOK, ThreadOK, Phases,
       object, queue, net, history, events
  <2>d. Freed'
    BY <1>25 DEF EndUnload, Freed, LifeInv, Typed, ObjectOK, ThreadOK, Phases, object, queue,
       net, history, events
  <2>e. WaitTerminates'
    BY <1>25 DEF EndUnload, WaitTerminates, LifeInv, Typed, ObjectOK, ThreadOK, RestOK,
       LinkOf, object, queue, net, history, events
  <2>f. UnloadIsLast'
    BY <1>25 DEF EndUnload, UnloadIsLast, LifeInv, Typed, ObjectOK, ThreadOK, QueueOK, Held,
       object, queue, net, history, events
  <2>z. QED
    BY <2>a, <2>b, <2>c, <2>d, <2>e, <2>f DEF LifeInv
<1>26. CASE UNCHANGED vars
  <2>a. Phases'
    BY <1>26 DEF Phases, LifeInv, Typed, ObjectOK, ThreadOK, object, queue, threads, net,
       history, events, vars
  <2>b. Listing'
    BY <1>26 DEF Listing, LifeInv, Typed, ObjectOK, ThreadOK, QueueOK, object, queue, threads,
       net, history, events, vars
  <2>c. SocketClosedOnce'
    BY <1>26 DEF SocketClosedOnce, LifeInv, Typed, ObjectOK, ThreadOK, Phases, object, queue,
       threads, net, history, events, vars
  <2>d. Freed'
    BY <1>26 DEF Freed, LifeInv, Typed, ObjectOK, ThreadOK, Phases, object, queue, threads,
       net, history, events, vars
  <2>e. WaitTerminates'
    BY <1>26 DEF WaitTerminates, LifeInv, Typed, ObjectOK, ThreadOK, RestOK, LinkOf, object,
       queue, threads, net, history, events, vars
  <2>f. UnloadIsLast'
    BY <1>26 DEF UnloadIsLast, LifeInv, Typed, ObjectOK, ThreadOK, QueueOK, Held, object,
       queue, threads, net, history, events, vars
  <2>z. QED
    BY <2>a, <2>b, <2>c, <2>d, <2>e, <2>f DEF LifeInv
<1>27. QED
  BY <1>1, <1>2, <1>3, <1>4, <1>5, <1>6, <1>7, <1>8, <1>9, <1>10, <1>11,
     <1>12, <1>13, <1>14, <1>15, <1>16, <1>17, <1>18, <1>19, <1>20, <1>21,
     <1>22, <1>23, <1>24, <1>25, <1>26
  DEF Next, Establish, Receive

-----------------------------------------------------------------------------
(***************************************************************************)
(* Who walks a list holds its lock, and the list stays what it was.        *)
(***************************************************************************)
Locks ==
  /\ \A c \in Conns : pc[c] \in Held <=> m_PubsLock = c
  /\ \A p \in Pubs : pc[p] \in Held <=> m_ConnectionLock = p

WalkInv == Locks /\ WalksTheList

LEMMA WalkStarts == Init => WalkInv
BY Threads DEF Init, WalkInv, Locks, WalksTheList, Held

\* One entry of a walk.
LEMMA WalkOn ==
  ASSUME Typed, WalkInv, NEW t \in Conns \cup Pubs, pc[t] \in Held, rest[t] # <<>>,
         rest' = [rest EXCEPT ![t] = Tail(@)],
         UNCHANGED <<m_ConnectionHead, m_PubsHead, m_ConnectionLock, m_PubsLock>>
  PROVE  WalksTheList'
<1> USE Threads
<1>1. /\ rest'[t] = Tail(rest[t])
      /\ \A u \in Conns \cup Pubs : u # t => rest'[u] = rest[u]
  BY DEF Typed, RestOK
<1>2. CASE t \in Conns
  <2>1. m_PubsLock = t /\ IsTailOf(rest[t], m_PubsHead)
    BY <1>2 DEF WalkInv, Locks, WalksTheList
  <2>2. IsTailOf(Tail(rest[t]), m_PubsHead)
    BY <1>2, <2>1, TailOfTail DEF Typed, RestOK, QueueOK
  <2>3. QED
    BY <1>1, <1>2, <2>1, <2>2 DEF WalkInv, WalksTheList
<1>3. CASE t \in Pubs
  <2>1. m_ConnectionLock = t /\ IsTailOf(rest[t], m_ConnectionHead)
    BY <1>3 DEF WalkInv, Locks, WalksTheList
  <2>2. IsTailOf(Tail(rest[t]), m_ConnectionHead)
    BY <1>3, <2>1, TailOfTail DEF Typed, RestOK, QueueOK
  <2>3. QED
    BY <1>1, <1>3, <2>1, <2>2 DEF WalkInv, WalksTheList
<1>4. QED
  BY <1>2, <1>3

LEMMA WalkKept ==
  ASSUME Typed, LifeInv, WalkInv, [Next]_vars
  PROVE  WalkInv'
<1> USE Threads
<1>1. ASSUME NEW c \in Conns, NEW id \in StaleIds \cup {"other"}, FinalizeEstablish(c, id)
      PROVE  WalkInv'
  <2>a. Locks'
    BY <1>1 DEF FinalizeEstablish, Locks, WalkInv, Typed, ThreadOK, Held, queue, net, history,
       events
  <2>b. WalksTheList'
    BY <1>1 DEF FinalizeEstablish, WalksTheList, WalkInv, Typed, RestOK, queue, net, history,
       events
  <2>z. QED
    BY <2>a, <2>b DEF WalkInv
<1>2. ASSUME NEW c \in Conns, FailEstablish(c)
      PROVE  WalkInv'
  <2>a. Locks'
    BY <1>2 DEF FailEstablish, Locks, WalkInv, Typed, ThreadOK, Held, queue, net, events
  <2>b. WalksTheList'
    BY <1>2 DEF FailEstablish, WalksTheList, WalkInv, Typed, RestOK, queue, net, events
  <2>z. QED
    BY <2>a, <2>b DEF WalkInv
<1>3. ASSUME NEW c \in Conns, ConnectionEstablished(c)
      PROVE  WalkInv'
  <2>1. CASE Undefined
    <3>1. Untouched
      BY <2>1 DEF Undefined, Untouched
    <3>2. QED
      BY <3>1 DEF Untouched, WalkInv, Locks, Typed, ThreadOK, Held, WalksTheList, RestOK,
         object, queue, threads, net, history, events
  <2>2. CASE ~Undefined
    <3>a. Locks'
      BY <1>3, <2>2 DEF ConnectionEstablished, Locks, WalkInv, Typed, ThreadOK, Held, object,
         net, events
    <3>b. WalksTheList'
      BY <1>3, <2>2 DEF ConnectionEstablished, WalksTheList, WalkInv, Typed, RestOK, object,
         net, events
    <3>z. QED
      BY <3>a, <3>b DEF WalkInv
  <2>3. QED
    BY <2>1, <2>2
<1>4. ASSUME NEW c \in Conns, AddArrivalEvent(c)
      PROVE  WalkInv'
  <2>a. Locks'
    BY <1>4 DEF AddArrivalEvent, Locks, WalkInv, Typed, ThreadOK, Held, object, queue, net
  <2>b. WalksTheList'
    BY <1>4 DEF AddArrivalEvent, WalksTheList, WalkInv, Typed, RestOK, object, queue, net
  <2>z. QED
    BY <2>a, <2>b DEF WalkInv
<1>5. ASSUME NEW c \in Conns, WalkPubs(c)
      PROVE  WalkInv'
  <2>a. Locks'
    BY <1>5 DEF WalkPubs, Locks, WalkInv, Typed, ThreadOK, Held, object, net, history, events
  <2>b. WalksTheList'
    BY <1>5, TailOfAll DEF WalkPubs, WalksTheList, WalkInv, Typed, RestOK, object, net,
       history, events, QueueOK
  <2>z. QED
    BY <2>a, <2>b DEF WalkInv
<1>6. ASSUME NEW c \in Conns, ReceiveStart(c)
      PROVE  WalkInv'
  <2>1. CASE Undefined
    <3>1. Untouched
      BY <2>1 DEF Undefined, Untouched
    <3>2. QED
      BY <3>1 DEF Untouched, WalkInv, Locks, Typed, ThreadOK, Held, WalksTheList, RestOK,
         object, queue, threads, net, history, events
  <2>2. CASE ~Undefined
    <3>a. Locks'
      BY <1>6, <2>2 DEF ReceiveStart, Locks, WalkInv, Typed, ThreadOK, Held, queue, net,
         history, events
    <3>b. WalksTheList'
      BY <1>6, <2>2 DEF ReceiveStart, WalksTheList, WalkInv, Typed, RestOK, queue, net,
         history, events
    <3>z. QED
      BY <3>a, <3>b DEF WalkInv
  <2>3. QED
    BY <2>1, <2>2
<1>7. ASSUME NEW c \in Conns, ReceiveTerminate(c)
      PROVE  WalkInv'
  <2>1. CASE Undefined
    <3>1. Untouched
      BY <2>1 DEF Undefined, Untouched
    <3>2. QED
      BY <3>1 DEF Untouched, WalkInv, Locks, Typed, ThreadOK, Held, WalksTheList, RestOK,
         object, queue, threads, net, history, events
  <2>2. CASE ~Undefined
    <3>a. Locks'
      BY <1>7, <2>2 DEF ReceiveTerminate, Locks, WalkInv, Typed, ThreadOK, Held, queue, events
    <3>b. WalksTheList'
      BY <1>7, <2>2 DEF ReceiveTerminate, WalksTheList, WalkInv, Typed, RestOK, queue, events
    <3>z. QED
      BY <3>a, <3>b DEF WalkInv
  <2>3. QED
    BY <2>1, <2>2
<1>8. ASSUME NEW c \in Conns, ConnectionTerminated(c)
      PROVE  WalkInv'
  <2>1. CASE Undefined
    <3>1. Untouched
      BY <2>1 DEF Undefined, Untouched
    <3>2. QED
      BY <3>1 DEF Untouched, WalkInv, Locks, Typed, ThreadOK, Held, WalksTheList, RestOK,
         object, queue, threads, net, history, events
  <2>2. CASE ~Undefined
    <3>a. Locks'
      BY <1>8, <2>2 DEF ConnectionTerminated, Locks, WalkInv, Typed, ThreadOK, Held, object,
         net, history, events
    <3>b. WalksTheList'
      BY <1>8, <2>2 DEF ConnectionTerminated, WalksTheList, WalkInv, Typed, RestOK, object,
         net, history, events
    <3>z. QED
      BY <3>a, <3>b DEF WalkInv
  <2>3. QED
    BY <2>1, <2>2
<1>9. ASSUME NEW c \in Conns, DeleteInbound(c)
      PROVE  WalkInv'
  <2>1. CASE Undefined
    <3>1. Untouched
      BY <2>1 DEF Undefined, Untouched
    <3>2. QED
      BY <3>1 DEF Untouched, WalkInv, Locks, Typed, ThreadOK, Held, WalksTheList, RestOK,
         object, queue, threads, net, history, events
  <2>2. CASE ~Undefined
    <3>a. Locks'
      BY <1>9, <2>2 DEF DeleteInbound, Locks, WalkInv, Typed, ThreadOK, Held, queue, net,
         history, events
    <3>b. WalksTheList'
      BY <1>9, <2>2 DEF DeleteInbound, WalksTheList, WalkInv, Typed, RestOK, queue, net,
         history, events
    <3>z. QED
      BY <3>a, <3>b DEF WalkInv
  <2>3. QED
    BY <2>1, <2>2
<1>10. ASSUME NEW c \in Conns, AddRemovalEvent(c)
      PROVE  WalkInv'
  <2>1. CASE Undefined
    <3>1. Untouched
      BY <2>1 DEF Undefined, Untouched
    <3>2. QED
      BY <3>1 DEF Untouched, WalkInv, Locks, Typed, ThreadOK, Held, WalksTheList, RestOK,
         object, queue, threads, net, history, events
  <2>2. CASE ~Undefined
    <3>a. Locks'
      BY <1>10, <2>2 DEF AddRemovalEvent, Locks, WalkInv, Typed, ThreadOK, Held, object,
         queue, net
    <3>b. WalksTheList'
      BY <1>10, <2>2 DEF AddRemovalEvent, WalksTheList, WalkInv, Typed, RestOK, object, queue,
         net
    <3>z. QED
      BY <3>a, <3>b DEF WalkInv
  <2>3. QED
    BY <2>1, <2>2
<1>11. ASSUME NEW c \in Conns, ReceiveReturn(c)
      PROVE  WalkInv'
  <2>1. CASE Undefined
    <3>1. Untouched
      BY <2>1 DEF Undefined, Untouched
    <3>2. QED
      BY <3>1 DEF Untouched, WalkInv, Locks, Typed, ThreadOK, Held, WalksTheList, RestOK,
         object, queue, threads, net, history, events
  <2>2. CASE ~Undefined
    <3>a. Locks'
      BY <1>11, <2>2 DEF ReceiveReturn, Locks, WalkInv, Typed, ThreadOK, Held, queue, net,
         history, events
    <3>b. WalksTheList'
      BY <1>11, <2>2 DEF ReceiveReturn, WalksTheList, WalkInv, Typed, RestOK, queue, net,
         history, events
    <3>z. QED
      BY <3>a, <3>b DEF WalkInv
  <2>3. QED
    BY <2>1, <2>2
<1>12. ASSUME NEW c \in Conns, PeerGone(c)
      PROVE  WalkInv'
  <2>a. Locks'
    BY <1>12 DEF PeerGone, Locks, WalkInv, Typed, ThreadOK, Held, object, queue, threads,
       history, events
  <2>b. WalksTheList'
    BY <1>12 DEF PeerGone, WalksTheList, WalkInv, Typed, RestOK, object, queue, threads,
       history, events
  <2>z. QED
    BY <2>a, <2>b DEF WalkInv
<1>13. ASSUME NEW c \in Outbound, CloseOutbound(c)
      PROVE  WalkInv'
  <2>a. Locks'
    BY <1>13 DEF CloseOutbound, Locks, WalkInv, Typed, ThreadOK, Held, queue, events
  <2>b. WalksTheList'
    BY <1>13 DEF CloseOutbound, WalksTheList, WalkInv, Typed, RestOK, queue, events
  <2>z. QED
    BY <2>a, <2>b DEF WalkInv
<1>14. ASSUME NEW c \in Outbound, FreeOutbound(c)
      PROVE  WalkInv'
  <2>a. Locks'
    BY <1>14 DEF FreeOutbound, Locks, WalkInv, Typed, ThreadOK, Held, queue, net, events
  <2>b. WalksTheList'
    BY <1>14 DEF FreeOutbound, WalksTheList, WalkInv, Typed, RestOK, queue, net, events
  <2>z. QED
    BY <2>a, <2>b DEF WalkInv
<1>15. ASSUME NEW p \in Pubs, SetPayload(p)
      PROVE  WalkInv'
  <2>a. Locks'
    BY <1>15 DEF SetPayload, Locks, WalkInv, Typed, ThreadOK, Held, object, net, history, events
  <2>b. WalksTheList'
    BY <1>15, TailOfAll DEF SetPayload, WalksTheList, WalkInv, Typed, RestOK, object, net,
       history, events, QueueOK
  <2>z. QED
    BY <2>a, <2>b DEF WalkInv
<1>16. ASSUME NEW p \in Pubs, Publish(p)
      PROVE  WalkInv'
  <2>a. Locks'
    BY <1>16 DEF Publish, Locks, WalkInv, Typed, ThreadOK, Held, object, net, history, events
  <2>b. WalksTheList'
    BY <1>16 DEF Publish, WalksTheList, WalkInv, Typed, RestOK, object, net, history, events
  <2>z. QED
    BY <2>a, <2>b DEF WalkInv
<1>17. ASSUME NEW p \in Pubs, SetEnabled(p)
      PROVE  WalkInv'
  <2>a. Locks'
    BY <1>17 DEF SetEnabled, Locks, WalkInv, Typed, ThreadOK, Held, object, queue, threads,
       net, events
  <2>b. WalksTheList'
    BY <1>17 DEF SetEnabled, WalksTheList, WalkInv, Typed, RestOK, object, queue, threads,
       net, events
  <2>z. QED
    BY <2>a, <2>b DEF WalkInv
<1>18. ASSUME NEW p \in Pubs, ClosePublication(p)
      PROVE  WalkInv'
  <2>a. Locks'
    BY <1>18 DEF ClosePublication, Locks, WalkInv, Typed, ThreadOK, Held, object, net, events
  <2>b. WalksTheList'
    BY <1>18 DEF ClosePublication, WalksTheList, WalkInv, Typed, RestOK, object, net, events
  <2>z. QED
    BY <2>a, <2>b DEF WalkInv
<1>19. ASSUME NEW t \in Conns \cup Pubs, TransmitMessage(t)
      PROVE  WalkInv'
  <2>1. CASE Undefined
    <3>1. Untouched
      BY <2>1 DEF Undefined, Untouched
    <3>2. QED
      BY <3>1 DEF Untouched, WalkInv, Locks, Typed, ThreadOK, Held, WalksTheList, RestOK,
         object, queue, threads, net, history, events
  <2>2. CASE ~Undefined
    <3>1. pc[t] \in Held /\ rest[t] # <<>> /\ UNCHANGED queue
      BY <1>19, <2>2 DEF TransmitMessage, Held, queue
    <3>2. \/ rest' = [rest EXCEPT ![t] = Tail(@)] /\ pc' = pc
          \/ rest' = rest /\ pc' = [pc EXCEPT ![t] = "wait"]
      BY <1>19, <2>2 DEF TransmitMessage
    <3>a. Locks'
      BY <3>1, <3>2 DEF Locks, WalkInv, Typed, ThreadOK, Held, queue
    <3>b. WalksTheList'
      <4>1. CASE rest' = rest
        BY <3>1, <4>1 DEF WalkInv, WalksTheList, queue
      <4>2. CASE rest' = [rest EXCEPT ![t] = Tail(@)]
        BY <3>1, <4>2, WalkOn DEF queue
      <4>3. QED
        BY <3>2, <4>1, <4>2
    <3>z. QED
      BY <3>a, <3>b DEF WalkInv
  <2>3. QED
    BY <2>1, <2>2
<1>20. ASSUME NEW t \in Conns \cup Pubs, TerminateReturns(t)
      PROVE  WalkInv'
  <2>1. CASE Undefined
    <3>1. Untouched
      BY <2>1 DEF Undefined, Untouched
    <3>2. QED
      BY <3>1 DEF Untouched, WalkInv, Locks, Typed, ThreadOK, Held, WalksTheList, RestOK,
         object, queue, threads, net, history, events
  <2>2. CASE ~Undefined
    <3>1. /\ pc[t] \in Held /\ rest[t] # <<>> /\ UNCHANGED queue
          /\ rest' = [rest EXCEPT ![t] = Tail(@)] /\ pc' = [pc EXCEPT ![t] = "transmit"]
      BY <1>20, <2>2 DEF TerminateReturns, Held, queue, Typed, RestOK
    <3>a. Locks'
      BY <3>1 DEF Locks, WalkInv, Typed, ThreadOK, Held, queue
    <3>b. WalksTheList'
      BY <3>1, WalkOn DEF queue
    <3>z. QED
      BY <3>a, <3>b DEF WalkInv
  <2>3. QED
    BY <2>1, <2>2
<1>21. ASSUME NEW t \in Conns \cup Pubs, EndWalk(t)
      PROVE  WalkInv'
  <2>a. Locks'
    BY <1>21 DEF EndWalk, Locks, WalkInv, Typed, ThreadOK, Held, object, net, history, events
  <2>b. WalksTheList'
    BY <1>21 DEF EndWalk, WalksTheList, WalkInv, Typed, RestOK, object, net, history, events
  <2>z. QED
    BY <2>a, <2>b DEF WalkInv
<1>22. CASE BeginUnload
  <2>a. Locks'
    BY <1>22 DEF BeginUnload, Locks, WalkInv, Typed, ThreadOK, Held, object, queue, net,
       history, events
  <2>b. WalksTheList'
    BY <1>22 DEF BeginUnload, WalksTheList, WalkInv, Typed, RestOK, object, queue, net,
       history, events
  <2>z. QED
    BY <2>a, <2>b DEF WalkInv
<1>23. CASE DeleteConnection
  <2>1. CASE Undefined
    <3>1. Untouched
      BY <2>1 DEF Undefined, Untouched
    <3>2. QED
      BY <3>1 DEF Untouched, WalkInv, Locks, Typed, ThreadOK, Held, WalksTheList, RestOK,
         object, queue, threads, net, history, events
  <2>2. CASE ~Undefined
    <3>a. Locks'
      BY <1>23, <2>2 DEF DeleteConnection, Locks, WalkInv, Typed, ThreadOK, Held, history,
         events
    <3>b. WalksTheList'
      <4>1. unload = "delete" /\ UNCHANGED <<m_PubsHead, m_ConnectionLock, m_PubsLock, rest>>
        BY <1>23, <2>2 DEF DeleteConnection
      <4>2. \A p \in Pubs : m_ConnectionLock # p
        BY <4>1 DEF WalkInv, Locks, Held, LifeInv, UnloadIsLast
      <4>3. QED
        BY <4>1, <4>2 DEF WalkInv, WalksTheList
    <3>z. QED
      BY <3>a, <3>b DEF WalkInv
  <2>3. QED
    BY <2>1, <2>2
<1>24. CASE DeleteReturns
  <2>1. CASE Undefined
    <3>1. Untouched
      BY <2>1 DEF Undefined, Untouched
    <3>2. QED
      BY <3>1 DEF Untouched, WalkInv, Locks, Typed, ThreadOK, Held, WalksTheList, RestOK,
         object, queue, threads, net, history, events
  <2>2. CASE ~Undefined
    <3>a. Locks'
      BY <1>24, <2>2 DEF DeleteReturns, Locks, WalkInv, Typed, ThreadOK, Held
    <3>b. WalksTheList'
      BY <1>24, <2>2 DEF DeleteReturns, WalksTheList, WalkInv, Typed, RestOK
    <3>z. QED
      BY <3>a, <3>b DEF WalkInv
  <2>3. QED
    BY <2>1, <2>2
<1>25. CASE EndUnload
  <2>a. Locks'
    BY <1>25 DEF EndUnload, Locks, WalkInv, Typed, ThreadOK, Held, object, queue, net,
       history, events
  <2>b. WalksTheList'
    BY <1>25 DEF EndUnload, WalksTheList, WalkInv, Typed, RestOK, object, queue, net, history,
       events
  <2>z. QED
    BY <2>a, <2>b DEF WalkInv
<1>26. CASE UNCHANGED vars
  <2>a. Locks'
    BY <1>26 DEF Locks, WalkInv, Typed, ThreadOK, Held, object, queue, threads, net, history,
       events, vars
  <2>b. WalksTheList'
    BY <1>26 DEF WalksTheList, WalkInv, Typed, RestOK, object, queue, threads, net, history,
       events, vars
  <2>z. QED
    BY <2>a, <2>b DEF WalkInv
<1>27. QED
  BY <1>1, <1>2, <1>3, <1>4, <1>5, <1>6, <1>7, <1>8, <1>9, <1>10, <1>11,
     <1>12, <1>13, <1>14, <1>15, <1>16, <1>17, <1>18, <1>19, <1>20, <1>21,
     <1>22, <1>23, <1>24, <1>25, <1>26
  DEF Next, Establish, Receive


-----------------------------------------------------------------------------
(***************************************************************************)
(* A publication that a connection has yet to be told of is still before   *)
(* the walk of ConnectionEstablished: in the list until the walk begins,   *)
(* in what it has to visit then.                                           *)
(***************************************************************************)
DueAhead ==
  \A c \in Conns :
    /\ pc[c] \in {"arrive", "walk"} =>
         \A p \in due[c] : p \in Elements(m_PubsHead) /\ enabled[p]
    /\ pc[c] = "transmit" /\ _State[c] = "ESTABLISHED" =>
         \A p \in due[c] : p \in Elements(rest[c]) /\ enabled[p]

DueInv == DueAhead /\ PublishedIsTransmitted

LEMMA DueStarts == Init => DueInv
BY DEF Init, DueInv, DueAhead, PublishedIsTransmitted

LEMMA DueKept ==
  ASSUME Typed, LifeInv, DueInv, [Next]_vars
  PROVE  DueInv'
<1> USE Threads
<1>1. ASSUME NEW c \in Conns, NEW id \in StaleIds \cup {"other"}, FinalizeEstablish(c, id)
      PROVE  DueInv'
  <2>a. DueAhead'
    BY <1>1 DEF FinalizeEstablish, DueAhead, DueInv, Typed, ObjectOK, ThreadOK, QueueOK,
       RestOK, queue, net, history, events
  <2>b. PublishedIsTransmitted'
    BY <1>1 DEF FinalizeEstablish, PublishedIsTransmitted, DueInv, Typed, ObjectOK, ThreadOK,
       queue, net, history, events
  <2>z. QED
    BY <2>a, <2>b DEF DueInv
<1>2. ASSUME NEW c \in Conns, FailEstablish(c)
      PROVE  DueInv'
  <2>a. DueAhead'
    BY <1>2 DEF FailEstablish, DueAhead, DueInv, Typed, ObjectOK, ThreadOK, QueueOK, RestOK,
       queue, net, events
  <2>b. PublishedIsTransmitted'
    BY <1>2 DEF FailEstablish, PublishedIsTransmitted, DueInv, Typed, ObjectOK, ThreadOK,
       queue, net, events
  <2>z. QED
    BY <2>a, <2>b DEF DueInv
<1>3. ASSUME NEW c \in Conns, ConnectionEstablished(c)
      PROVE  DueInv'
  <2>1. CASE Undefined
    <3>1. Untouched
      BY <2>1 DEF Undefined, Untouched
    <3>2. QED
      BY <3>1 DEF Untouched, DueInv, DueAhead, Typed, ObjectOK, ThreadOK, QueueOK, RestOK,
         PublishedIsTransmitted, object, queue, threads, net, history, events
  <2>2. CASE ~Undefined
    <3>1. /\ pc[c] = "insert" /\ (\E x \in {"arrive", "walk"} : pc' = [pc EXCEPT ![c] = x])
          /\ due' = [due EXCEPT ![c] = {p \in Elements(m_PubsHead) : enabled[p]}]
          /\ UNCHANGED <<_State, rest, m_PubsHead, enabled>>
      BY <1>3, <2>2 DEF ConnectionEstablished, object
    <3>a. DueAhead'
      BY <3>1 DEF DueAhead, DueInv, Typed, ThreadOK, QueueOK
    <3>b. PublishedIsTransmitted'
      BY <3>1 DEF PublishedIsTransmitted, DueInv, Typed, ThreadOK, QueueOK
    <3>z. QED
      BY <3>a, <3>b DEF DueInv
  <2>3. QED
    BY <2>1, <2>2
<1>4. ASSUME NEW c \in Conns, AddArrivalEvent(c)
      PROVE  DueInv'
  <2>a. DueAhead'
    BY <1>4 DEF AddArrivalEvent, DueAhead, DueInv, Typed, ObjectOK, ThreadOK, QueueOK, RestOK,
       object, queue, net
  <2>b. PublishedIsTransmitted'
    BY <1>4 DEF AddArrivalEvent, PublishedIsTransmitted, DueInv, Typed, ObjectOK, ThreadOK,
       object, queue, net
  <2>z. QED
    BY <2>a, <2>b DEF DueInv
<1>5. ASSUME NEW c \in Conns, WalkPubs(c)
      PROVE  DueInv'
  <2>a. DueAhead'
    BY <1>5 DEF WalkPubs, DueAhead, DueInv, Typed, ObjectOK, ThreadOK, QueueOK, RestOK,
       object, net, history, events
  <2>b. PublishedIsTransmitted'
    BY <1>5 DEF WalkPubs, PublishedIsTransmitted, DueInv, Typed, ObjectOK, ThreadOK, object,
       net, history, events
  <2>z. QED
    BY <2>a, <2>b DEF DueInv
<1>6. ASSUME NEW c \in Conns, ReceiveStart(c)
      PROVE  DueInv'
  <2>1. CASE Undefined
    <3>1. Untouched
      BY <2>1 DEF Undefined, Untouched
    <3>2. QED
      BY <3>1 DEF Untouched, DueInv, DueAhead, Typed, ObjectOK, ThreadOK, QueueOK, RestOK,
         PublishedIsTransmitted, object, queue, threads, net, history, events
  <2>2. CASE ~Undefined
    <3>a. DueAhead'
      BY <1>6, <2>2 DEF ReceiveStart, DueAhead, DueInv, Typed, ObjectOK, ThreadOK, QueueOK,
         RestOK, queue, net, history, events
    <3>b. PublishedIsTransmitted'
      BY <1>6, <2>2 DEF ReceiveStart, PublishedIsTransmitted, DueInv, Typed, ObjectOK,
         ThreadOK, queue, net, history, events
    <3>z. QED
      BY <3>a, <3>b DEF DueInv
  <2>3. QED
    BY <2>1, <2>2
<1>7. ASSUME NEW c \in Conns, ReceiveTerminate(c)
      PROVE  DueInv'
  <2>1. CASE Undefined
    <3>1. Untouched
      BY <2>1 DEF Undefined, Untouched
    <3>2. QED
      BY <3>1 DEF Untouched, DueInv, DueAhead, Typed, ObjectOK, ThreadOK, QueueOK, RestOK,
         PublishedIsTransmitted, object, queue, threads, net, history, events
  <2>2. CASE ~Undefined
    <3>a. DueAhead'
      BY <1>7, <2>2 DEF ReceiveTerminate, DueAhead, DueInv, Typed, ObjectOK, ThreadOK,
         QueueOK, RestOK, queue, events
    <3>b. PublishedIsTransmitted'
      BY <1>7, <2>2 DEF ReceiveTerminate, PublishedIsTransmitted, DueInv, Typed, ObjectOK,
         ThreadOK, queue, events
    <3>z. QED
      BY <3>a, <3>b DEF DueInv
  <2>3. QED
    BY <2>1, <2>2
<1>8. ASSUME NEW c \in Conns, ConnectionTerminated(c)
      PROVE  DueInv'
  <2>1. CASE Undefined
    <3>1. Untouched
      BY <2>1 DEF Undefined, Untouched
    <3>2. QED
      BY <3>1 DEF Untouched, DueInv, DueAhead, Typed, ObjectOK, ThreadOK, QueueOK, RestOK,
         PublishedIsTransmitted, object, queue, threads, net, history, events
  <2>2. CASE ~Undefined
    <3>a. DueAhead'
      BY <1>8, <2>2 DEF ConnectionTerminated, DueAhead, DueInv, Typed, ObjectOK, ThreadOK,
         QueueOK, RestOK, object, net, history, events
    <3>b. PublishedIsTransmitted'
      BY <1>8, <2>2 DEF ConnectionTerminated, PublishedIsTransmitted, DueInv, Typed, ObjectOK,
         ThreadOK, object, net, history, events
    <3>z. QED
      BY <3>a, <3>b DEF DueInv
  <2>3. QED
    BY <2>1, <2>2
<1>9. ASSUME NEW c \in Conns, DeleteInbound(c)
      PROVE  DueInv'
  <2>1. CASE Undefined
    <3>1. Untouched
      BY <2>1 DEF Undefined, Untouched
    <3>2. QED
      BY <3>1 DEF Untouched, DueInv, DueAhead, Typed, ObjectOK, ThreadOK, QueueOK, RestOK,
         PublishedIsTransmitted, object, queue, threads, net, history, events
  <2>2. CASE ~Undefined
    <3>a. DueAhead'
      BY <1>9, <2>2 DEF DeleteInbound, DueAhead, DueInv, Typed, ObjectOK, ThreadOK, QueueOK,
         RestOK, queue, net, history, events
    <3>b. PublishedIsTransmitted'
      BY <1>9, <2>2 DEF DeleteInbound, PublishedIsTransmitted, DueInv, Typed, ObjectOK,
         ThreadOK, queue, net, history, events
    <3>z. QED
      BY <3>a, <3>b DEF DueInv
  <2>3. QED
    BY <2>1, <2>2
<1>10. ASSUME NEW c \in Conns, AddRemovalEvent(c)
      PROVE  DueInv'
  <2>1. CASE Undefined
    <3>1. Untouched
      BY <2>1 DEF Undefined, Untouched
    <3>2. QED
      BY <3>1 DEF Untouched, DueInv, DueAhead, Typed, ObjectOK, ThreadOK, QueueOK, RestOK,
         PublishedIsTransmitted, object, queue, threads, net, history, events
  <2>2. CASE ~Undefined
    <3>a. DueAhead'
      BY <1>10, <2>2 DEF AddRemovalEvent, DueAhead, DueInv, Typed, ObjectOK, ThreadOK,
         QueueOK, RestOK, object, queue, net
    <3>b. PublishedIsTransmitted'
      BY <1>10, <2>2 DEF AddRemovalEvent, PublishedIsTransmitted, DueInv, Typed, ObjectOK,
         ThreadOK, object, queue, net
    <3>z. QED
      BY <3>a, <3>b DEF DueInv
  <2>3. QED
    BY <2>1, <2>2
<1>11. ASSUME NEW c \in Conns, ReceiveReturn(c)
      PROVE  DueInv'
  <2>1. CASE Undefined
    <3>1. Untouched
      BY <2>1 DEF Undefined, Untouched
    <3>2. QED
      BY <3>1 DEF Untouched, DueInv, DueAhead, Typed, ObjectOK, ThreadOK, QueueOK, RestOK,
         PublishedIsTransmitted, object, queue, threads, net, history, events
  <2>2. CASE ~Undefined
    <3>a. DueAhead'
      BY <1>11, <2>2 DEF ReceiveReturn, DueAhead, DueInv, Typed, ObjectOK, ThreadOK, QueueOK,
         RestOK, queue, net, history, events
    <3>b. PublishedIsTransmitted'
      BY <1>11, <2>2 DEF ReceiveReturn, PublishedIsTransmitted, DueInv, Typed, ObjectOK,
         ThreadOK, queue, net, history, events
    <3>z. QED
      BY <3>a, <3>b DEF DueInv
  <2>3. QED
    BY <2>1, <2>2
<1>12. ASSUME NEW c \in Conns, PeerGone(c)
      PROVE  DueInv'
  <2>a. DueAhead'
    BY <1>12 DEF PeerGone, DueAhead, DueInv, Typed, ObjectOK, ThreadOK, QueueOK, RestOK,
       object, queue, threads, history, events
  <2>b. PublishedIsTransmitted'
    BY <1>12 DEF PeerGone, PublishedIsTransmitted, DueInv, Typed, ObjectOK, ThreadOK, object,
       queue, threads, history, events
  <2>z. QED
    BY <2>a, <2>b DEF DueInv
<1>13. ASSUME NEW c \in Outbound, CloseOutbound(c)
      PROVE  DueInv'
  <2>a. DueAhead'
    BY <1>13 DEF CloseOutbound, DueAhead, DueInv, Typed, ObjectOK, ThreadOK, QueueOK, RestOK,
       queue, events
  <2>b. PublishedIsTransmitted'
    BY <1>13 DEF CloseOutbound, PublishedIsTransmitted, DueInv, Typed, ObjectOK, ThreadOK,
       queue, events
  <2>z. QED
    BY <2>a, <2>b DEF DueInv
<1>14. ASSUME NEW c \in Outbound, FreeOutbound(c)
      PROVE  DueInv'
  <2>a. DueAhead'
    BY <1>14 DEF FreeOutbound, DueAhead, DueInv, Typed, ObjectOK, ThreadOK, QueueOK, RestOK,
       queue, net, events
  <2>b. PublishedIsTransmitted'
    BY <1>14 DEF FreeOutbound, PublishedIsTransmitted, DueInv, Typed, ObjectOK, ThreadOK,
       queue, net, events
  <2>z. QED
    BY <2>a, <2>b DEF DueInv
<1>15. ASSUME NEW p \in Pubs, SetPayload(p)
      PROVE  DueInv'
  <2>a. DueAhead'
    BY <1>15 DEF SetPayload, DueAhead, DueInv, Typed, ObjectOK, ThreadOK, QueueOK, RestOK,
       object, net, history, events
  <2>b. PublishedIsTransmitted'
    BY <1>15 DEF SetPayload, PublishedIsTransmitted, DueInv, Typed, ObjectOK, ThreadOK,
       object, net, history, events
  <2>z. QED
    BY <2>a, <2>b DEF DueInv
<1>16. ASSUME NEW p \in Pubs, Publish(p)
      PROVE  DueInv'
  <2>1. Elements(m_PubsHead) \subseteq Elements(m_PubsHead')
    BY <1>16, HeadInserted DEF Publish, Typed, QueueOK
  <2>a. DueAhead'
    BY <1>16, <2>1 DEF Publish, DueAhead, DueInv, Typed, ObjectOK, ThreadOK, QueueOK, RestOK,
       object, net, history, events
  <2>b. PublishedIsTransmitted'
    BY <1>16 DEF Publish, PublishedIsTransmitted, DueInv, Typed, ObjectOK, ThreadOK, object,
       net, history, events
  <2>z. QED
    BY <2>a, <2>b DEF DueInv
<1>17. ASSUME NEW p \in Pubs, SetEnabled(p)
      PROVE  DueInv'
  <2>a. DueAhead'
    BY <1>17 DEF SetEnabled, DueAhead, DueInv, Typed, ObjectOK, ThreadOK, QueueOK, RestOK,
       object, queue, threads, net, events
  <2>b. PublishedIsTransmitted'
    BY <1>17 DEF SetEnabled, PublishedIsTransmitted, DueInv, Typed, ObjectOK, ThreadOK,
       object, queue, threads, net, events
  <2>z. QED
    BY <2>a, <2>b DEF DueInv
<1>18. ASSUME NEW p \in Pubs, ClosePublication(p)
      PROVE  DueInv'
  <2>1. Elements(m_PubsHead) \ {p} \subseteq Elements(m_PubsHead')
    BY <1>18, UnlinkRemoves DEF ClosePublication, Typed, QueueOK
  <2>a. DueAhead'
    BY <1>18, <2>1 DEF ClosePublication, DueAhead, DueInv, Typed, ObjectOK, ThreadOK, QueueOK,
       RestOK, object, net, events
  <2>b. PublishedIsTransmitted'
    BY <1>18 DEF ClosePublication, PublishedIsTransmitted, DueInv, Typed, ObjectOK, ThreadOK,
       object, net, events
  <2>z. QED
    BY <2>a, <2>b DEF DueInv
<1>19. ASSUME NEW t \in Conns \cup Pubs, TransmitMessage(t)
      PROVE  DueInv'
  <2>1. CASE Undefined
    <3>1. Untouched
      BY <2>1 DEF Undefined, Untouched
    <3>2. QED
      BY <3>1 DEF Untouched, DueInv, DueAhead, Typed, ObjectOK, ThreadOK, QueueOK, RestOK,
         PublishedIsTransmitted, object, queue, threads, net, history, events
  <2>2. CASE ~Undefined
    <3> DEFINE k == LinkOf(t)
               p == PubOf(t)
    <3>1. rest[t] # <<>> /\ k \in Conns /\ p \in Pubs /\ pc[t] = "transmit"
      BY <1>19, LinkTyped DEF TransmitMessage
    <3>2. /\ \/ UNCHANGED <<_State, due, pc>> /\ rest' = [rest EXCEPT ![t] = Tail(@)]
                /\ ((t \in Conns /\ ~enabled[p]) \/ ~_Socket[k] \/ shut[k])
             \/ /\ UNCHANGED <<_State, pc>> /\ rest' = [rest EXCEPT ![t] = Tail(@)]
                /\ due' = [due EXCEPT ![k] = @ \ {p}]
             \/ _State' = [_State EXCEPT ![k] = "TERMINATED"] /\ UNCHANGED due
                /\ \/ UNCHANGED pc /\ rest' = [rest EXCEPT ![t] = Tail(@)]
                   \/ UNCHANGED rest /\ pc' = [pc EXCEPT ![t] = "wait"]
          /\ UNCHANGED <<m_PubsHead, enabled>>
      BY <1>19, <2>2 DEF TransmitMessage, object, queue, history
    <3>3. t \in Conns => k = t /\ p = Head(rest[t]) /\ Elements(rest[t]) = Elements(Tail(rest[t])) \cup {p}
      BY <3>1, TailTaken, Threads DEF LinkOf, PubOf, Typed, RestOK
    <3>4. t \in Pubs => UNCHANGED pc \/ pc'[t] = "wait"
      BY <3>2 DEF Typed, ThreadOK
    <3>5. \A u \in Conns \cup Pubs : u # t => rest'[u] = rest[u] /\ pc'[u] = pc[u]
      BY <3>2 DEF Typed, ThreadOK, RestOK
    <3>6. \A d \in Conns : /\ due'[d] \subseteq due[d]
                           /\ _State'[d] = "ESTABLISHED" => _State[d] = "ESTABLISHED"
      BY <3>1, <3>2 DEF Typed, ObjectOK, QueueOK
    <3>7. ASSUME t \in Conns, pc'[t] = "transmit", _State'[t] = "ESTABLISHED", NEW q \in due'[t]
          PROVE  q \in Elements(rest'[t]) /\ enabled[q]
      <4>1. q \in Elements(rest[t]) /\ enabled[q]
        BY <3>1, <3>6, <3>7 DEF DueInv, DueAhead
      <4>2. rest'[t] = Tail(rest[t])
        BY <3>1, <3>2, <3>3, <3>7 DEF Typed, ThreadOK, RestOK, ObjectOK
      <4>3. q # p
        <5>1. _Socket[t] /\ ~shut[t]
          BY <3>6, <3>7 DEF LifeInv, Phases
        <5>2. QED
          BY <3>1, <3>2, <3>3, <3>7, <4>1, <5>1 DEF Typed, QueueOK, ObjectOK
      <4>4. QED
        BY <3>3, <3>7, <4>1, <4>2, <4>3
    <3> HIDE DEF k, p
    <3>a. DueAhead'
      <4> SUFFICES ASSUME NEW d \in Conns
                   PROVE  /\ pc'[d] \in {"arrive", "walk"} =>
                               \A q \in due'[d] : q \in Elements(m_PubsHead') /\ enabled'[q]
                          /\ pc'[d] = "transmit" /\ _State'[d] = "ESTABLISHED" =>
                               \A q \in due'[d] : q \in Elements(rest'[d]) /\ enabled'[q]
        BY DEF DueAhead
      <4>1. CASE d = t
        <5>1. pc'[t] \in {"transmit", "wait"}
          BY <3>1, <3>2 DEF Typed, ThreadOK
        <5>2. QED
          BY <3>2, <3>7, <4>1, <5>1
      <4>2. CASE d # t
        BY <3>2, <3>5, <3>6, <4>2 DEF DueInv, DueAhead
      <4>3. QED
        BY <4>1, <4>2
    <3>b. PublishedIsTransmitted'
      <4>1. \A d \in Conns : pc'[d] = "done" => pc[d] = "done"
        BY <3>1, <3>2, <3>5 DEF Typed, ThreadOK
      <4>2. QED
        BY <3>6, <4>1 DEF DueInv, PublishedIsTransmitted
    <3>z. QED
      BY <3>a, <3>b DEF DueInv
  <2>3. QED
    BY <2>1, <2>2
<1>20. ASSUME NEW t \in Conns \cup Pubs, TerminateReturns(t)
      PROVE  DueInv'
  <2>1. CASE Undefined
    <3>1. Untouched
      BY <2>1 DEF Undefined, Untouched
    <3>2. QED
      BY <3>1 DEF Untouched, DueInv, DueAhead, Typed, ObjectOK, ThreadOK, QueueOK, RestOK,
         PublishedIsTransmitted, object, queue, threads, net, history, events
  <2>2. CASE ~Undefined
    <3>1. rest[t] # <<>> /\ pc[t] = "wait"
      BY <1>20 DEF TerminateReturns, Typed, RestOK
    <3>2. t \in Conns => _State[t] = "TERMINATED"
      BY <3>1 DEF LifeInv, WaitTerminates, LinkOf
    <3>3. /\ pc' = [pc EXCEPT ![t] = "transmit"] /\ rest' = [rest EXCEPT ![t] = Tail(@)]
          /\ UNCHANGED <<_State, due, m_PubsHead, enabled>>
      BY <1>20, <2>2 DEF TerminateReturns, queue
    <3>a. DueAhead'
      BY <3>2, <3>3 DEF DueAhead, DueInv, Typed, ThreadOK, RestOK
    <3>b. PublishedIsTransmitted'
      BY <3>3 DEF PublishedIsTransmitted, DueInv, Typed, ThreadOK
    <3>z. QED
      BY <3>a, <3>b DEF DueInv
  <2>3. QED
    BY <2>1, <2>2
<1>21. ASSUME NEW t \in Conns \cup Pubs, EndWalk(t)
      PROVE  DueInv'
  <2>1. /\ pc[t] = "transmit" /\ Elements(rest[t]) = {}
        /\ UNCHANGED <<_State, due, m_PubsHead, rest, enabled>>
        /\ \/ t \in Conns /\ pc' = [pc EXCEPT ![t] = "done"]
           \/ t \in Pubs /\ pc' = [pc EXCEPT ![t] = "publish"]
    BY <1>21 DEF EndWalk, Elements, object, history
  <2>a. DueAhead'
    BY <2>1 DEF DueAhead, DueInv, Typed, ThreadOK
  <2>b. PublishedIsTransmitted'
    BY <2>1 DEF PublishedIsTransmitted, DueAhead, DueInv, Typed, ThreadOK
  <2>z. QED
    BY <2>a, <2>b DEF DueInv
<1>22. CASE BeginUnload
  <2>a. DueAhead'
    BY <1>22 DEF BeginUnload, DueAhead, DueInv, Typed, ObjectOK, ThreadOK, QueueOK, RestOK,
       object, queue, net, history, events
  <2>b. PublishedIsTransmitted'
    BY <1>22 DEF BeginUnload, PublishedIsTransmitted, DueInv, Typed, ObjectOK, ThreadOK,
       object, queue, net, history, events
  <2>z. QED
    BY <2>a, <2>b DEF DueInv
<1>23. CASE DeleteConnection
  <2>1. CASE Undefined
    <3>1. Untouched
      BY <2>1 DEF Undefined, Untouched
    <3>2. QED
      BY <3>1 DEF Untouched, DueInv, DueAhead, Typed, ObjectOK, ThreadOK, QueueOK, RestOK,
         PublishedIsTransmitted, object, queue, threads, net, history, events
  <2>2. CASE ~Undefined
    <3>1. /\ Head(m_ConnectionHead) \in Conns
          /\ _State' = [_State EXCEPT ![Head(m_ConnectionHead)] = "TERMINATED"]
          /\ UNCHANGED <<pc, rest, due, m_PubsHead, enabled>>
      BY <1>23, <2>2, TailTaken DEF DeleteConnection, history, Typed, QueueOK
    <3>a. DueAhead'
      BY <3>1 DEF DueAhead, DueInv, Typed, ObjectOK
    <3>b. PublishedIsTransmitted'
      BY <3>1 DEF PublishedIsTransmitted, DueInv, Typed, ObjectOK
    <3>z. QED
      BY <3>a, <3>b DEF DueInv
  <2>3. QED
    BY <2>1, <2>2
<1>24. CASE DeleteReturns
  <2>1. CASE Undefined
    <3>1. Untouched
      BY <2>1 DEF Undefined, Untouched
    <3>2. QED
      BY <3>1 DEF Untouched, DueInv, DueAhead, Typed, ObjectOK, ThreadOK, QueueOK, RestOK,
         PublishedIsTransmitted, object, queue, threads, net, history, events
  <2>2. CASE ~Undefined
    <3>a. DueAhead'
      BY <1>24, <2>2 DEF DeleteReturns, DueAhead, DueInv, Typed, ObjectOK, ThreadOK, QueueOK,
         RestOK
    <3>b. PublishedIsTransmitted'
      BY <1>24, <2>2 DEF DeleteReturns, PublishedIsTransmitted, DueInv, Typed, ObjectOK,
         ThreadOK
    <3>z. QED
      BY <3>a, <3>b DEF DueInv
  <2>3. QED
    BY <2>1, <2>2
<1>25. CASE EndUnload
  <2>a. DueAhead'
    BY <1>25 DEF EndUnload, DueAhead, DueInv, Typed, ObjectOK, ThreadOK, QueueOK, RestOK,
       object, queue, net, history, events
  <2>b. PublishedIsTransmitted'
    BY <1>25 DEF EndUnload, PublishedIsTransmitted, DueInv, Typed, ObjectOK, ThreadOK, object,
       queue, net, history, events
  <2>z. QED
    BY <2>a, <2>b DEF DueInv
<1>26. CASE UNCHANGED vars
  <2>a. DueAhead'
    BY <1>26 DEF DueAhead, DueInv, Typed, ObjectOK, ThreadOK, QueueOK, RestOK, object, queue,
       threads, net, history, events, vars
  <2>b. PublishedIsTransmitted'
    BY <1>26 DEF PublishedIsTransmitted, DueInv, Typed, ObjectOK, ThreadOK, object, queue,
       threads, net, history, events, vars
  <2>z. QED
    BY <2>a, <2>b DEF DueInv
<1>27. QED
  BY <1>1, <1>2, <1>3, <1>4, <1>5, <1>6, <1>7, <1>8, <1>9, <1>10, <1>11,
     <1>12, <1>13, <1>14, <1>15, <1>16, <1>17, <1>18, <1>19, <1>20, <1>21,
     <1>22, <1>23, <1>24, <1>25, <1>26
  DEF Next, Establish, Receive


-----------------------------------------------------------------------------
(***************************************************************************)
(* An outbound connection is freed after its receive thread, unless an     *)
(* uninitialised _ThreadpoolThreadId is that of the thread that closes.    *)
(***************************************************************************)
OutlivesInv ==
  /\ \A c \in Conns : _ThreadpoolThreadId[c] # "closer"
  /\ OutboundOutlivesReceiver

LEMMA OutlivesStarts == Init => OutlivesInv
BY Threads DEF Init, OutlivesInv, OutboundOutlivesReceiver

LEMMA OutlivesKept ==
  ASSUME "closer" \notin StaleIds, Typed, LifeInv, OutlivesInv, [Next]_vars
  PROVE  OutlivesInv'
<1> USE Threads
<1>1. ASSUME NEW c \in Conns, NEW id \in StaleIds \cup {"other"}, FinalizeEstablish(c, id)
      PROVE  OutlivesInv'
  BY <1>1, ChoicesAssumption DEF FinalizeEstablish, LifeInv, Phases, OutlivesInv,
     OutboundOutlivesReceiver, Typed, ObjectOK, ThreadOK, queue, net, history, events
<1>2. ASSUME NEW c \in Conns, FailEstablish(c)
      PROVE  OutlivesInv'
  BY <1>2 DEF FailEstablish, LifeInv, Phases, OutlivesInv, OutboundOutlivesReceiver, Typed,
     ObjectOK, ThreadOK, queue, net, events
<1>3. ASSUME NEW c \in Conns, ConnectionEstablished(c)
      PROVE  OutlivesInv'
  <2>1. CASE Undefined
    BY <2>1 DEF Undefined, OutlivesInv, OutboundOutlivesReceiver, Typed, ObjectOK, ThreadOK,
       object, queue, threads, net, history, events
  <2>2. CASE ~Undefined
    BY <1>3, <2>2 DEF ConnectionEstablished, OutlivesInv, OutboundOutlivesReceiver, Typed,
       ObjectOK, ThreadOK, object, net, events
  <2>3. QED
    BY <2>1, <2>2
<1>4. ASSUME NEW c \in Conns, AddArrivalEvent(c)
      PROVE  OutlivesInv'
  BY <1>4 DEF AddArrivalEvent, OutlivesInv, OutboundOutlivesReceiver, Typed, ObjectOK,
     ThreadOK, object, queue, net
<1>5. ASSUME NEW c \in Conns, WalkPubs(c)
      PROVE  OutlivesInv'
  BY <1>5 DEF WalkPubs, OutlivesInv, OutboundOutlivesReceiver, Typed, ObjectOK, ThreadOK,
     object, net, history, events
<1>6. ASSUME NEW c \in Conns, ReceiveStart(c)
      PROVE  OutlivesInv'
  <2>1. CASE Undefined
    BY <2>1 DEF Undefined, OutlivesInv, OutboundOutlivesReceiver, Typed, ObjectOK, ThreadOK,
       object, queue, threads, net, history, events
  <2>2. CASE ~Undefined
    BY <1>6, <2>2 DEF ReceiveStart, OutlivesInv, OutboundOutlivesReceiver, Typed, ObjectOK,
       ThreadOK, queue, net, history, events
  <2>3. QED
    BY <2>1, <2>2
<1>7. ASSUME NEW c \in Conns, ReceiveTerminate(c)
      PROVE  OutlivesInv'
  <2>1. CASE Undefined
    BY <2>1 DEF Undefined, OutlivesInv, OutboundOutlivesReceiver, Typed, ObjectOK, ThreadOK,
       object, queue, threads, net, history, events
  <2>2. CASE ~Undefined
    BY <1>7, <2>2 DEF ReceiveTerminate, OutlivesInv, OutboundOutlivesReceiver, Typed,
       ObjectOK, ThreadOK, queue, events
  <2>3. QED
    BY <2>1, <2>2
<1>8. ASSUME NEW c \in Conns, ConnectionTerminated(c)
      PROVE  OutlivesInv'
  <2>1. CASE Undefined
    BY <2>1 DEF Undefined, OutlivesInv, OutboundOutlivesReceiver, Typed, ObjectOK, ThreadOK,
       object, queue, threads, net, history, events
  <2>2. CASE ~Undefined
    BY <1>8, <2>2 DEF ConnectionTerminated, OutlivesInv, OutboundOutlivesReceiver, Typed,
       ObjectOK, ThreadOK, object, net, history, events
  <2>3. QED
    BY <2>1, <2>2
<1>9. ASSUME NEW c \in Conns, DeleteInbound(c)
      PROVE  OutlivesInv'
  <2>1. CASE Undefined
    BY <2>1 DEF Undefined, OutlivesInv, OutboundOutlivesReceiver, Typed, ObjectOK, ThreadOK,
       object, queue, threads, net, history, events
  <2>2. CASE ~Undefined
    BY <1>9, <2>2 DEF DeleteInbound, OutlivesInv, OutboundOutlivesReceiver, Typed, ObjectOK,
       ThreadOK, queue, net, history, events
  <2>3. QED
    BY <2>1, <2>2
<1>10. ASSUME NEW c \in Conns, AddRemovalEvent(c)
      PROVE  OutlivesInv'
  <2>1. CASE Undefined
    BY <2>1 DEF Undefined, OutlivesInv, OutboundOutlivesReceiver, Typed, ObjectOK, ThreadOK,
       object, queue, threads, net, history, events
  <2>2. CASE ~Undefined
    BY <1>10, <2>2 DEF AddRemovalEvent, OutlivesInv, OutboundOutlivesReceiver, Typed,
       ObjectOK, ThreadOK, object, queue, net
  <2>3. QED
    BY <2>1, <2>2
<1>11. ASSUME NEW c \in Conns, ReceiveReturn(c)
      PROVE  OutlivesInv'
  <2>1. CASE Undefined
    BY <2>1 DEF Undefined, OutlivesInv, OutboundOutlivesReceiver, Typed, ObjectOK, ThreadOK,
       object, queue, threads, net, history, events
  <2>2. CASE ~Undefined
    BY <1>11, <2>2 DEF ReceiveReturn, OutlivesInv, OutboundOutlivesReceiver, Typed, ObjectOK,
       ThreadOK, queue, net, history, events
  <2>3. QED
    BY <2>1, <2>2
<1>12. ASSUME NEW c \in Conns, PeerGone(c)
      PROVE  OutlivesInv'
  BY <1>12 DEF PeerGone, OutlivesInv, OutboundOutlivesReceiver, Typed, ObjectOK, ThreadOK,
     object, queue, threads, history, events
<1>13. ASSUME NEW c \in Outbound, CloseOutbound(c)
      PROVE  OutlivesInv'
  BY <1>13 DEF CloseOutbound, OutlivesInv, OutboundOutlivesReceiver, Typed, ObjectOK,
     ThreadOK, queue, events
<1>14. ASSUME NEW c \in Outbound, FreeOutbound(c)
      PROVE  OutlivesInv'
  BY <1>14 DEF FreeOutbound, OutlivesInv, OutboundOutlivesReceiver, Typed, ObjectOK, ThreadOK,
     queue, net, events
<1>15. ASSUME NEW p \in Pubs, SetPayload(p)
      PROVE  OutlivesInv'
  BY <1>15 DEF SetPayload, OutlivesInv, OutboundOutlivesReceiver, Typed, ObjectOK, ThreadOK,
     object, net, history, events
<1>16. ASSUME NEW p \in Pubs, Publish(p)
      PROVE  OutlivesInv'
  BY <1>16 DEF Publish, OutlivesInv, OutboundOutlivesReceiver, Typed, ObjectOK, ThreadOK,
     object, net, history, events
<1>17. ASSUME NEW p \in Pubs, SetEnabled(p)
      PROVE  OutlivesInv'
  BY <1>17 DEF SetEnabled, OutlivesInv, OutboundOutlivesReceiver, Typed, ObjectOK, ThreadOK,
     object, queue, threads, net, events
<1>18. ASSUME NEW p \in Pubs, ClosePublication(p)
      PROVE  OutlivesInv'
  BY <1>18 DEF ClosePublication, OutlivesInv, OutboundOutlivesReceiver, Typed, ObjectOK,
     ThreadOK, object, net, events
<1>19. ASSUME NEW t \in Conns \cup Pubs, TransmitMessage(t)
      PROVE  OutlivesInv'
  <2>1. CASE Undefined
    BY <2>1 DEF Undefined, OutlivesInv, OutboundOutlivesReceiver, Typed, ObjectOK, ThreadOK,
       object, queue, threads, net, history, events
  <2>2. CASE ~Undefined
    BY <1>19, <2>2 DEF TransmitMessage, OutlivesInv, OutboundOutlivesReceiver, Typed,
       ObjectOK, ThreadOK, object, queue, net, history, events
  <2>3. QED
    BY <2>1, <2>2
<1>20. ASSUME NEW t \in Conns \cup Pubs, TerminateReturns(t)
      PROVE  OutlivesInv'
  <2>1. CASE Undefined
    BY <2>1 DEF Undefined, OutlivesInv, OutboundOutlivesReceiver, Typed, ObjectOK, ThreadOK,
       object, queue, threads, net, history, events
  <2>2. CASE ~Undefined
    BY <1>20, <2>2 DEF TerminateReturns, OutlivesInv, OutboundOutlivesReceiver, Typed,
       ObjectOK, ThreadOK, queue, net, events
  <2>3. QED
    BY <2>1, <2>2
<1>21. ASSUME NEW t \in Conns \cup Pubs, EndWalk(t)
      PROVE  OutlivesInv'
  BY <1>21 DEF EndWalk, OutlivesInv, OutboundOutlivesReceiver, Typed, ObjectOK, ThreadOK,
     object, net, history, events
<1>22. CASE BeginUnload
  BY <1>22 DEF BeginUnload, OutlivesInv, OutboundOutlivesReceiver, Typed, ObjectOK, ThreadOK,
     object, queue, net, history, events
<1>23. CASE DeleteConnection
  <2>1. CASE Undefined
    BY <2>1 DEF Undefined, OutlivesInv, OutboundOutlivesReceiver, Typed, ObjectOK, ThreadOK,
       object, queue, threads, net, history, events
  <2>2. CASE ~Undefined
    BY <1>23, <2>2 DEF DeleteConnection, OutlivesInv, OutboundOutlivesReceiver, Typed,
       ObjectOK, ThreadOK, history, events
  <2>3. QED
    BY <2>1, <2>2
<1>24. CASE DeleteReturns
  <2>1. CASE Undefined
    BY <2>1 DEF Undefined, OutlivesInv, OutboundOutlivesReceiver, Typed, ObjectOK, ThreadOK,
       object, queue, threads, net, history, events
  <2>2. CASE ~Undefined
    BY <1>24, <2>2 DEF DeleteReturns, OutlivesInv, OutboundOutlivesReceiver, Typed, ObjectOK,
       ThreadOK
  <2>3. QED
    BY <2>1, <2>2
<1>25. CASE EndUnload
  BY <1>25 DEF EndUnload, OutlivesInv, OutboundOutlivesReceiver, Typed, ObjectOK, ThreadOK,
     object, queue, net, history, events
<1>26. CASE UNCHANGED vars
  BY <1>26 DEF OutlivesInv, OutboundOutlivesReceiver, Typed, ObjectOK, ThreadOK, object,
     queue, threads, net, history, events, vars
<1>27. QED
  BY <1>1, <1>2, <1>3, <1>4, <1>5, <1>6, <1>7, <1>8, <1>9, <1>10, <1>11,
     <1>12, <1>13, <1>14, <1>15, <1>16, <1>17, <1>18, <1>19, <1>20, <1>21,
     <1>22, <1>23, <1>24, <1>25, <1>26
  DEF Next, Establish, Receive

-----------------------------------------------------------------------------
(***************************************************************************)
(* Until something disturbs it: peers wait for ConnectionEstablished, so a *)
(* connection enters the list before it leaves it, and is freed after.     *)
(***************************************************************************)
ListFollows ==
  \A c \in Conns :
    c \in Elements(m_ConnectionHead) <=>
      pc[c] \notin {"idle", "failed", "insert"} /\ rcv[c] \in {"queued", "recv", "remove"}

PeersWait ==
  \A c \in Conns :
    /\ peer[c] = "gone" => pc[c] \in {"done", "closing", "reaping", "closed"}
    /\ rcv[c] \notin {"none", "queued", "recv"} => peer[c] = "gone"
    /\ rcv[c] \in {"queued", "recv"} => _Socket[c]

Calm == unload = "no" /\ ~ub /\ \A t \in Conns \cup Pubs : pc[t] # "wait"

Undisturbed == ListFollows /\ PeersWait /\ Calm

QuietInv == disturbed \/ Undisturbed

LEMMA QuietStarts == Init => QuietInv
BY Threads DEF Init, QuietInv, Undisturbed, ListFollows, PeersWait, Calm, Elements

LEMMA DisturbedLasts ==
  ASSUME disturbed, [Next]_vars
  PROVE  disturbed'
<1>1. ASSUME NEW c \in Conns, NEW id \in StaleIds \cup {"other"}, FinalizeEstablish(c, id)
      PROVE  disturbed'
  BY <1>1 DEF FinalizeEstablish
<1>2. ASSUME NEW c \in Conns, FailEstablish(c)
      PROVE  disturbed'
  BY <1>2 DEF FailEstablish
<1>3. ASSUME NEW c \in Conns, ConnectionEstablished(c)
      PROVE  disturbed'
  BY <1>3 DEF ConnectionEstablished, Undefined
<1>4. ASSUME NEW c \in Conns, AddArrivalEvent(c)
      PROVE  disturbed'
  BY <1>4 DEF AddArrivalEvent
<1>5. ASSUME NEW c \in Conns, WalkPubs(c)
      PROVE  disturbed'
  BY <1>5 DEF WalkPubs
<1>6. ASSUME NEW c \in Conns, ReceiveStart(c)
      PROVE  disturbed'
  BY <1>6 DEF ReceiveStart, Undefined
<1>7. ASSUME NEW c \in Conns, ReceiveTerminate(c)
      PROVE  disturbed'
  BY <1>7 DEF ReceiveTerminate, Undefined
<1>8. ASSUME NEW c \in Conns, ConnectionTerminated(c)
      PROVE  disturbed'
  BY <1>8 DEF ConnectionTerminated, Undefined
<1>9. ASSUME NEW c \in Conns, DeleteInbound(c)
      PROVE  disturbed'
  BY <1>9 DEF DeleteInbound, Undefined
<1>10. ASSUME NEW c \in Conns, AddRemovalEvent(c)
      PROVE  disturbed'
  BY <1>10 DEF AddRemovalEvent, Undefined
<1>11. ASSUME NEW c \in Conns, ReceiveReturn(c)
      PROVE  disturbed'
  BY <1>11 DEF ReceiveReturn, Undefined
<1>12. ASSUME NEW c \in Conns, PeerGone(c)
      PROVE  disturbed'
  BY <1>12 DEF PeerGone
<1>13. ASSUME NEW c \in Outbound, CloseOutbound(c)
      PROVE  disturbed'
  BY <1>13 DEF CloseOutbound
<1>14. ASSUME NEW c \in Outbound, FreeOutbound(c)
      PROVE  disturbed'
  BY <1>14 DEF FreeOutbound
<1>15. ASSUME NEW p \in Pubs, SetPayload(p)
      PROVE  disturbed'
  BY <1>15 DEF SetPayload
<1>16. ASSUME NEW p \in Pubs, Publish(p)
      PROVE  disturbed'
  BY <1>16 DEF Publish
<1>17. ASSUME NEW p \in Pubs, SetEnabled(p)
      PROVE  disturbed'
  BY <1>17 DEF SetEnabled
<1>18. ASSUME NEW p \in Pubs, ClosePublication(p)
      PROVE  disturbed'
  BY <1>18 DEF ClosePublication
<1>19. ASSUME NEW t \in Conns \cup Pubs, TransmitMessage(t)
      PROVE  disturbed'
  BY <1>19 DEF TransmitMessage, Undefined
<1>20. ASSUME NEW t \in Conns \cup Pubs, TerminateReturns(t)
      PROVE  disturbed'
  BY <1>20 DEF TerminateReturns, Undefined
<1>21. ASSUME NEW t \in Conns \cup Pubs, EndWalk(t)
      PROVE  disturbed'
  BY <1>21 DEF EndWalk
<1>22. CASE BeginUnload
  BY <1>22 DEF BeginUnload
<1>23. CASE DeleteConnection
  BY <1>23 DEF DeleteConnection, Undefined
<1>24. CASE DeleteReturns
  BY <1>24 DEF DeleteReturns, Undefined
<1>25. CASE EndUnload
  BY <1>25 DEF EndUnload
<1>26. CASE UNCHANGED vars
  BY <1>26 DEF vars
<1>27. QED
  BY <1>1, <1>2, <1>3, <1>4, <1>5, <1>6, <1>7, <1>8, <1>9, <1>10, <1>11,
     <1>12, <1>13, <1>14, <1>15, <1>16, <1>17, <1>18, <1>19, <1>20, <1>21,
     <1>22, <1>23, <1>24, <1>25, <1>26
  DEF Next, Establish, Receive

\* Nothing that a thread still works with is deleted.
LEMMA Alive ==
  ASSUME Typed, LifeInv, OutlivesInv, Undisturbed
  PROVE  /\ \A c \in Conns : rcv[c] \in {"queued", "recv", "remove", "delete"} => exists[c] = "live"
         /\ \A c \in Conns : pc[c] \in {"insert", "transmit"} => exists[c] = "live"
         /\ \A c \in Elements(m_ConnectionHead) : exists[c] = "live"
         /\ \A c \in Outbound : rcv[c] = "return" => exists[c] = "live"
<1> USE Threads
<1>1. ASSUME NEW c \in Conns, rcv[c] \in {"queued", "recv", "remove", "delete"}
      PROVE  exists[c] = "live"
  <2>1. exists[c] # "none"
    BY <1>1 DEF LifeInv, Phases
  <2>2. exists[c] # "freed"
    BY <1>1 DEF LifeInv, Freed, OutlivesInv, OutboundOutlivesReceiver, Conns
  <2>3. QED
    BY <2>1, <2>2 DEF Typed, ObjectOK
<1>2. ASSUME NEW c \in Conns, pc[c] \in {"insert", "transmit"}
      PROVE  exists[c] = "live"
  <2>1. rcv[c] \in {"queued", "recv"}
    BY <1>2 DEF LifeInv, Phases, Undisturbed, PeersWait
  <2>2. QED
    BY <1>1, <2>1
<1>3. Elements(m_ConnectionHead) \subseteq Conns
  BY DEF Elements, Typed, QueueOK
<1>4. \A c \in Elements(m_ConnectionHead) : exists[c] = "live"
  BY <1>1, <1>3 DEF Undisturbed, ListFollows
<1>5. ASSUME NEW c \in Outbound, rcv[c] = "return"
      PROVE  exists[c] = "live"
  <2>1. exists[c] # "none"
    BY <1>5 DEF LifeInv, Phases
  <2>2. exists[c] # "freed"
    BY <1>5 DEF OutlivesInv, OutboundOutlivesReceiver
  <2>3. QED
    BY <2>1, <2>2 DEF Typed, ObjectOK
<1>6. QED
  BY <1>1, <1>2, <1>4, <1>5

LEMMA QuietKept ==
  ASSUME Typed, LifeInv, WalkInv, OutlivesInv, QuietInv, [Next]_vars
  PROVE  QuietInv'
<1> SUFFICES ASSUME ~disturbed' PROVE Undisturbed'
  BY DEF QuietInv
<1>u. ~disturbed /\ Undisturbed
  BY DisturbedLasts DEF QuietInv
<1> USE <1>u, Threads
<1>1. ASSUME NEW c \in Conns, NEW id \in StaleIds \cup {"other"}, FinalizeEstablish(c, id)
      PROVE  Undisturbed'
  <2>a. ListFollows'
    BY <1>1 DEF FinalizeEstablish, ListFollows, Undisturbed, Typed, ObjectOK, ThreadOK, queue,
       net, history, events, LifeInv, Phases, Listing
  <2>b. PeersWait'
    BY <1>1 DEF FinalizeEstablish, PeersWait, Undisturbed, Typed, ObjectOK, ThreadOK, queue,
       net, history, events, LifeInv, Phases, Listing
  <2>c. Calm'
    BY <1>1 DEF FinalizeEstablish, Calm, Undisturbed, Typed, ObjectOK, ThreadOK, queue, net,
       history, events, LifeInv, Phases, Listing
  <2>z. QED
    BY <2>a, <2>b, <2>c DEF Undisturbed
<1>2. ASSUME NEW c \in Conns, FailEstablish(c)
      PROVE  Undisturbed'
  <2>a. ListFollows'
    BY <1>2 DEF FailEstablish, ListFollows, Undisturbed, Typed, ObjectOK, ThreadOK, queue,
       net, events, LifeInv, Phases, Listing
  <2>b. PeersWait'
    BY <1>2 DEF FailEstablish, PeersWait, Undisturbed, Typed, ObjectOK, ThreadOK, queue, net,
       events, LifeInv, Phases, Listing
  <2>c. Calm'
    BY <1>2 DEF FailEstablish, Calm, Undisturbed, Typed, ObjectOK, ThreadOK, queue, net,
       events, LifeInv, Phases, Listing
  <2>z. QED
    BY <2>a, <2>b, <2>c DEF Undisturbed
<1>3. ASSUME NEW c \in Conns, ConnectionEstablished(c)
      PROVE  Undisturbed'
  <2>0. exists[c] = "live"
    BY <1>3, Alive DEF ConnectionEstablished
  <2>1. /\ pc[c] = "insert" /\ (\E x \in {"arrive", "walk"} : pc' = [pc EXCEPT ![c] = x])
        /\ m_ConnectionHead' = <<c>> \o m_ConnectionHead
        /\ UNCHANGED <<rcv, peer, _Socket>>
    BY <1>3, <2>0 DEF ConnectionEstablished, object, net
  <2>2. Elements(m_ConnectionHead') = Elements(m_ConnectionHead) \cup {c}
    BY <2>1, HeadInserted DEF Typed, QueueOK
  <2>3. rcv[c] \in {"queued", "recv"} /\ peer[c] # "gone"
    BY <2>1 DEF LifeInv, Phases, Undisturbed, PeersWait
  <2>a. ListFollows'
    BY <2>1, <2>2, <2>3 DEF ListFollows, Undisturbed, Typed, ThreadOK
  <2>b. PeersWait'
    BY <2>1, <2>3 DEF PeersWait, Undisturbed, Typed, ThreadOK
  <2>c. Calm'
    BY <1>3, <2>0 DEF ConnectionEstablished, Calm, Undisturbed, Typed, ObjectOK, ThreadOK,
       object, net, events
  <2>z. QED
    BY <2>a, <2>b, <2>c DEF Undisturbed
<1>4. ASSUME NEW c \in Conns, AddArrivalEvent(c)
      PROVE  Undisturbed'
  <2>a. ListFollows'
    BY <1>4 DEF AddArrivalEvent, ListFollows, Undisturbed, Typed, ObjectOK, ThreadOK, object,
       queue, net
  <2>b. PeersWait'
    BY <1>4 DEF AddArrivalEvent, PeersWait, Undisturbed, Typed, ObjectOK, ThreadOK, object,
       queue, net
  <2>c. Calm'
    BY <1>4 DEF AddArrivalEvent, Calm, Undisturbed, Typed, ObjectOK, ThreadOK, object, queue,
       net
  <2>z. QED
    BY <2>a, <2>b, <2>c DEF Undisturbed
<1>5. ASSUME NEW c \in Conns, WalkPubs(c)
      PROVE  Undisturbed'
  <2>a. ListFollows'
    BY <1>5 DEF WalkPubs, ListFollows, Undisturbed, Typed, ObjectOK, ThreadOK, object, net,
       history, events
  <2>b. PeersWait'
    BY <1>5 DEF WalkPubs, PeersWait, Undisturbed, Typed, ObjectOK, ThreadOK, object, net,
       history, events
  <2>c. Calm'
    BY <1>5 DEF WalkPubs, Calm, Undisturbed, Typed, ObjectOK, ThreadOK, object, net, history,
       events
  <2>z. QED
    BY <2>a, <2>b, <2>c DEF Undisturbed
<1>6. ASSUME NEW c \in Conns, ReceiveStart(c)
      PROVE  Undisturbed'
  <2>0. exists[c] = "live"
    BY <1>6, Alive DEF ReceiveStart
  <2>a. ListFollows'
    BY <1>6, <2>0 DEF ReceiveStart, ListFollows, Undisturbed, Typed, ObjectOK, ThreadOK,
       queue, net, history, events
  <2>b. PeersWait'
    BY <1>6, <2>0 DEF ReceiveStart, PeersWait, Undisturbed, Typed, ObjectOK, ThreadOK, queue,
       net, history, events
  <2>c. Calm'
    BY <1>6, <2>0 DEF ReceiveStart, Calm, Undisturbed, Typed, ObjectOK, ThreadOK, queue, net,
       history, events
  <2>z. QED
    BY <2>a, <2>b, <2>c DEF Undisturbed
<1>7. ASSUME NEW c \in Conns, ReceiveTerminate(c)
      PROVE  Undisturbed'
  <2>0. exists[c] = "live"
    BY <1>7, Alive DEF ReceiveTerminate
  <2>a. ListFollows'
    BY <1>7, <2>0 DEF ReceiveTerminate, ListFollows, Undisturbed, Typed, ObjectOK, ThreadOK,
       queue, events
  <2>b. PeersWait'
    BY <1>7, <2>0 DEF ReceiveTerminate, PeersWait, Undisturbed, Typed, ObjectOK, ThreadOK,
       queue, events, CloseSocket
  <2>c. Calm'
    BY <1>7, <2>0 DEF ReceiveTerminate, Calm, Undisturbed, Typed, ObjectOK, ThreadOK, queue,
       events
  <2>z. QED
    BY <2>a, <2>b, <2>c DEF Undisturbed
<1>8. ASSUME NEW c \in Conns, ConnectionTerminated(c)
      PROVE  Undisturbed'
  <2>0. unload # "gone" /\ \A d \in Searched(c) \cup {c} : exists[d] # "freed"
    BY <1>8, Alive DEF ConnectionTerminated, Searched, Elements, Undisturbed, Calm
  <2>1. /\ rcv[c] = "remove" /\ rcv' = [rcv EXCEPT ![c] = "delete"]
        /\ m_ConnectionHead' = Unlink(m_ConnectionHead, c) /\ UNCHANGED pc
    BY <1>8, <2>0 DEF ConnectionTerminated
  <2>2. Elements(m_ConnectionHead') = Elements(m_ConnectionHead) \ {c}
    BY <2>1, UnlinkRemoves DEF Typed, QueueOK, LifeInv, Listing
  <2>a. ListFollows'
    BY <2>1, <2>2 DEF ListFollows, Undisturbed, Typed, ThreadOK
  <2>b. PeersWait'
    BY <1>8, <2>0 DEF ConnectionTerminated, PeersWait, Undisturbed, Typed, ObjectOK, ThreadOK,
       object, net, history, events
  <2>c. Calm'
    BY <1>8, <2>0 DEF ConnectionTerminated, Calm, Undisturbed, Typed, ObjectOK, ThreadOK,
       object, net, history, events
  <2>z. QED
    BY <2>a, <2>b, <2>c DEF Undisturbed
<1>9. ASSUME NEW c \in Conns, DeleteInbound(c)
      PROVE  Undisturbed'
  <2>0. exists[c] = "live"
    BY <1>9, Alive DEF DeleteInbound
  <2>a. ListFollows'
    BY <1>9, <2>0 DEF DeleteInbound, ListFollows, Undisturbed, Typed, ObjectOK, ThreadOK,
       queue, net, history, events
  <2>b. PeersWait'
    BY <1>9, <2>0 DEF DeleteInbound, PeersWait, Undisturbed, Typed, ObjectOK, ThreadOK, queue,
       net, history, events
  <2>c. Calm'
    BY <1>9, <2>0 DEF DeleteInbound, Calm, Undisturbed, Typed, ObjectOK, ThreadOK, queue, net,
       history, events
  <2>z. QED
    BY <2>a, <2>b, <2>c DEF Undisturbed
<1>10. ASSUME NEW c \in Conns, AddRemovalEvent(c)
      PROVE  Undisturbed'
  <2>0. unload # "gone"
    BY DEF Undisturbed, Calm
  <2>a. ListFollows'
    BY <1>10, <2>0 DEF AddRemovalEvent, ListFollows, Undisturbed, Typed, ObjectOK, ThreadOK,
       object, queue, net
  <2>b. PeersWait'
    BY <1>10, <2>0 DEF AddRemovalEvent, PeersWait, Undisturbed, Typed, ObjectOK, ThreadOK,
       object, queue, net
  <2>c. Calm'
    BY <1>10, <2>0 DEF AddRemovalEvent, Calm, Undisturbed, Typed, ObjectOK, ThreadOK, object,
       queue, net
  <2>z. QED
    BY <2>a, <2>b, <2>c DEF Undisturbed
<1>11. ASSUME NEW c \in Conns, ReceiveReturn(c)
      PROVE  Undisturbed'
  <2>0. c \in Outbound => exists[c] = "live"
    BY <1>11, Alive DEF ReceiveReturn
  <2>a. ListFollows'
    BY <1>11, <2>0 DEF ReceiveReturn, ListFollows, Undisturbed, Typed, ObjectOK, ThreadOK,
       queue, net, history, events
  <2>b. PeersWait'
    BY <1>11, <2>0 DEF ReceiveReturn, PeersWait, Undisturbed, Typed, ObjectOK, ThreadOK,
       queue, net, history, events
  <2>c. Calm'
    BY <1>11, <2>0 DEF ReceiveReturn, Calm, Undisturbed, Typed, ObjectOK, ThreadOK, queue,
       net, history, events
  <2>z. QED
    BY <2>a, <2>b, <2>c DEF Undisturbed
<1>12. ASSUME NEW c \in Conns, PeerGone(c)
      PROVE  Undisturbed'
  <2>a. ListFollows'
    BY <1>12 DEF PeerGone, ListFollows, Undisturbed, Typed, ObjectOK, ThreadOK, object, queue,
       threads, history, events
  <2>b. PeersWait'
    BY <1>12 DEF PeerGone, PeersWait, Undisturbed, Typed, ObjectOK, ThreadOK, object, queue,
       threads, history, events, Establishing, LifeInv, Phases
  <2>c. Calm'
    BY <1>12 DEF PeerGone, Calm, Undisturbed, Typed, ObjectOK, ThreadOK, object, queue,
       threads, history, events
  <2>z. QED
    BY <2>a, <2>b, <2>c DEF Undisturbed
<1>13. ASSUME NEW c \in Outbound, CloseOutbound(c)
      PROVE  Undisturbed'
  <2>a. ListFollows'
    BY <1>13 DEF CloseOutbound, ListFollows, Undisturbed, Typed, ObjectOK, ThreadOK, queue,
       events
  <2>b. PeersWait'
    BY <1>13 DEF CloseOutbound, PeersWait, Undisturbed, Typed, ObjectOK, ThreadOK, queue,
       events, CloseSocket, OutlivesInv
  <2>c. Calm'
    BY <1>13 DEF CloseOutbound, Calm, Undisturbed, Typed, ObjectOK, ThreadOK, queue, events
  <2>z. QED
    BY <2>a, <2>b, <2>c DEF Undisturbed
<1>14. ASSUME NEW c \in Outbound, FreeOutbound(c)
      PROVE  Undisturbed'
  <2>a. ListFollows'
    BY <1>14 DEF FreeOutbound, ListFollows, Undisturbed, Typed, ObjectOK, ThreadOK, queue,
       net, events
  <2>b. PeersWait'
    BY <1>14 DEF FreeOutbound, PeersWait, Undisturbed, Typed, ObjectOK, ThreadOK, queue, net,
       events, CloseSocket
  <2>c. Calm'
    BY <1>14 DEF FreeOutbound, Calm, Undisturbed, Typed, ObjectOK, ThreadOK, queue, net, events
  <2>z. QED
    BY <2>a, <2>b, <2>c DEF Undisturbed
<1>15. ASSUME NEW p \in Pubs, SetPayload(p)
      PROVE  Undisturbed'
  <2>a. ListFollows'
    BY <1>15 DEF SetPayload, ListFollows, Undisturbed, Typed, ObjectOK, ThreadOK, object, net,
       history, events
  <2>b. PeersWait'
    BY <1>15 DEF SetPayload, PeersWait, Undisturbed, Typed, ObjectOK, ThreadOK, object, net,
       history, events
  <2>c. Calm'
    BY <1>15 DEF SetPayload, Calm, Undisturbed, Typed, ObjectOK, ThreadOK, object, net,
       history, events
  <2>z. QED
    BY <2>a, <2>b, <2>c DEF Undisturbed
<1>16. ASSUME NEW p \in Pubs, Publish(p)
      PROVE  Undisturbed'
  <2>a. ListFollows'
    BY <1>16 DEF Publish, ListFollows, Undisturbed, Typed, ObjectOK, ThreadOK, object, net,
       history, events
  <2>b. PeersWait'
    BY <1>16 DEF Publish, PeersWait, Undisturbed, Typed, ObjectOK, ThreadOK, object, net,
       history, events
  <2>c. Calm'
    BY <1>16 DEF Publish, Calm, Undisturbed, Typed, ObjectOK, ThreadOK, object, net, history,
       events
  <2>z. QED
    BY <2>a, <2>b, <2>c DEF Undisturbed
<1>17. ASSUME NEW p \in Pubs, SetEnabled(p)
      PROVE  Undisturbed'
  <2>a. ListFollows'
    BY <1>17 DEF SetEnabled, ListFollows, Undisturbed, Typed, ObjectOK, ThreadOK, object,
       queue, threads, net, events
  <2>b. PeersWait'
    BY <1>17 DEF SetEnabled, PeersWait, Undisturbed, Typed, ObjectOK, ThreadOK, object, queue,
       threads, net, events
  <2>c. Calm'
    BY <1>17 DEF SetEnabled, Calm, Undisturbed, Typed, ObjectOK, ThreadOK, object, queue,
       threads, net, events
  <2>z. QED
    BY <2>a, <2>b, <2>c DEF Undisturbed
<1>18. ASSUME NEW p \in Pubs, ClosePublication(p)
      PROVE  Undisturbed'
  <2>a. ListFollows'
    BY <1>18 DEF ClosePublication, ListFollows, Undisturbed, Typed, ObjectOK, ThreadOK,
       object, net, events
  <2>b. PeersWait'
    BY <1>18 DEF ClosePublication, PeersWait, Undisturbed, Typed, ObjectOK, ThreadOK, object,
       net, events
  <2>c. Calm'
    BY <1>18 DEF ClosePublication, Calm, Undisturbed, Typed, ObjectOK, ThreadOK, object, net,
       events
  <2>z. QED
    BY <2>a, <2>b, <2>c DEF Undisturbed
<1>19. ASSUME NEW t \in Conns \cup Pubs, TransmitMessage(t)
      PROVE  Undisturbed'
  <2>1. /\ pc[t] = "transmit" /\ rest[t] # <<>>
    BY <1>19 DEF TransmitMessage
  <2>2. exists[LinkOf(t)] = "live"
    <3>1. CASE t \in Conns
      BY <2>1, <3>1, Alive DEF LinkOf
    <3>2. CASE t \in Pubs
      <4>1. IsTailOf(rest[t], m_ConnectionHead)
        BY <2>1, <3>2 DEF WalkInv, Locks, Held, WalksTheList
      <4>2. Head(rest[t]) \in Elements(m_ConnectionHead)
        BY <2>1, <3>2, <4>1, TailOfTail DEF Typed, RestOK, QueueOK
      <4>3. QED
        BY <3>2, <4>2, Alive DEF LinkOf
    <3>3. QED
      BY <3>1, <3>2
  <2>0. UNCHANGED <<pc, rcv, peer, unload, ub, _Socket, m_ConnectionHead>>
    BY <1>19, <2>2 DEF TransmitMessage, object, queue, net
  <2>a. ListFollows'
    BY <2>0 DEF ListFollows, Undisturbed
  <2>b. PeersWait'
    BY <2>0 DEF PeersWait, Undisturbed
  <2>c. Calm'
    BY <2>0 DEF Calm, Undisturbed
  <2>z. QED
    BY <2>a, <2>b, <2>c DEF Undisturbed
<1>20. ASSUME NEW t \in Conns \cup Pubs, TerminateReturns(t)
      PROVE  Undisturbed'
  BY <1>20 DEF TerminateReturns, Undisturbed, Calm
<1>21. ASSUME NEW t \in Conns \cup Pubs, EndWalk(t)
      PROVE  Undisturbed'
  <2>0. /\ pc[t] = "transmit" /\ (\E x \in {"done", "publish"} : pc' = [pc EXCEPT ![t] = x])
        /\ t \in Conns => pc' = [pc EXCEPT ![t] = "done"]
        /\ UNCHANGED <<m_ConnectionHead, rcv, peer, _Socket>>
    BY <1>21 DEF EndWalk, object, net
  <2>a. ListFollows'
    BY <2>0 DEF ListFollows, Undisturbed, Typed, ThreadOK
  <2>b. PeersWait'
    BY <2>0 DEF PeersWait, Undisturbed, Typed, ThreadOK
  <2>c. Calm'
    BY <1>21, <2>0 DEF EndWalk, Calm, Undisturbed, Typed, ObjectOK, ThreadOK, object, net,
       history, events
  <2>z. QED
    BY <2>a, <2>b, <2>c DEF Undisturbed
<1>22. CASE BeginUnload
  BY <1>22 DEF BeginUnload, Undisturbed, Calm
<1>23. CASE DeleteConnection
  <2>1. unload = "delete"
    BY <1>23 DEF DeleteConnection
  <2>2. QED
    BY <2>1 DEF Undisturbed, Calm
<1>24. CASE DeleteReturns
  BY <1>24, ThreadsAssumption DEF DeleteReturns, Undisturbed, Calm
<1>25. CASE EndUnload
  BY <1>25 DEF EndUnload, Undisturbed, Calm
<1>26. CASE UNCHANGED vars
  <2>a. ListFollows'
    BY <1>26 DEF vars, ListFollows, Undisturbed, Typed, ObjectOK, ThreadOK, object, queue,
       threads, net, history, events
  <2>b. PeersWait'
    BY <1>26 DEF vars, PeersWait, Undisturbed, Typed, ObjectOK, ThreadOK, object, queue,
       threads, net, history, events
  <2>c. Calm'
    BY <1>26 DEF vars, Calm, Undisturbed, Typed, ObjectOK, ThreadOK, object, queue, threads,
       net, history, events
  <2>z. QED
    BY <2>a, <2>b, <2>c DEF Undisturbed
<1>27. QED
  BY <1>1, <1>2, <1>3, <1>4, <1>5, <1>6, <1>7, <1>8, <1>9, <1>10, <1>11,
     <1>12, <1>13, <1>14, <1>15, <1>16, <1>17, <1>18, <1>19, <1>20, <1>21,
     <1>22, <1>23, <1>24, <1>25, <1>26
  DEF Next, Establish, Receive

-----------------------------------------------------------------------------
(***************************************************************************)
(* The events tell whether there is a link: an arrival for each time the   *)
(* list was filled, a departure for each time it was emptied.              *)
(***************************************************************************)
Coming  == {c \in Conns : pc[c] = "arrive"}
Leaving == {c \in Conns : fNoMoreConnections[c] /\ rcv[c] \in {"delete", "depart"}}
Filled  == IF m_ConnectionHead = <<>> THEN 0 ELSE 1

Countable ==
  /\ IsFiniteSet(Coming) /\ IsFiniteSet(Leaving)
  /\ \A c \in Conns : rcv[c] = "depart" => fNoMoreConnections[c]

Balance == arrivals + Cardinality(Coming) = departures + Cardinality(Leaving) + Filled

BalanceInv == Countable /\ (disturbed \/ Balance)

Changes(new, old, by) == new = old + by

LEMMA SetMoves ==
  ASSUME NEW S, NEW T, NEW x, IsFiniteSet(S),
         \A y : y # x => (y \in T <=> y \in S)
  PROVE  /\ IsFiniteSet(T)
         /\ (x \in T <=> x \in S) => Changes(Cardinality(T), Cardinality(S), 0)
         /\ x \in T /\ x \notin S => Changes(Cardinality(T), Cardinality(S), 1)
         /\ x \notin T /\ x \in S => Changes(Cardinality(T), Cardinality(S), -1)
<1>1. Cardinality(S) \in Nat
  BY FS_CardinalityType
<1>2. CASE x \in T <=> x \in S
  <2>1. T = S
    BY <1>2
  <2>2. QED
    BY <1>1, <1>2, <2>1 DEF Changes
<1>3. CASE x \in T /\ x \notin S
  <2>1. T = S \cup {x}
    BY <1>3
  <2>2. QED
    BY <1>1, <1>3, <2>1, FS_AddElement DEF Changes
<1>4. CASE x \notin T /\ x \in S
  <2>1. T = S \ {x}
    BY <1>4
  <2>2. QED
    BY <1>1, <1>4, <2>1, FS_RemoveElement DEF Changes
<1>5. QED
  BY <1>2, <1>3, <1>4

\* What a step of one connection does to the two sets.
LEMMA ComingMoves ==
  ASSUME Countable, NEW c \in Conns, \A d \in Conns : d # c => pc'[d] = pc[d]
  PROVE  /\ IsFiniteSet(Coming')
         /\ (pc'[c] = "arrive" <=> pc[c] = "arrive")
              => Changes(Cardinality(Coming'), Cardinality(Coming), 0)
         /\ pc'[c] = "arrive" /\ pc[c] # "arrive"
              => Changes(Cardinality(Coming'), Cardinality(Coming), 1)
         /\ pc'[c] # "arrive" /\ pc[c] = "arrive"
              => Changes(Cardinality(Coming'), Cardinality(Coming), -1)
<1>1. \A d : d # c => (d \in Coming' <=> d \in Coming)
  BY DEF Coming
<1>2. IsFiniteSet(Coming)
  BY DEF Countable
<1>3. (c \in Coming' <=> pc'[c] = "arrive") /\ (c \in Coming <=> pc[c] = "arrive")
  BY DEF Coming
<1>4. QED
  BY <1>1, <1>2, <1>3, SetMoves

Goes(c) == fNoMoreConnections[c] /\ rcv[c] \in {"delete", "depart"}

LEMMA LeavingMoves ==
  ASSUME Countable, NEW c \in Conns,
         \A d \in Conns : d # c => rcv'[d] = rcv[d] /\ fNoMoreConnections'[d] = fNoMoreConnections[d]
  PROVE  /\ IsFiniteSet(Leaving')
         /\ (Goes(c)' <=> Goes(c))
              => Changes(Cardinality(Leaving'), Cardinality(Leaving), 0)
         /\ Goes(c)' /\ ~Goes(c)
              => Changes(Cardinality(Leaving'), Cardinality(Leaving), 1)
         /\ ~Goes(c)' /\ Goes(c)
              => Changes(Cardinality(Leaving'), Cardinality(Leaving), -1)
<1>1. \A d : d # c => (d \in Leaving' <=> d \in Leaving)
  BY DEF Leaving
<1>2. IsFiniteSet(Leaving)
  BY DEF Countable
<1>3. (c \in Leaving' <=> Goes(c)') /\ (c \in Leaving <=> Goes(c))
  BY DEF Leaving, Goes
<1>4. QED
  BY <1>1, <1>2, <1>3, SetMoves

LEMMA Sums ==
  ASSUME NEW a \in Int, NEW c \in Int, NEW d \in Int, NEW e \in Int, NEW f \in Int,
         NEW i \in Int, NEW j \in Int, NEW k \in Int, NEW l \in Int, NEW m \in Int,
         a + c = d + e + f, i + j = k + l + m
  PROVE  (a + i) + (c + j) = (d + k) + (e + l) + (f + m)
OBVIOUS

LEMMA BalanceMoves ==
  ASSUME Typed, Countable, Balance,
         NEW i \in Int, NEW j \in Int, NEW k \in Int, NEW l \in Int, NEW m \in Int,
         Changes(arrivals', arrivals, i), Changes(Cardinality(Coming'), Cardinality(Coming), j),
         Changes(departures', departures, k), Changes(Cardinality(Leaving'), Cardinality(Leaving), l),
         Changes(Filled', Filled, m), i + j = k + l + m
  PROVE  Balance'
<1>1. PICK a \in Int : a = arrivals
  BY DEF Typed, QueueOK
<1>2. PICK d \in Int : d = departures
  BY DEF Typed, QueueOK
<1>3. Cardinality(Coming) \in Int /\ Cardinality(Leaving) \in Int
  BY FS_CardinalityType DEF Countable
<1>4. PICK c \in Int : c = Cardinality(Coming)
  BY <1>3
<1>5. PICK e \in Int : e = Cardinality(Leaving)
  BY <1>3
<1>6. PICK f \in Int : f = Filled
  BY DEF Filled
<1>7. a + c = d + e + f
  BY <1>1, <1>2, <1>4, <1>5, <1>6 DEF Balance
<1>8. (a + i) + (c + j) = (d + k) + (e + l) + (f + m)
  BY <1>7, Sums
<1>9. /\ arrivals' = a + i /\ Cardinality(Coming') = c + j
      /\ departures' = d + k /\ Cardinality(Leaving') = e + l /\ Filled' = f + m
  BY <1>1, <1>2, <1>4, <1>5, <1>6 DEF Changes
<1>10. QED
  BY <1>8, <1>9 DEF Balance

LEMMA NumbersRest ==
  ASSUME Typed
  PROVE  /\ arrivals' = arrivals => Changes(arrivals', arrivals, 0)
         /\ departures' = departures => Changes(departures', departures, 0)
         /\ Filled' = Filled => Changes(Filled', Filled, 0)
BY DEF Typed, QueueOK, Changes, Filled

\* A step that neither fills nor empties the list, nor raises an event.
LEMMA BalanceStays ==
  ASSUME BalanceInv, UNCHANGED <<arrivals, departures>>, disturbed => disturbed', Filled' = Filled,
         \A c \in Conns : /\ pc'[c] = "arrive" <=> pc[c] = "arrive"
                          /\ Goes(c)' <=> Goes(c)
                          /\ rcv'[c] = "depart" => rcv[c] = "depart" /\ fNoMoreConnections'[c] = fNoMoreConnections[c]
  PROVE  BalanceInv'
<1>1. Coming' = Coming
  BY DEF Coming
<1>2. Leaving' = Leaving
  BY DEF Leaving, Goes
<1>3. Countable'
  BY <1>1, <1>2 DEF BalanceInv, Countable
<1>4. disturbed' \/ Balance'
  BY <1>1, <1>2 DEF BalanceInv, Balance
<1>5. QED
  BY <1>3, <1>4 DEF BalanceInv

LEMMA BalanceStarts == Init => BalanceInv
<1> SUFFICES ASSUME Init PROVE BalanceInv
  OBVIOUS
<1>1. Coming = {} /\ Leaving = {} /\ Filled = 0
  BY DEF Init, Coming, Leaving, Filled
<1>2. IsFiniteSet({}) /\ Cardinality({}) = 0
  BY FS_EmptySet
<1>3. Countable
  BY <1>1, <1>2 DEF Init, Countable
<1>4. Balance
  <2>1. arrivals = 0 /\ departures = 0 /\ Cardinality(Coming) = 0 /\ Cardinality(Leaving) = 0
    BY <1>1, <1>2 DEF Init
  <2>2. QED
    BY <1>1, <2>1 DEF Balance
<1>5. QED
  BY <1>3, <1>4 DEF BalanceInv

LEMMA BalanceKept ==
  ASSUME Typed, LifeInv, WalkInv, OutlivesInv, QuietInv, BalanceInv, [Next]_vars
  PROVE  BalanceInv'
<1>d. disturbed => disturbed'
  BY DisturbedLasts
<1>b. Countable
  BY DEF BalanceInv
<1> USE Threads, <1>d
<1>1. ASSUME NEW c \in Conns, NEW id \in StaleIds \cup {"other"}, FinalizeEstablish(c, id)
      PROVE  BalanceInv'
  BY <1>1, BalanceStays DEF FinalizeEstablish, Filled, Goes, Typed, ThreadOK, queue, net,
     history, events, LifeInv, Phases
<1>2. ASSUME NEW c \in Conns, FailEstablish(c)
      PROVE  BalanceInv'
  BY <1>2, BalanceStays DEF FailEstablish, Filled, Goes, Typed, ThreadOK, queue, net, events,
     LifeInv, Phases
<1>3. ASSUME NEW c \in Conns, ConnectionEstablished(c)
      PROVE  BalanceInv'
  <2>1. CASE Undefined
    BY <2>1, BalanceStays DEF Undefined, Goes, Filled, queue, threads, history, events
  <2>2. CASE ~Undefined
    <3>1. /\ pc[c] = "insert"
          /\ pc' = [pc EXCEPT ![c] = IF m_ConnectionHead = <<>> THEN "arrive" ELSE "walk"]
          /\ m_ConnectionHead' = <<c>> \o m_ConnectionHead
          /\ UNCHANGED <<rcv, fNoMoreConnections, arrivals, departures, disturbed>>
      BY <1>3, <2>2 DEF ConnectionEstablished, events
    <3>2. /\ Changes(Cardinality(Leaving'), Cardinality(Leaving), 0) /\ IsFiniteSet(Leaving')
          /\ Changes(arrivals', arrivals, 0) /\ Changes(departures', departures, 0)
      BY <1>b, <3>1, LeavingMoves, NumbersRest DEF Goes
    <3>3. m_ConnectionHead' # <<>> /\ Filled' = 1
      BY <3>1, HeadInserted DEF Typed, QueueOK, Filled
    <3>4. CASE m_ConnectionHead = <<>>
      <4>1. Changes(Cardinality(Coming'), Cardinality(Coming), 1) /\ IsFiniteSet(Coming')
        BY <1>b, <3>1, <3>4, ComingMoves DEF Typed, ThreadOK
      <4>2. Changes(Filled', Filled, 1)
        BY <3>3, <3>4 DEF Filled, Changes
      <4>3. Balance => Balance'
        <5>1. 0 + 1 = 0 + 0 + 1
          OBVIOUS
        <5>2. QED
          BY <1>b, <3>2, <4>1, <4>2, <5>1, BalanceMoves
      <4>4. QED
        BY <1>b, <3>1, <3>2, <4>1, <4>3 DEF BalanceInv, Countable
    <3>5. CASE m_ConnectionHead # <<>>
      <4>1. Changes(Cardinality(Coming'), Cardinality(Coming), 0) /\ IsFiniteSet(Coming')
        BY <1>b, <3>1, <3>5, ComingMoves DEF Typed, ThreadOK
      <4>2. Changes(Filled', Filled, 0)
        BY <3>3, <3>5 DEF Filled, Changes
      <4>3. Balance => Balance'
        <5>1. 0 + 0 = 0 + 0 + 0
          OBVIOUS
        <5>2. QED
          BY <1>b, <3>2, <4>1, <4>2, <5>1, BalanceMoves
      <4>4. QED
        BY <1>b, <3>1, <3>2, <4>1, <4>3 DEF BalanceInv, Countable
    <3>6. QED
      BY <3>4, <3>5
  <2>3. QED
    BY <2>1, <2>2
<1>4. ASSUME NEW c \in Conns, AddArrivalEvent(c)
      PROVE  BalanceInv'
  <2>1. /\ pc[c] = "arrive" /\ pc' = [pc EXCEPT ![c] = "walk"] /\ arrivals' = arrivals + 1
        /\ UNCHANGED <<rcv, fNoMoreConnections, departures, m_ConnectionHead, disturbed>>
    BY <1>4 DEF AddArrivalEvent, queue
  <2>2. /\ Changes(Cardinality(Coming'), Cardinality(Coming), -1) /\ IsFiniteSet(Coming')
        /\ Changes(Cardinality(Leaving'), Cardinality(Leaving), 0) /\ IsFiniteSet(Leaving')
    BY <1>b, <2>1, ComingMoves, LeavingMoves DEF Typed, ThreadOK, Goes
  <2>3. /\ Changes(arrivals', arrivals, 1) /\ Changes(departures', departures, 0)
        /\ Changes(Filled', Filled, 0)
    BY <2>1, NumbersRest DEF Changes, Filled
  <2>4. Countable'
    BY <1>b, <2>1, <2>2 DEF Countable
  <2>5. Balance => Balance'
    <3>1. 1 + (-1) = 0 + 0 + 0
      OBVIOUS
    <3>2. QED
      BY <1>b, <2>2, <2>3, <3>1, BalanceMoves
  <2>6. QED
    BY <2>1, <2>4, <2>5 DEF BalanceInv
<1>5. ASSUME NEW c \in Conns, WalkPubs(c)
      PROVE  BalanceInv'
  BY <1>5, BalanceStays DEF WalkPubs, Filled, Goes, Typed, ThreadOK, object, net, history,
     events
<1>6. ASSUME NEW c \in Conns, ReceiveStart(c)
      PROVE  BalanceInv'
  <2>1. CASE Undefined
    BY <2>1, BalanceStays DEF Undefined, Goes, Filled, queue, threads, history, events
  <2>2. CASE ~Undefined
    BY <1>6, <2>2, BalanceStays DEF ReceiveStart, Filled, Goes, Typed, ThreadOK, queue, net,
       history, events
  <2>3. QED
    BY <2>1, <2>2
<1>7. ASSUME NEW c \in Conns, ReceiveTerminate(c)
      PROVE  BalanceInv'
  <2>1. CASE Undefined
    BY <2>1, BalanceStays DEF Undefined, Goes, Filled, queue, threads, history, events
  <2>2. CASE ~Undefined
    BY <1>7, <2>2, BalanceStays DEF ReceiveTerminate, Filled, Goes, Typed, ThreadOK, queue,
       events
  <2>3. QED
    BY <2>1, <2>2
<1>8. ASSUME NEW c \in Conns, ConnectionTerminated(c)
      PROVE  BalanceInv'
  <2>1. CASE Undefined
    BY <2>1, BalanceStays DEF Undefined, Goes, Filled, queue, threads, history, events
  <2>2. CASE ~Undefined
    <3>1. /\ rcv[c] = "remove" /\ rcv' = [rcv EXCEPT ![c] = "delete"]
          /\ m_ConnectionHead' = Unlink(m_ConnectionHead, c)
          /\ fNoMoreConnections' = [fNoMoreConnections EXCEPT ![c] = m_ConnectionHead' = <<>>]
          /\ UNCHANGED <<pc, arrivals, departures, disturbed>>
      BY <1>8, <2>2 DEF ConnectionTerminated, history, events
    <3>2. /\ rcv'[c] = "delete"
          /\ fNoMoreConnections'[c] <=> m_ConnectionHead' = <<>>
          /\ \A d \in Conns : d # c => rcv'[d] = rcv[d] /\ fNoMoreConnections'[d] = fNoMoreConnections[d]
      BY <3>1 DEF Typed, ThreadOK
    <3>3. /\ Changes(Cardinality(Coming'), Cardinality(Coming), 0) /\ IsFiniteSet(Coming')
          /\ Changes(arrivals', arrivals, 0) /\ Changes(departures', departures, 0)
      BY <1>b, <3>1, ComingMoves, NumbersRest
    <3>4. ~Goes(c) /\ (Goes(c)' <=> m_ConnectionHead' = <<>>)
      BY <3>1, <3>2 DEF Goes
    <3>5. IsFiniteSet(Leaving')
      BY <1>b, <3>2, LeavingMoves
    <3>6. Countable'
      BY <1>b, <3>2, <3>3, <3>5 DEF Countable
    <3>7. ASSUME ~disturbed, Balance PROVE Balance'
      <4>1. m_ConnectionHead # <<>>
        <5>1. pc[c] \notin {"idle", "failed", "insert"}
          BY <3>1, <3>7 DEF LifeInv, Phases, QuietInv, Undisturbed, PeersWait
        <5>2. c \in Elements(m_ConnectionHead)
          BY <3>1, <3>7, <5>1 DEF QuietInv, Undisturbed, ListFollows
        <5>3. QED
          BY <5>2 DEF Elements
      <4>2. CASE m_ConnectionHead' = <<>>
        <5>1. Changes(Cardinality(Leaving'), Cardinality(Leaving), 1)
          BY <1>b, <3>2, <3>4, <4>2, LeavingMoves
        <5>2. Changes(Filled', Filled, -1)
          BY <4>1, <4>2 DEF Filled, Changes
        <5>3. 0 + 0 = 0 + 1 + (-1)
          OBVIOUS
        <5>4. QED
          BY <1>b, <3>3, <3>7, <5>1, <5>2, <5>3, BalanceMoves
      <4>3. CASE m_ConnectionHead' # <<>>
        <5>1. Changes(Cardinality(Leaving'), Cardinality(Leaving), 0)
          BY <1>b, <3>2, <3>4, <4>3, LeavingMoves
        <5>2. Changes(Filled', Filled, 0)
          BY <4>1, <4>3 DEF Filled, Changes
        <5>3. 0 + 0 = 0 + 0 + 0
          OBVIOUS
        <5>4. QED
          BY <1>b, <3>3, <3>7, <5>1, <5>2, <5>3, BalanceMoves
      <4>4. QED
        BY <4>2, <4>3
    <3>8. QED
      BY <3>1, <3>6, <3>7 DEF BalanceInv
  <2>3. QED
    BY <2>1, <2>2
<1>9. ASSUME NEW c \in Conns, DeleteInbound(c)
      PROVE  BalanceInv'
  <2>1. CASE Undefined
    BY <2>1, BalanceStays DEF Undefined, Goes, Filled, queue, threads, history, events
  <2>2. CASE ~Undefined
    <3>1. /\ rcv[c] = "delete"
          /\ rcv' = [rcv EXCEPT ![c] = IF fNoMoreConnections[c] THEN "depart" ELSE "return"]
          /\ UNCHANGED <<pc, fNoMoreConnections, m_ConnectionHead, arrivals, departures, disturbed>>
      BY <1>9, <2>2 DEF DeleteInbound, queue, history, events
    <3>2. Countable' /\ Coming' = Coming /\ Leaving' = Leaving
      <4>1. Coming' = Coming
        BY <3>1 DEF Coming
      <4>2. Leaving' = Leaving
        BY <3>1 DEF Leaving, Typed, ThreadOK
      <4>3. QED
        BY <1>b, <3>1, <4>1, <4>2 DEF Countable, Typed, ThreadOK
    <3>3. Balance => Balance'
      BY <3>1, <3>2 DEF Balance, Filled
    <3>4. QED
      BY <3>1, <3>2, <3>3 DEF BalanceInv
  <2>3. QED
    BY <2>1, <2>2
<1>10. ASSUME NEW c \in Conns, AddRemovalEvent(c)
      PROVE  BalanceInv'
  <2>1. CASE Undefined
    BY <2>1, BalanceStays DEF Undefined, Goes, Filled, queue, threads, history, events
  <2>2. CASE ~Undefined
    <3>1. /\ rcv[c] = "depart" /\ rcv' = [rcv EXCEPT ![c] = "return"] /\ departures' = departures + 1
          /\ UNCHANGED <<pc, fNoMoreConnections, m_ConnectionHead, arrivals, disturbed>>
      BY <1>10, <2>2 DEF AddRemovalEvent, queue
    <3>2. Goes(c) /\ ~Goes(c)'
      BY <1>b, <3>1 DEF Goes, Countable, Typed, ThreadOK
    <3>3. /\ Changes(Cardinality(Coming'), Cardinality(Coming), 0) /\ IsFiniteSet(Coming')
          /\ Changes(Cardinality(Leaving'), Cardinality(Leaving), -1) /\ IsFiniteSet(Leaving')
      BY <1>b, <3>1, <3>2, ComingMoves, LeavingMoves DEF Typed, ThreadOK
    <3>4. /\ Changes(arrivals', arrivals, 0) /\ Changes(departures', departures, 1)
          /\ Changes(Filled', Filled, 0)
      BY <3>1, NumbersRest DEF Changes, Filled
    <3>5. Countable'
      BY <1>b, <3>1, <3>3 DEF Countable, Typed, ThreadOK
    <3>6. Balance => Balance'
      <4>1. 0 + 0 = 1 + (-1) + 0
        OBVIOUS
      <4>2. QED
        BY <1>b, <3>3, <3>4, <4>1, BalanceMoves
    <3>7. QED
      BY <3>1, <3>5, <3>6 DEF BalanceInv
  <2>3. QED
    BY <2>1, <2>2
<1>11. ASSUME NEW c \in Conns, ReceiveReturn(c)
      PROVE  BalanceInv'
  <2>1. CASE Undefined
    BY <2>1, BalanceStays DEF Undefined, Goes, Filled, queue, threads, history, events
  <2>2. CASE ~Undefined
    BY <1>11, <2>2, BalanceStays DEF ReceiveReturn, Filled, Goes, Typed, ThreadOK, queue, net,
       history, events
  <2>3. QED
    BY <2>1, <2>2
<1>12. ASSUME NEW c \in Conns, PeerGone(c)
      PROVE  BalanceInv'
  BY <1>12, BalanceStays DEF PeerGone, Filled, Goes, Typed, ThreadOK, object, queue, threads,
     history, events
<1>13. ASSUME NEW c \in Outbound, CloseOutbound(c)
      PROVE  BalanceInv'
  BY <1>13, BalanceStays DEF CloseOutbound, Filled, Goes, Typed, ThreadOK, queue, events
<1>14. ASSUME NEW c \in Outbound, FreeOutbound(c)
      PROVE  BalanceInv'
  BY <1>14, BalanceStays DEF FreeOutbound, Filled, Goes, Typed, ThreadOK, queue, net, events
<1>15. ASSUME NEW p \in Pubs, SetPayload(p)
      PROVE  BalanceInv'
  BY <1>15, BalanceStays DEF SetPayload, Filled, Goes, Typed, ThreadOK, object, net, history,
     events
<1>16. ASSUME NEW p \in Pubs, Publish(p)
      PROVE  BalanceInv'
  BY <1>16, BalanceStays DEF Publish, Filled, Goes, Typed, ThreadOK, object, net, history,
     events
<1>17. ASSUME NEW p \in Pubs, SetEnabled(p)
      PROVE  BalanceInv'
  BY <1>17, BalanceStays DEF SetEnabled, Filled, Goes, Typed, ThreadOK, object, queue,
     threads, net, events
<1>18. ASSUME NEW p \in Pubs, ClosePublication(p)
      PROVE  BalanceInv'
  BY <1>18, BalanceStays DEF ClosePublication, Filled, Goes, Typed, ThreadOK, object, net,
     events
<1>19. ASSUME NEW t \in Conns \cup Pubs, TransmitMessage(t)
      PROVE  BalanceInv'
  <2>1. /\ pc[t] = "transmit" /\ (UNCHANGED pc \/ pc' = [pc EXCEPT ![t] = "wait"])
        /\ UNCHANGED <<rcv, fNoMoreConnections, arrivals, departures, m_ConnectionHead>>
    BY <1>19 DEF TransmitMessage, Undefined, object, queue, threads, net, history, events
  <2>2. QED
    BY <2>1, BalanceStays DEF Goes, Filled, Typed, ThreadOK
<1>20. ASSUME NEW t \in Conns \cup Pubs, TerminateReturns(t)
      PROVE  BalanceInv'
  <2>1. CASE Undefined
    BY <2>1, BalanceStays DEF Undefined, Goes, Filled, queue, threads, history, events
  <2>2. CASE ~Undefined
    BY <1>20, <2>2, BalanceStays DEF TerminateReturns, Filled, Goes, Typed, ThreadOK, queue,
       net, events
  <2>3. QED
    BY <2>1, <2>2
<1>21. ASSUME NEW t \in Conns \cup Pubs, EndWalk(t)
      PROVE  BalanceInv'
  BY <1>21, BalanceStays DEF EndWalk, Filled, Goes, Typed, ThreadOK, object, net, history,
     events
<1>22. CASE BeginUnload
  BY <1>22, BalanceStays DEF BeginUnload, Filled, Goes, Typed, ThreadOK, object, queue, net,
     history, events
<1>23. CASE DeleteConnection
  <2>1. /\ unload = "delete" /\ UNCHANGED <<pc, rcv, fNoMoreConnections, disturbed>>
    BY <1>23 DEF DeleteConnection, Undefined, threads
  <2>2. disturbed
    BY <2>1 DEF QuietInv, Undisturbed, Calm
  <2>3. Coming' = Coming /\ Leaving' = Leaving
    BY <2>1 DEF Coming, Leaving
  <2>4. QED
    BY <1>b, <2>1, <2>2, <2>3 DEF BalanceInv, Countable
<1>24. CASE DeleteReturns
  <2>1. CASE Undefined
    BY <2>1, BalanceStays DEF Undefined, Goes, Filled, queue, threads, history, events
  <2>2. CASE ~Undefined
    BY <1>24, <2>2, BalanceStays DEF DeleteReturns, Filled, Goes, Typed, ThreadOK
  <2>3. QED
    BY <2>1, <2>2
<1>25. CASE EndUnload
  BY <1>25, BalanceStays DEF EndUnload, Filled, Goes, Typed, ThreadOK, object, queue, net,
     history, events
<1>26. CASE UNCHANGED vars
  BY <1>26, BalanceStays DEF Goes, Filled, object, queue, threads, net, history, events, vars
<1>27. QED
  BY <1>1, <1>2, <1>3, <1>4, <1>5, <1>6, <1>7, <1>8, <1>9, <1>10, <1>11,
     <1>12, <1>13, <1>14, <1>15, <1>16, <1>17, <1>18, <1>19, <1>20, <1>21,
     <1>22, <1>23, <1>24, <1>25, <1>26
  DEF Next, Establish, Receive

-----------------------------------------------------------------------------
LinkInv == Typed /\ LifeInv /\ WalkInv /\ DueInv

LEMMA LinkInvHolds == Spec => []LinkInv
<1>1. Init => LinkInv
  BY TypedStarts, LifeStarts, WalkStarts, DueStarts DEF LinkInv
<1>2. LinkInv /\ [Next]_vars => LinkInv'
  BY TypedKept, LifeKept, WalkKept, DueKept DEF LinkInv
<1>3. QED
  BY <1>1, <1>2, PTL DEF Spec

(***************************************************************************)
(* ConnectionEstablished transmits on a new link every publication that is *)
(* listed and enabled meanwhile, however SET_PAYLOAD, OnCloseFile, Disable *)
(* and Enable, other links and failing sends come between its steps.       *)
(***************************************************************************)
THEOREM Transmitted == Spec => []PublishedIsTransmitted
<1>1. LinkInv => PublishedIsTransmitted
  BY DEF LinkInv, DueInv
<1>2. QED
  BY <1>1, LinkInvHolds, PTL

(***************************************************************************)
(* Terminate, called by whichever threads, closes a socket once; and no    *)
(* walk of TransmitMessage is cut loose from its list.  Both hold whatever *)
(* an uninitialised _ThreadpoolThreadId contains.                          *)
(***************************************************************************)
THEOREM WalksSafely == Spec => [](TypeOK /\ SocketClosedOnce /\ WalksTheList)
<1>1. LinkInv => TypeOK /\ SocketClosedOnce /\ WalksTheList
  BY TypedMeans DEF LinkInv, LifeInv, WalkInv
<1>2. QED
  BY <1>1, LinkInvHolds, PTL

(***************************************************************************)
(* All of LinkInvariant: no connection is used after CMyQueue deleted it,  *)
(* and AddArrivalEvent and AddRemovalEvent tell whether there is a link,   *)
(* until something disturbs it.  An uninitialised thread id of the closing *)
(* thread would let ~CConnection go before the receive thread has begun.   *)
(***************************************************************************)
THEOREM LinkKept ==
  ASSUME "closer" \notin StaleIds
  PROVE  Spec => []LinkInvariant
<1> DEFINE KeptInv == LinkInv /\ OutlivesInv /\ QuietInv /\ BalanceInv
<1>1. Init => KeptInv
  BY TypedStarts, LifeStarts, WalkStarts, DueStarts, OutlivesStarts, QuietStarts, BalanceStarts
  DEF LinkInv
<1>2. KeptInv /\ [Next]_vars => KeptInv'
  BY TypedKept, LifeKept, WalkKept, DueKept, OutlivesKept, QuietKept, BalanceKept DEF LinkInv
<1>3. KeptInv => LinkInvariant
  <2>1. LinkInv /\ OutlivesInv => /\ TypeOK /\ SocketClosedOnce /\ WalksTheList
                                  /\ OutboundOutlivesReceiver
    BY TypedMeans DEF LinkInv, LifeInv, WalkInv, OutlivesInv
  <2>2. QuietInv => NoDanglingUse
    BY DEF QuietInv, Undisturbed, Calm, NoDanglingUse
  <2>3. BalanceInv => EventsBalanced
    BY DEF BalanceInv, Balance, EventsBalanced, Coming, Leaving, Filled
  <2>4. QED
    BY <2>1, <2>2, <2>3 DEF LinkInvariant
<1>4. QED
  BY <1>1, <1>2, <1>3, PTL DEF Spec
=============================================================================
