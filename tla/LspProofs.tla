------------------------------ MODULE LspProofs ------------------------------
(***************************************************************************)
(* Proofs about the layered service provider (Lsp): the overlapped         *)
(* structures, the references and the list of the contexts, and the byte   *)
(* counters, for any number of threads, sockets and structures.            *)
(*                                                                         *)
(* The invariant has one part for each thing that has to be known: which   *)
(* references a thread has at each of its places (ThreadsOk), the shape of *)
(* the structures (OlsOk, QueuesOk, InfosOk), where each structure is      *)
(* (Conserved), what the references are counted for (Balanced), which      *)
(* handle leads where (Mapped), that what mentions a socket mentions the   *)
(* one that has the handle (Matched), and which completions have not been  *)
(* counted yet (Accounted).                                                *)
(***************************************************************************)
EXTENDS Lsp, SequenceTheorems, FiniteSetTheorems, TLAPS


-------------------------------------------------------------------------------
(* The places at which a thread works on a structure, and those at which   *)
(* it has looked the socket of a structure up.                             *)
Working == {"queue", "complete", "account", "release", "notify", "check", "decrement", "unlock", "putback"}
Inner == {"account", "release", "decrement", "unlock"}

(* An application thread is in a call on a socket, or in none; a worker    *)
(* only has what the structure leads it to.                                *)
Alone == {"idle", "select", "stopping", "freeing"}
Calls == {"leave", "setsockopt", "accept", "joinleaf", "close", "closed", "transfer", "count", "get",
          "window", "spin"}

Requested == {"transfer", "other", "pnp", "recvmsg", "acceptex"}

ThreadFields == {"pc", "s", "ctx", "acc", "a", "inner", "ol", "req", "op", "n"}

ThreadOk(t, r) ==
  /\ DOMAIN r = ThreadFields
  /\ r.pc \in (IF t \in Apps THEN Alone \cup Calls \cup Working ELSE {"idle", "exited"} \cup (Working \ {"queue"}))
  /\ r.ctx \in Infos \cup {NoInfo} /\ r.acc \in Infos \cup {NoInfo} /\ r.inner \in Infos \cup {NoInfo}
  /\ r.s \in Handles \cup {NoHandle} /\ r.a \in Handles \cup {NoHandle}
  /\ r.ol \in Ols \cup {NoOl} /\ r.n \in Int
  /\ r.ol # NoOl <=> r.pc \in Working
  /\ r.inner # NoInfo <=> r.pc \in Inner
  /\ r.ctx # NoInfo <=> t \in Apps /\ r.pc \notin Alone
  /\ r.acc # NoInfo => r.ctx # NoInfo \/ r.pc = "select"
  /\ r.pc \in {"select", "setsockopt"} => r.acc # NoInfo
  /\ r.pc \in {"close", "closed", "get"} => r.s # NoHandle
  /\ r.pc \in {"close", "closed"} => r.acc = NoInfo
  /\ r.pc = "get" => r.op \in Requested /\ (r.op = "acceptex" => r.a # NoHandle)

ThreadsOk == /\ DOMAIN thread = Threads
             /\ \A t \in Threads : ThreadOk(t, thread[t])

OlFields == {"SockInfo", "CallerSocket", "sAcceptSocket", "Operation", "req"}

OlOk(x) ==
  /\ DOMAIN x = OlFields
  /\ x.SockInfo \in Infos \cup {NoInfo}
  /\ x.CallerSocket \in Handles \cup {NoHandle} /\ x.sAcceptSocket \in Handles \cup {NoHandle}
  /\ x.Operation \in Requested \cup {"absent", "none", "error"}
  /\ x.Operation = "acceptex" => x.sAcceptSocket # NoHandle

OlsOk == DOMAIN ol = Ols /\ \A o \in Ols : OlOk(ol[o])

QueuesOk == /\ pool \in Seq(Ols) /\ pending \in Seq(Ols) /\ port \in Seq(Ols \cup {NoOl})
            /\ lower \subseteq Ols /\ lost \subseteq Ols

InfoFields == {"state", "ProviderSocket", "LayeredSocket", "RefCount", "dwOutstandingAsync", "bClosing",
               "hIocp", "hWnd", "selected", "owner", "Bytes", "moved", "given"}

InfoOk(x) ==
  /\ DOMAIN x = InfoFields
  /\ x.state \in {"none", "used", "freed"}
  /\ x.RefCount \in Int /\ x.Bytes \in Int /\ x.moved \in Int
  /\ x.LayeredSocket \in Handles \cup {NoHandle} /\ x.given \in Handles \cup {NoHandle}
  /\ x.ProviderSocket = "open" => x.state = "used"
  /\ x.state = "used" => x.given = x.LayeredSocket

InfosOk == DOMAIN info = Infos /\ \A c \in Infos : InfoOk(info[c])

LspFields == {"health", "gEntryCount", "gBaseInfo", "ghIocp", "window", "proc", "global", "calls", "faults", "leaked",
              "kept"}

LspOk == /\ DOMAIN lsp = LspFields
         /\ lsp.gBaseInfo \in BOOLEAN
         /\ lsp.faults \in Int /\ lsp.faults <= MaxFaults
         /\ DOMAIN lsp.leaked = Infos /\ \A c \in Infos : lsp.leaked[c] \in Int
         /\ lsp.kept \in SUBSET Infos

-------------------------------------------------------------------------------
(* Every structure is in one place, unless its heap is gone.               *)
Conserved ==
  \A o \in Ols : /\ Places(o) <= 1
                 /\ ol[o].Operation = "absent" => Places(o) = 0
                 /\ ol[o].Operation # "absent" /\ lsp.gBaseInfo => Places(o) = 1

Balanced == \A c \in Infos : Live(c) => info[c].RefCount = lsp.leaked[c] + Holders(c)

(* The handles, the list and the heap.  What is kept has a handle that did *)
(* not close: it is off the list for good, and may be freed.               *)
Mapped ==
  /\ DOMAIN handle = Handles
  /\ \A s \in Handles : /\ handle[s] \in Infos \cup {NoInfo}
                        /\ handle[s] # NoInfo => Live(handle[s]) \/ handle[s] \in lsp.kept
                        /\ handle[s] # NoInfo /\ Live(handle[s]) => info[handle[s]].LayeredSocket = s
  /\ \A c \in Infos : Live(c) /\ info[c].LayeredSocket # NoHandle => handle[info[c].LayeredSocket] = c

Listed ==
  /\ list \in Seq(Infos)
  /\ \A i, j \in DOMAIN list : list[i] = list[j] => i = j
  /\ \A i \in DOMAIN list : info[list[i]].state # "none"
  /\ \A c \in Infos : Live(c) => c \in lsp.kept \/ \E i \in DOMAIN list : list[i] = c
  /\ \A c \in lsp.kept : info[c].state # "none" /\ \A i \in DOMAIN list : list[i] # c
  /\ lsp.faults = MaxFaults => \A i \in DOMAIN list : Live(list[i])

(* Who mentions a socket mentions one that was allocated, and the handle   *)
(* it was given.                                                           *)
Named(c, s) == info[c].state # "none" /\ info[c].given = s

UnderWay(o) == \/ o \in lower
               \/ \E i \in DOMAIN pending : pending[i] = o
               \/ \E i \in DOMAIN port : port[i] = o
               \/ \E t \in Threads : thread[t].ol = o

ThreadMatched(r) ==
  /\ \A c \in Infos : c \in {r.ctx, r.acc, r.inner} => info[c].state # "none"
  /\ r.s # NoHandle => r.ctx # NoInfo /\ Named(r.ctx, r.s)
  /\ r.a # NoHandle => r.acc # NoInfo /\ Named(r.acc, r.a)
  /\ r.inner # NoInfo => Named(r.inner, ol[r.ol].CallerSocket)

OlMatched(x) ==
  /\ x.SockInfo \in Infos /\ x.CallerSocket \in Handles /\ Named(x.SockInfo, x.CallerSocket)
  /\ x.Operation = "acceptex" => \E d \in Infos : Named(d, x.sAcceptSocket)

Matched ==
  /\ \A t \in Threads : ThreadMatched(thread[t])
  /\ \A c \in Infos : info[c].state = "none" => lsp.leaked[c] = 0
  /\ \A o \in Ols : UnderWay(o) => OlMatched(ol[o])

(* The completions that will be counted for the socket with the handle s.  *)
Due(o) == \/ \E i \in DOMAIN port : port[i] = o
          \/ \E t \in Threads : thread[t].ol = o /\ thread[t].pc \in {"complete", "account"}

Target(x) == IF x.Operation = "acceptex" THEN x.sAcceptSocket ELSE x.CallerSocket

Uncounted(s) == {o \in Ols : Due(o) /\ ol[o].Operation \in {"transfer", "acceptex"} /\ Target(ol[o]) = s}

CountedFor(c, s) ==
  LET due == Cardinality(Uncounted(s))
  IN /\ info[c].Bytes + due <= info[c].moved
     /\ \A t \in Threads : thread[t].pc = "count" /\ thread[t].ctx = c => thread[t].n + due <= info[c].moved

Accounted == \A c \in Infos, s \in Handles \cup {NoHandle} :
               Live(c) /\ FirstOfHandle(c) /\ info[c].given = s => CountedFor(c, s)

Types == LspOk /\ ThreadsOk /\ OlsOk /\ QueuesOk /\ InfosOk

Good == Types /\ Conserved /\ Balanced /\ Mapped /\ Listed /\ Matched /\ Accounted

(* Nothing is said of a process that has misused its memory or is gone.    *)
IInv == lsp.health = "ok" => Good

-------------------------------------------------------------------------------
(***************************************************************************)
(* Counting in sets and in sequences.                                      *)
(***************************************************************************)
LEMMA FiniteSets == IsFiniteSet(Threads) /\ IsFiniteSet(Ols)
BY LspAssumption, FS_Union DEF Threads

LEMMA SetMoves ==
  ASSUME NEW S, NEW T, NEW x, IsFiniteSet(S),
         \A y : y # x => (y \in T <=> y \in S)
  PROVE  Cardinality(T) = Cardinality(S) + (IF x \in T THEN 1 ELSE 0) - (IF x \in S THEN 1 ELSE 0)
<1>1. Cardinality(S) \in Nat
  BY FS_CardinalityType
<1>2. CASE x \in T <=> x \in S
  <2>1. T = S
    BY <1>2
  <2>2. QED
    BY <1>1, <1>2, <2>1
<1>3. CASE x \in T /\ x \notin S
  <2>1. T = S \cup {x}
    BY <1>3
  <2>2. QED
    BY <1>1, <1>3, <2>1, FS_AddElement
<1>4. CASE x \notin T /\ x \in S
  <2>1. T = S \ {x}
    BY <1>4
  <2>2. QED
    BY <1>1, <1>4, <2>1, FS_RemoveElement
<1>5. QED
  BY <1>2, <1>3, <1>4

Spots(s, x) == {i \in DOMAIN s : s[i] = x}

LEMMA SpotsFinite ==
  ASSUME NEW S, NEW s \in Seq(S), NEW x
  PROVE  IsFiniteSet(Spots(s, x)) /\ Copies(s, x) = Cardinality(Spots(s, x)) /\ Copies(s, x) \in Nat
<1>1. DOMAIN s = 1..Len(s) /\ Len(s) \in Nat
  BY LenProperties
<1>2. IsFiniteSet(1..Len(s))
  BY <1>1, FS_Interval
<1>3. Spots(s, x) \in SUBSET (1..Len(s))
  BY <1>1 DEF Spots
<1>4. IsFiniteSet(Spots(s, x))
  BY <1>2, <1>3, FS_Subset
<1>5. Copies(s, x) = Cardinality(Spots(s, x))
  BY DEF Copies, Spots
<1>6. QED
  BY <1>4, <1>5, FS_CardinalityType

LEMMA CopiesNone ==
  ASSUME NEW S, NEW s \in Seq(S), NEW x
  PROVE  Copies(s, x) = 0 <=> \A i \in DOMAIN s : s[i] # x
<1>1. Copies(s, x) = 0 <=> Spots(s, x) = {}
  BY SpotsFinite, FS_EmptySet
<1>2. QED
  BY <1>1 DEF Spots

LEMMA CopiesEmpty == ASSUME NEW x PROVE Copies(<<>>, x) = 0
<1>1. {i \in DOMAIN <<>> : <<>>[i] = x} = {}
  OBVIOUS
<1>2. QED
  BY <1>1, FS_EmptySet DEF Copies

\* Two places of an x are two copies of it.
LEMMA CopiesTwo ==
  ASSUME NEW S, NEW s \in Seq(S), NEW i \in DOMAIN s, NEW j \in DOMAIN s, i # j, s[i] = s[j]
  PROVE  Copies(s, s[i]) >= 2
<1> DEFINE A == Spots(s, s[i])
<1>1. IsFiniteSet(A) /\ Copies(s, s[i]) = Cardinality(A)
  BY SpotsFinite
<1>2. i \in A /\ j \in A
  BY DEF Spots
<1> HIDE DEF A
<1>3. IsFiniteSet(A \ {i}) /\ Cardinality(A \ {i}) = Cardinality(A) - 1
  BY <1>1, <1>2, FS_RemoveElement
<1>4. Cardinality(A \ {i}) # 0
  <2>1. A \ {i} # {}
    BY <1>2
  <2>2. QED
    BY <1>3, <2>1, FS_EmptySet
<1>5. Cardinality(A) \in Nat /\ Cardinality(A \ {i}) \in Nat
  BY <1>1, <1>3, FS_CardinalityType
<1>6. QED
  BY <1>1, <1>3, <1>4, <1>5

\* A sequence with one element more in front.
Precedes(r, s) == Len(r) = Len(s) + 1 /\ \A i \in 1..Len(s) : r[i + 1] = s[i]

LEMMA CopiesShift ==
  ASSUME NEW S, NEW s \in Seq(S), NEW r \in Seq(S), NEW x, Precedes(r, s)
  PROVE  Copies(r, x) = Copies(s, x) + (IF r[1] = x THEN 1 ELSE 0)
<1> DEFINE A == Spots(s, x)
           B == Spots(r, x) \ {1}
           f == [i \in A |-> i + 1]
<1>1. /\ DOMAIN s = 1..Len(s) /\ Len(s) \in Nat
      /\ DOMAIN r = 1..Len(r) /\ Len(r) \in Nat
      /\ Len(r) = Len(s) + 1 /\ \A i \in 1..Len(s) : r[i + 1] = s[i]
  BY LenProperties DEF Precedes
<1>2. \A i \in A : i + 1 \in B /\ i \in Nat
  BY <1>1 DEF Spots
<1>3. \A j \in B : j - 1 \in A /\ j = (j - 1) + 1
  <2> SUFFICES ASSUME NEW j \in B PROVE j - 1 \in A /\ j = (j - 1) + 1
    OBVIOUS
  <2>1. j \in 2..(Len(s) + 1) /\ r[j] = x
    BY <1>1 DEF Spots
  <2>2. j - 1 \in 1..Len(s) /\ j = (j - 1) + 1
    BY <1>1, <2>1
  <2>3. s[j - 1] = r[j]
    BY <1>1, <2>2
  <2>4. QED
    BY <1>1, <2>1, <2>2, <2>3 DEF Spots
<1>4. f \in Bijection(A, B)
  <2>1. f \in [A -> B]
    BY <1>2
  <2>2. \A a, b \in A : f[a] = f[b] => a = b
    BY <1>2
  <2>3. \A j \in B : \E a \in A : f[a] = j
    BY <1>3
  <2>4. QED
    BY <2>1, <2>2, <2>3 DEF Bijection, Injection, Surjection, IsInjective
<1>5. IsFiniteSet(A) /\ Copies(s, x) = Cardinality(A)
  BY SpotsFinite
<1>6. IsFiniteSet(B) /\ Cardinality(B) = Cardinality(A)
  BY <1>4, <1>5, FS_Bijection DEF ExistsBijection
<1>7. 1 \in Spots(r, x) <=> r[1] = x
  BY <1>1 DEF Spots
<1>8. Copies(r, x) = Cardinality(Spots(r, x)) /\ IsFiniteSet(Spots(r, x))
  BY SpotsFinite
<1>9. Cardinality(B) = IF 1 \in Spots(r, x) THEN Copies(r, x) - 1 ELSE Copies(r, x)
  BY <1>8, FS_RemoveElement
<1>10. Copies(r, x) \in Nat
  BY SpotsFinite
<1> HIDE DEF A, B, f
<1>11. QED
  BY <1>5, <1>6, <1>7, <1>9, <1>10

LEMMA CopiesCons ==
  ASSUME NEW S, NEW s \in Seq(S), NEW y \in S, NEW x
  PROVE  /\ <<y>> \o s \in Seq(S)
         /\ Copies(<<y>> \o s, x) = Copies(s, x) + (IF y = x THEN 1 ELSE 0)
         /\ \A i \in DOMAIN (<<y>> \o s) : (<<y>> \o s)[i] = y \/ \E j \in DOMAIN s : (<<y>> \o s)[i] = s[j]
<1> DEFINE r == <<y>> \o s
<1>1. <<y>> \in Seq(S) /\ Len(<<y>>) = 1 /\ <<y>>[1] = y
  OBVIOUS
<1>2. Len(s) \in Nat /\ DOMAIN s = 1..Len(s)
  BY LenProperties
<1>3. /\ r \in Seq(S) /\ Len(r) = 1 + Len(s)
      /\ \A i \in 1..(1 + Len(s)) : r[i] = IF i <= 1 THEN <<y>>[i] ELSE s[i - 1]
  BY <1>1, ConcatProperties
<1> HIDE DEF r
<1>4. r[1] = y
  BY <1>1, <1>2, <1>3
<1>5. \A i \in 1..Len(s) : r[i + 1] = s[i]
  <2> SUFFICES ASSUME NEW i \in 1..Len(s) PROVE r[i + 1] = s[i]
    OBVIOUS
  <2>1. i + 1 \in 1..(1 + Len(s)) /\ ~(i + 1 <= 1) /\ (i + 1) - 1 = i
    BY <1>2
  <2>2. QED
    BY <2>1, <1>3
<1>6. Copies(r, x) = Copies(s, x) + (IF r[1] = x THEN 1 ELSE 0)
  <2>1. Precedes(r, s)
    BY <1>2, <1>3, <1>5 DEF Precedes
  <2>2. QED
    BY <1>3, <2>1, CopiesShift
<1>7. \A i \in DOMAIN r : r[i] = y \/ \E j \in DOMAIN s : r[i] = s[j]
  <2> SUFFICES ASSUME NEW i \in DOMAIN r, r[i] # y PROVE \E j \in DOMAIN s : r[i] = s[j]
    OBVIOUS
  <2>1. i \in 1..(1 + Len(s))
    BY <1>3, LenProperties
  <2>2. i - 1 \in 1..Len(s)
    BY <1>2, <1>4, <2>1
  <2>3. r[i] = s[i - 1]
    BY <1>2, <1>3, <1>4, <2>1, <2>2
  <2>4. QED
    BY <1>2, <2>2, <2>3
<1>8. QED
  BY <1>3, <1>4, <1>6, <1>7 DEF r

LEMMA CopiesTail ==
  ASSUME NEW S, NEW s \in Seq(S), s # <<>>, NEW x
  PROVE  /\ Head(s) \in S /\ Tail(s) \in Seq(S)
         /\ \E i \in DOMAIN s : s[i] = Head(s)
         /\ Copies(s, x) = Copies(Tail(s), x) + (IF Head(s) = x THEN 1 ELSE 0)
         /\ \A i \in DOMAIN Tail(s) : \E j \in DOMAIN s : Tail(s)[i] = s[j]
<1>1. /\ Head(s) \in S /\ Tail(s) \in Seq(S) /\ Len(Tail(s)) = Len(s) - 1
      /\ \A i \in 1..Len(Tail(s)) : Tail(s)[i] = s[i + 1]
  BY HeadTailProperties
<1>2. /\ Len(s) \in Nat /\ DOMAIN s = 1..Len(s)
      /\ Len(Tail(s)) \in Nat /\ DOMAIN Tail(s) = 1..Len(Tail(s))
  BY <1>1, LenProperties
<1>3. Head(s) = s[1]
  BY SMT
<1>4. Copies(s, x) = Copies(Tail(s), x) + (IF s[1] = x THEN 1 ELSE 0)
  <2>1. Precedes(s, Tail(s))
    BY <1>1, <1>2 DEF Precedes
  <2>2. \A r \in Seq(S) : Precedes(s, r) => Copies(s, x) = Copies(r, x) + (IF s[1] = x THEN 1 ELSE 0)
    BY CopiesShift
  <2>3. QED
    BY <1>1, <2>1, <2>2
<1>5. \A i \in DOMAIN Tail(s) : i + 1 \in DOMAIN s /\ Tail(s)[i] = s[i + 1]
  BY <1>1, <1>2
<1>6. 1 \in DOMAIN s
  BY <1>1, <1>2
<1>7. QED
  BY <1>1, <1>3, <1>4, <1>5, <1>6

LEMMA CopiesAppend ==
  ASSUME NEW S, NEW s \in Seq(S), NEW y \in S, NEW x
  PROVE  /\ Append(s, y) \in Seq(S)
         /\ Copies(Append(s, y), x) = Copies(s, x) + (IF y = x THEN 1 ELSE 0)
         /\ \A i \in DOMAIN Append(s, y) : Append(s, y)[i] = y \/ \E j \in DOMAIN s : Append(s, y)[i] = s[j]
<1> DEFINE r == Append(s, y)
<1>1. /\ r \in Seq(S) /\ Len(r) = Len(s) + 1 /\ r[Len(s) + 1] = y
      /\ \A i \in 1..Len(s) : r[i] = s[i]
  BY AppendProperties
<1>2. /\ Len(s) \in Nat /\ DOMAIN s = 1..Len(s)
      /\ Len(r) \in Nat /\ DOMAIN r = 1..Len(r)
  BY <1>1, LenProperties
<1> HIDE DEF r
<1>3. \A i : i # Len(s) + 1 => (i \in Spots(r, x) <=> i \in Spots(s, x))
  BY <1>1, <1>2 DEF Spots
<1>4. Len(s) + 1 \notin Spots(s, x) /\ (Len(s) + 1 \in Spots(r, x) <=> y = x)
  BY <1>1, <1>2 DEF Spots
<1>5. /\ IsFiniteSet(Spots(s, x)) /\ Copies(s, x) = Cardinality(Spots(s, x)) /\ Copies(s, x) \in Nat
      /\ Copies(r, x) = Cardinality(Spots(r, x))
  BY <1>1, SpotsFinite
<1>6. Copies(r, x) = Copies(s, x) + (IF y = x THEN 1 ELSE 0)
  BY <1>3, <1>4, <1>5, SetMoves
<1>7. \A i \in DOMAIN r : r[i] = y \/ \E j \in DOMAIN s : r[i] = s[j]
  BY <1>1, <1>2
<1>8. QED
  BY <1>1, <1>6, <1>7 DEF r

\* The packets that end the workers are no structures.
LEMMA CopiesPad ==
  ASSUME NEW S, NEW s \in Seq(S), NEW q \in Seq(S), NEW e \in S, \A i \in DOMAIN q : q[i] = e
  PROVE  /\ s \o q \in Seq(S)
         /\ \A x : x # e => Copies(s \o q, x) = Copies(s, x)
         /\ \A i \in DOMAIN (s \o q) : (s \o q)[i] = e \/ \E j \in DOMAIN s : (s \o q)[i] = s[j]
<1> DEFINE n == Len(q)
           r == s \o q
<1>1. n \in Nat /\ DOMAIN q = 1..n /\ \A i \in 1..n : q[i] = e
  BY LenProperties
<1>2. /\ r \in Seq(S) /\ Len(r) = Len(s) + n
      /\ \A i \in 1..(Len(s) + n) : r[i] = IF i <= Len(s) THEN s[i] ELSE q[i - Len(s)]
  BY ConcatProperties
<1> HIDE DEF n, r
<1>3. /\ Len(s) \in Nat /\ DOMAIN s = 1..Len(s)
      /\ Len(r) \in Nat /\ DOMAIN r = 1..Len(r)
  BY <1>2, LenProperties
<1>4. \A i \in DOMAIN r : IF i \in DOMAIN s THEN r[i] = s[i] ELSE r[i] = e
  <2> SUFFICES ASSUME NEW i \in DOMAIN r PROVE IF i \in DOMAIN s THEN r[i] = s[i] ELSE r[i] = e
    OBVIOUS
  <2>1. CASE i \in DOMAIN s
    BY <1>2, <1>3, <2>1
  <2>2. CASE i \notin DOMAIN s
    <3>1. i \in 1..(Len(s) + n) /\ ~(i <= Len(s)) /\ i - Len(s) \in 1..n
      BY <1>1, <1>2, <1>3, <2>2
    <3>2. QED
      BY <1>1, <1>2, <2>2, <3>1
  <2>3. QED
    BY <2>1, <2>2
<1>5. DOMAIN s \subseteq DOMAIN r
  BY <1>1, <1>2, <1>3
<1>6. \A x : x # e => Spots(r, x) = Spots(s, x)
  BY <1>4, <1>5 DEF Spots
<1>7. \A x : x # e => Copies(r, x) = Copies(s, x)
  BY <1>2, <1>6, SpotsFinite
<1>8. QED
  BY <1>2, <1>4, <1>7 DEF r

-------------------------------------------------------------------------------
(***************************************************************************)
(* What a step of a thread does to the threads.                            *)
(***************************************************************************)
Only(t) == /\ DOMAIN thread' = Threads
           /\ \A u \in Threads : u # t => thread'[u] = thread[u]

Is(r, pc, s, ctx, acc, a, inner, o, op, n) ==
  /\ DOMAIN r = ThreadFields
  /\ r.pc = pc /\ r.s = s /\ r.ctx = ctx /\ r.acc = acc /\ r.a = a
  /\ r.inner = inner /\ r.ol = o /\ r.op = op /\ r.n = n

LEMMA IdleIs == Is(Idle, "idle", NoHandle, NoInfo, NoInfo, NoHandle, NoInfo, NoOl, "none", 0)
BY DEF Is, Idle, ThreadFields

LEMMA ReplacedIs ==
  ASSUME DOMAIN thread = Threads, NEW t \in Threads, NEW r, thread' = [thread EXCEPT ![t] = r]
  PROVE  Only(t) /\ thread'[t] = r
BY DEF Only

LEMMA LeavingIs ==
  ASSUME NEW t
  PROVE  Is(Leaving(t), "leave", NoHandle, thread[t].ctx, thread[t].acc, NoHandle, NoInfo, NoOl, "none", 0)
BY DEF Is, Leaving, Idle, ThreadFields

LEMMA ExitIs ==
  ASSUME DOMAIN thread = Threads, NEW t \in Threads, Exit(t)
  PROVE  /\ Only(t)
         /\ Is(thread'[t], "leave", NoHandle, thread[t].ctx, thread[t].acc, NoHandle, NoInfo, NoOl, "none", 0)
BY ReplacedIs, LeavingIs DEF Exit

LEMMA ReturnIs ==
  ASSUME DOMAIN thread = Threads, NEW t \in Threads, Return(t)
  PROVE  /\ Only(t)
         /\ Is(thread'[t], "idle", NoHandle, NoInfo, NoInfo, NoHandle, NoInfo, NoOl, "none", 0)
BY ReplacedIs, IdleIs DEF Return

LEMMA GotoIs ==
  ASSUME ThreadsOk, NEW t \in Threads, NEW p, Goto(t, p)
  PROVE  /\ Only(t)
         /\ LET r == thread[t]
            IN  Is(thread'[t], p, r.s, r.ctx, r.acc, r.a, r.inner, r.ol, r.op, r.n)
<1> DEFINE q == [thread[t] EXCEPT !.pc = p]
<1>1. DOMAIN thread = Threads /\ DOMAIN thread[t] = ThreadFields
  BY DEF ThreadsOk, ThreadOk
<1>2. thread' = [thread EXCEPT ![t] = q]
  BY DEF Goto
<1>3. Only(t) /\ thread'[t] = q
  BY <1>1, <1>2, ReplacedIs
<1>4. LET r == thread[t] IN Is(q, p, r.s, r.ctx, r.acc, r.a, r.inner, r.ol, r.op, r.n)
  BY <1>1 DEF Is, ThreadFields
<1>5. QED
  BY <1>3, <1>4

LEMMA ThreadsOkStep ==
  ASSUME ThreadsOk, NEW t \in Threads, Only(t), ThreadOk(t, thread'[t])
  PROVE  ThreadsOk'
<1>1. ASSUME NEW u \in Threads PROVE ThreadOk(u, thread'[u])
  BY DEF ThreadsOk, Only
<1>2. QED
  BY <1>1 DEF ThreadsOk, Only, ThreadOk

-------------------------------------------------------------------------------
(***************************************************************************)
(* The references and the structures of one thread.                        *)
(***************************************************************************)
Held(r, c) == (IF r.ctx = c THEN 1 ELSE 0) + (IF r.inner = c THEN 1 ELSE 0)
              + (IF r.acc = c /\ r.pc \notin {"select", "setsockopt"} THEN 1 ELSE 0)

LEMMA HoldersChange ==
  ASSUME NEW t \in Threads, Only(t), NEW c
  PROVE  /\ Holders(c) \in Nat /\ Holders(c)' \in Nat
         /\ Holders(c)' = Holders(c) + Held(thread'[t], c) - Held(thread[t], c)
<1> DEFINE A == {u \in Threads : thread[u].ctx = c}
           B == {u \in Threads : thread[u].inner = c}
           C == {u \in Threads : thread[u].acc = c /\ thread[u].pc \notin {"select", "setsockopt"}}
<1>1. /\ IsFiniteSet(A) /\ IsFiniteSet(B) /\ IsFiniteSet(C)
      /\ IsFiniteSet(A') /\ IsFiniteSet(B') /\ IsFiniteSet(C')
  BY FiniteSets, FS_Subset
<1>2. /\ \A u : u # t => (u \in A' <=> u \in A)
      /\ \A u : u # t => (u \in B' <=> u \in B)
      /\ \A u : u # t => (u \in C' <=> u \in C)
  BY DEF Only
<1>3. /\ t \in A' <=> thread'[t].ctx = c
      /\ t \in B' <=> thread'[t].inner = c
      /\ t \in C' <=> (thread'[t].acc = c /\ thread'[t].pc \notin {"select", "setsockopt"})
  OBVIOUS
<1>4. /\ t \in A <=> thread[t].ctx = c
      /\ t \in B <=> thread[t].inner = c
      /\ t \in C <=> (thread[t].acc = c /\ thread[t].pc \notin {"select", "setsockopt"})
  OBVIOUS
<1>5. Holders(c) = Cardinality(A) + Cardinality(B) + Cardinality(C)
  BY DEF Holders
<1>6. Holders(c)' = Cardinality(A') + Cardinality(B') + Cardinality(C')
  BY DEF Holders
<1> HIDE DEF A, B, C
<1>7. Cardinality(A') = Cardinality(A) + (IF t \in A' THEN 1 ELSE 0) - (IF t \in A THEN 1 ELSE 0)
  BY <1>1, <1>2, SetMoves
<1>8. Cardinality(B') = Cardinality(B) + (IF t \in B' THEN 1 ELSE 0) - (IF t \in B THEN 1 ELSE 0)
  BY <1>1, <1>2, SetMoves
<1>9. Cardinality(C') = Cardinality(C) + (IF t \in C' THEN 1 ELSE 0) - (IF t \in C THEN 1 ELSE 0)
  BY <1>1, <1>2, SetMoves
<1>10. /\ Cardinality(A) \in Nat /\ Cardinality(B) \in Nat /\ Cardinality(C) \in Nat
       /\ Cardinality(A') \in Nat /\ Cardinality(B') \in Nat /\ Cardinality(C') \in Nat
  BY <1>1, FS_CardinalityType
<1>11. QED
  BY <1>3, <1>4, <1>5, <1>6, <1>7, <1>8, <1>9, <1>10 DEF Held

Carriers(o) == {t \in Threads : thread[t].ol = o}

LEMMA CarriersChange ==
  ASSUME NEW t \in Threads, Only(t), NEW o
  PROVE  /\ Cardinality(Carriers(o)) \in Nat /\ Cardinality(Carriers(o)') \in Nat
         /\ Cardinality(Carriers(o)') = Cardinality(Carriers(o))
              + (IF thread'[t].ol = o THEN 1 ELSE 0) - (IF thread[t].ol = o THEN 1 ELSE 0)
<1>1. IsFiniteSet(Carriers(o)) /\ IsFiniteSet(Carriers(o)')
  BY FiniteSets, FS_Subset DEF Carriers
<1>2. \A u : u # t => (u \in Carriers(o)' <=> u \in Carriers(o))
  BY DEF Only, Carriers
<1>3. t \in Carriers(o)' <=> thread'[t].ol = o
  BY DEF Carriers
<1>4. t \in Carriers(o) <=> thread[t].ol = o
  BY DEF Carriers
<1>5. Cardinality(Carriers(o)') = Cardinality(Carriers(o))
        + (IF t \in Carriers(o)' THEN 1 ELSE 0) - (IF t \in Carriers(o) THEN 1 ELSE 0)
  BY <1>1, <1>2, SetMoves
<1>6. QED
  BY <1>1, <1>3, <1>4, <1>5, FS_CardinalityType

Flag(o, S) == IF o \in S THEN 1 ELSE 0

LEMMA PlacesAre ==
  ASSUME QueuesOk, NEW o
  PROVE  /\ Places(o) = Copies(pool, o) + Copies(pending, o) + Copies(port, o)
                        + Cardinality(Carriers(o)) + Flag(o, lower) + Flag(o, lost)
         /\ Copies(pool, o) \in Nat /\ Copies(pending, o) \in Nat /\ Copies(port, o) \in Nat
         /\ Cardinality(Carriers(o)) \in Nat
<1>1. IsFiniteSet(Carriers(o))
  BY FiniteSets, FS_Subset DEF Carriers
<1>2. Cardinality(Carriers(o)) \in Nat
  BY <1>1, FS_CardinalityType
<1>3. Copies(pool, o) \in Nat /\ Copies(pending, o) \in Nat /\ Copies(port, o) \in Nat
  BY SpotsFinite DEF QueuesOk
<1>4. QED
  BY <1>2, <1>3 DEF Places, Carriers, Flag

LEMMA PlacesNextAre ==
  ASSUME QueuesOk', NEW o
  PROVE  /\ Places(o)' = Copies(pool', o) + Copies(pending', o) + Copies(port', o)
                        + Cardinality(Carriers(o)') + Flag(o, lower') + Flag(o, lost')
         /\ Copies(pool', o) \in Nat /\ Copies(pending', o) \in Nat /\ Copies(port', o) \in Nat
         /\ Cardinality(Carriers(o)') \in Nat
<1>1. IsFiniteSet(Carriers(o)')
  BY FiniteSets, FS_Subset DEF Carriers
<1>2. Cardinality(Carriers(o)') \in Nat
  BY <1>1, FS_CardinalityType
<1>3. Copies(pool', o) \in Nat /\ Copies(pending', o) \in Nat /\ Copies(port', o) \in Nat
  BY SpotsFinite DEF QueuesOk
<1>4. QED
  BY <1>2, <1>3 DEF Places, Carriers, Flag, Copies

PlacesKept == \A o \in Ols : /\ Places(o)' = Places(o)
                             /\ ol'[o].Operation = "absent" <=> ol[o].Operation = "absent"

LEMMA ConservedKept ==
  ASSUME Conserved, PlacesKept, lsp'.gBaseInfo => lsp.gBaseInfo
  PROVE  Conserved'
<1> SUFFICES ASSUME NEW o \in Ols
             PROVE  /\ Places(o)' <= 1
                    /\ ol'[o].Operation = "absent" => Places(o)' = 0
                    /\ ol'[o].Operation # "absent" /\ lsp'.gBaseInfo => Places(o)' = 1
  BY DEF Conserved
<1>1. Places(o)' = Places(o) /\ (ol'[o].Operation = "absent" <=> ol[o].Operation = "absent")
  BY DEF PlacesKept
<1> HIDE DEF Places
<1>2. QED
  BY <1>1 DEF Conserved

\* What is under way has been allocated, and is in no other place.
LEMMA OnePlace ==
  ASSUME QueuesOk, Conserved, NEW o \in Ols
  PROVE  /\ Places(o) \in {0, 1} /\ (UnderWay(o) => Places(o) = 1 /\ ol[o].Operation # "absent")
         /\ \A i \in DOMAIN port : port[i] = o =>
              /\ Cardinality(Carriers(o)) = 0
              /\ \A j \in DOMAIN port : port[j] = o => i = j
<1>1. /\ Places(o) = Copies(pool, o) + Copies(pending, o) + Copies(port, o)
                        + Cardinality(Carriers(o)) + Flag(o, lower) + Flag(o, lost)
      /\ Copies(pool, o) \in Nat /\ Copies(pending, o) \in Nat /\ Copies(port, o) \in Nat
      /\ Cardinality(Carriers(o)) \in Nat
  BY PlacesAre
<1>2. Places(o) <= 1 /\ (ol[o].Operation = "absent" => Places(o) = 0)
  BY DEF Conserved
<1>3. UnderWay(o) => \/ Copies(pending, o) # 0 \/ Copies(port, o) # 0 \/ Cardinality(Carriers(o)) # 0
                     \/ Flag(o, lower) # 0
  <2>1. \A i \in DOMAIN pending : pending[i] = o => Copies(pending, o) # 0
    BY CopiesNone DEF QueuesOk
  <2>2. \A i \in DOMAIN port : port[i] = o => Copies(port, o) # 0
    BY CopiesNone DEF QueuesOk
  <2>3. \A t \in Threads : thread[t].ol = o => Cardinality(Carriers(o)) # 0
    <3>1. IsFiniteSet(Carriers(o))
      BY FiniteSets, FS_Subset DEF Carriers
    <3>2. QED
      BY <3>1, FS_EmptySet DEF Carriers
  <2>4. QED
    BY <2>1, <2>2, <2>3 DEF UnderWay, Flag
<1>4. \A i \in DOMAIN port : port[i] = o => Copies(port, o) # 0
  BY CopiesNone DEF QueuesOk
<1>5. \A i, j \in DOMAIN port : port[i] = o /\ port[j] = o /\ i # j => Copies(port, o) >= 2
  BY CopiesTwo DEF QueuesOk
<1>6. Flag(o, lower) \in {0, 1} /\ Flag(o, lost) \in {0, 1}
  BY DEF Flag
<1> HIDE DEF Places, UnderWay, Carriers, Flag
<1>7. Places(o) \in {0, 1} /\ (UnderWay(o) => Places(o) = 1)
  <2>1. Places(o) \in Int /\ Places(o) >= 0
    BY <1>1, <1>6
  <2>2. Places(o) \in {0, 1}
    BY <1>2, <2>1
  <2>3. ASSUME UnderWay(o) PROVE Places(o) # 0
    BY <1>1, <1>3, <1>6, <2>3
  <2>4. QED
    BY <2>2, <2>3
<1>8. \A i \in DOMAIN port : port[i] = o => Cardinality(Carriers(o)) = 0 /\ ~(Copies(port, o) >= 2)
  BY <1>1, <1>2, <1>4, <1>6
<1>9. QED
  BY <1>2, <1>5, <1>7, <1>8

-------------------------------------------------------------------------------
(***************************************************************************)
(* The list of a provider, and who leaves it.                              *)
(***************************************************************************)
LEMMA RemoveAtIs ==
  ASSUME NEW S, NEW l \in Seq(S), NEW i \in DOMAIN l
  PROVE  /\ RemoveAt(l, i) \in Seq(S)
         /\ DOMAIN RemoveAt(l, i) = 1..(Len(l) - 1)
         /\ \A k \in 1..(Len(l) - 1) : RemoveAt(l, i)[k] = IF k < i THEN l[k] ELSE l[k + 1]
         /\ Len(l) \in Nat /\ DOMAIN l = 1..Len(l)
<1> DEFINE a == SubSeq(l, 1, i - 1)
           b == SubSeq(l, i + 1, Len(l))
           r == a \o b
<1>1. Len(l) \in Nat /\ DOMAIN l = 1..Len(l) /\ i \in 1..Len(l)
  BY LenProperties
<1>2. \A k \in 1..Len(l) : l[k] \in S
  BY ElementOfSeq
<1>3. a \in Seq(S) /\ Len(a) = i - 1 /\ \A k \in 1..(i - 1) : a[k] = l[k]
  <2>1. \A k \in 1..(i - 1) : l[k] \in S /\ 1 + k - 1 = k
    BY <1>1, <1>2
  <2>2. 1 \in Int /\ i - 1 \in Int /\ (i - 1) - 1 + 1 = i - 1
    BY <1>1
  <2>3. /\ a \in Seq(S) /\ Len(a) = IF 1 <= i - 1 THEN (i - 1) - 1 + 1 ELSE 0
        /\ \A k \in 1..((i - 1) - 1 + 1) : a[k] = l[1 + k - 1]
    BY <2>1, <2>2, SubSeqProperties
  <2> HIDE DEF a
  <2>4. Len(a) = i - 1
    BY <1>1, <2>3
  <2>5. \A k \in 1..(i - 1) : a[k] = l[k]
    BY <2>1, <2>2, <2>3
  <2>6. QED
    BY <2>3, <2>4, <2>5
<1>4. b \in Seq(S) /\ Len(b) = Len(l) - i /\ \A k \in 1..(Len(l) - i) : b[k] = l[i + k]
  <2>1. \A k \in (i + 1)..Len(l) : l[k] \in S
    BY <1>1, <1>2
  <2>2. i + 1 \in Int /\ Len(l) \in Int
    BY <1>1
  <2>3. /\ b \in Seq(S) /\ Len(b) = IF i + 1 <= Len(l) THEN Len(l) - (i + 1) + 1 ELSE 0
        /\ \A k \in 1..(Len(l) - (i + 1) + 1) : b[k] = l[(i + 1) + k - 1]
    BY <2>1, <2>2, SubSeqProperties
  <2> HIDE DEF b
  <2>4. Len(b) = Len(l) - i
    BY <1>1, <2>3
  <2>5. ASSUME NEW k \in 1..(Len(l) - i) PROVE b[k] = l[i + k]
    <3>1. Len(l) - (i + 1) + 1 = Len(l) - i /\ (i + 1) + k - 1 = i + k
      BY <1>1
    <3>2. QED
      BY <2>3, <3>1
  <2>6. QED
    BY <2>3, <2>4, <2>5
<1> HIDE DEF a, b
<1>5. /\ r \in Seq(S) /\ Len(r) = Len(a) + Len(b)
      /\ \A k \in 1..(Len(a) + Len(b)) : r[k] = IF k <= Len(a) THEN a[k] ELSE b[k - Len(a)]
  BY <1>3, <1>4, ConcatProperties
<1>6. Len(a) + Len(b) = Len(l) - 1
  BY <1>1, <1>3, <1>4
<1> HIDE DEF r
<1>7. DOMAIN r = 1..(Len(l) - 1)
  BY <1>5, <1>6, LenProperties
<1>8. ASSUME NEW k \in 1..(Len(l) - 1) PROVE r[k] = IF k < i THEN l[k] ELSE l[k + 1]
  <2>1. r[k] = IF k <= Len(a) THEN a[k] ELSE b[k - Len(a)]
    BY <1>5, <1>6
  <2>2. CASE k < i
    <3>1. k <= Len(a) /\ k \in 1..(i - 1)
      BY <1>1, <1>3, <2>2
    <3>2. QED
      BY <1>3, <2>1, <2>2, <3>1
  <2>3. CASE ~(k < i)
    <3>1. ~(k <= Len(a)) /\ k - Len(a) \in 1..(Len(l) - i) /\ i + (k - Len(a)) = k + 1
      BY <1>1, <1>3, <2>3
    <3>2. QED
      BY <1>4, <2>1, <2>3, <3>1
  <2>4. QED
    BY <2>2, <2>3
<1>9. RemoveAt(l, i) = r
  BY DEF RemoveAt, a, b, r
<1>10. QED
  BY <1>1, <1>5, <1>7, <1>8, <1>9

NoTwice(l) == \A i, j \in DOMAIN l : l[i] = l[j] => i = j

On(l, c) == \E i \in DOMAIN l : l[i] = c

LEMMA RemovedIs ==
  ASSUME NEW S, NEW l \in Seq(S), NoTwice(l), NEW c, On(l, c)
  PROVE  LET r == RemoveSocketInfo(l, c)
         IN  /\ r \in Seq(S) /\ NoTwice(r)
             /\ \A d : On(r, d) <=> On(l, d) /\ d # c
<1> DEFINE i == CHOOSE j \in DOMAIN l : l[j] = c
           r == RemoveAt(l, i)
<1>1. i \in DOMAIN l /\ l[i] = c
  BY DEF On
<1> HIDE DEF i
<1>2. /\ r \in Seq(S)
      /\ DOMAIN r = 1..(Len(l) - 1)
      /\ \A k \in 1..(Len(l) - 1) : r[k] = IF k < i THEN l[k] ELSE l[k + 1]
      /\ Len(l) \in Nat /\ DOMAIN l = 1..Len(l)
  BY <1>1, RemoveAtIs
<1> HIDE DEF r
<1>3. NoTwice(r)
  <2> SUFFICES ASSUME NEW j \in DOMAIN r, NEW k \in DOMAIN r, r[j] = r[k] PROVE j = k
    BY DEF NoTwice
  <2> DEFINE J == IF j < i THEN j ELSE j + 1
             K == IF k < i THEN k ELSE k + 1
  <2>1. J \in DOMAIN l /\ K \in DOMAIN l /\ r[j] = l[J] /\ r[k] = l[K]
    BY <1>2
  <2>2. J = K
    BY <2>1 DEF NoTwice
  <2>3. QED
    BY <1>1, <1>2, <2>2
<1>4. ASSUME NEW d, On(r, d) PROVE On(l, d) /\ d # c
  <2>1. PICK k \in DOMAIN r : r[k] = d
    BY <1>4 DEF On
  <2> DEFINE K == IF k < i THEN k ELSE k + 1
  <2>2. K \in DOMAIN l /\ r[k] = l[K] /\ K # i
    BY <1>1, <1>2
  <2>3. QED
    BY <1>1, <2>1, <2>2 DEF On, NoTwice
<1>5. ASSUME NEW d, On(l, d), d # c PROVE On(r, d)
  <2>1. PICK k \in DOMAIN l : l[k] = d
    BY <1>5 DEF On
  <2>2. k # i
    BY <1>1, <1>5, <2>1
  <2> DEFINE K == IF k < i THEN k ELSE k - 1
  <2>3. K \in 1..(Len(l) - 1) /\ (IF K < i THEN K ELSE K + 1) = k
    BY <1>1, <1>2, <2>2
  <2>4. r[K] = d
    BY <1>2, <2>1, <2>3
  <2>5. QED
    BY <1>2, <2>3, <2>4 DEF On
<1>6. QED
  BY <1>2, <1>3, <1>4, <1>5 DEF RemoveSocketInfo, i, r

LEMMA ContainsIs == ASSUME NEW S, NEW s \in Seq(S), NEW x PROVE Contains(s, x) <=> On(s, x)
BY LenProperties DEF Contains, On

LEMMA ListedIs ==
  Listed <=> /\ list \in Seq(Infos) /\ NoTwice(list)
             /\ \A c : On(list, c) => info[c].state # "none"
             /\ \A c \in Infos : Live(c) => c \in lsp.kept \/ On(list, c)
             /\ \A c \in lsp.kept : info[c].state # "none" /\ ~On(list, c)
             /\ lsp.faults = MaxFaults => \A c : On(list, c) => Live(c)
BY DEF Listed, NoTwice, On

LEMMA ListedNextIs ==
  Listed' <=> /\ list' \in Seq(Infos) /\ NoTwice(list')
              /\ \A c : On(list', c) => info'[c].state # "none"
              /\ \A c \in Infos : Live(c)' => c \in lsp'.kept \/ On(list', c)
              /\ \A c \in lsp'.kept : info'[c].state # "none" /\ ~On(list', c)
              /\ lsp'.faults = MaxFaults => \A c : On(list', c) => Live(c)'
BY DEF Listed, NoTwice, On, Live

LEMMA OnInfos == ASSUME NEW l \in Seq(Infos), NEW c, On(l, c) PROVE c \in Infos
BY LenProperties, ElementOfSeq DEF On

-------------------------------------------------------------------------------
(***************************************************************************)
(* What a step does to the contexts: they stay (only counters, references  *)
(* and marks change), and with them the handles and the list, which may    *)
(* lose one whose handle does not close; in every step they age.           *)
(***************************************************************************)
StaysAs(x, y) == /\ InfoOk(y) /\ y.state = x.state
                 /\ y.given = x.given /\ y.LayeredSocket = x.LayeredSocket

Drops(c) == On(list, c) /\ list' = RemoveSocketInfo(list, c) /\ lsp'.kept = lsp.kept \cup {c}

SocketsStay == /\ DOMAIN info' = Infos /\ \A c \in Infos : StaysAs(info[c], info'[c])
               /\ handle' = handle
               /\ \/ list' = list /\ lsp'.kept = lsp.kept
                  \/ \E c \in Infos : Drops(c)

Ages == \A c \in Infos : info[c].state # "none" =>
          /\ info'[c].state # "none" /\ info'[c].given = info[c].given
          /\ info[c].state = "freed" => info'[c].state = "freed"

LEMMA SocketsStayOk ==
  ASSUME InfosOk, Mapped, Listed, SocketsStay, LspOk, LspOk', lsp'.faults <= lsp.faults
  PROVE  InfosOk' /\ Mapped' /\ Listed' /\ Ages
<1>1. InfosOk'
  BY DEF InfosOk, SocketsStay, StaysAs, InfoOk
<1>2. /\ \A c \in Infos : /\ info'[c].state = info[c].state /\ info'[c].given = info[c].given
                          /\ info'[c].LayeredSocket = info[c].LayeredSocket
      /\ handle' = handle
      /\ (list' = list /\ lsp'.kept = lsp.kept) \/ \E c \in Infos : Drops(c)
  BY DEF SocketsStay, StaysAs
<1>3. \A c \in Infos : Live(c)' <=> Live(c)
  BY <1>2 DEF Live
<1>4. Mapped'
  <2>1. \A c : c \in lsp.kept => c \in lsp'.kept
    BY <1>2 DEF Drops
  <2>2. QED
    BY <1>2, <1>3, <2>1 DEF Mapped
<1>5. Listed'
  <2>1. /\ list \in Seq(Infos) /\ NoTwice(list)
        /\ \A c : On(list, c) => info[c].state # "none"
        /\ \A c \in Infos : Live(c) => c \in lsp.kept \/ On(list, c)
        /\ \A c \in lsp.kept : info[c].state # "none" /\ ~On(list, c)
        /\ lsp.faults = MaxFaults => \A c : On(list, c) => Live(c)
    BY ListedIs
  <2>2. lsp'.faults = MaxFaults => lsp.faults = MaxFaults
    BY LspAssumption DEF LspOk
  <2>3. lsp.kept \in SUBSET Infos /\ \A c : On(list, c) => c \in Infos
    BY <2>1, OnInfos DEF LspOk
  <2>4. CASE list' = list /\ lsp'.kept = lsp.kept
    BY <1>2, <1>3, <2>1, <2>2, <2>3, <2>4, ListedNextIs
  <2>5. CASE \E c \in Infos : Drops(c)
    <3>1. PICK c \in Infos : Drops(c)
      BY <2>5
    <3>2. /\ list' \in Seq(Infos) /\ NoTwice(list')
          /\ \A d : On(list', d) <=> On(list, d) /\ d # c
      BY <2>1, <3>1, RemovedIs DEF Drops
    <3>3. /\ On(list, c) /\ \A d : d \in lsp'.kept <=> d \in lsp.kept \/ d = c
      BY <3>1 DEF Drops
    <3>4. QED
      BY <1>2, <1>3, <2>1, <2>2, <2>3, <3>2, <3>3, ListedNextIs
  <2>6. QED
    BY <1>2, <2>4, <2>5
<1>6. Ages
  BY <1>2 DEF Ages
<1>7. QED
  BY <1>1, <1>4, <1>5, <1>6

\* A handle leads to the one open socket that has it.
LEMMA OneOpen ==
  ASSUME InfosOk, Mapped, NEW c \in Infos, Live(c), NEW s \in Handles
  PROVE  info[c].given = s <=> handle[s] = c
BY LspSocketsAssumption DEF InfosOk, InfoOk, Mapped, Live

LEMMA FirstAges ==
  ASSUME Ages, NEW c \in Infos, info[c].state # "none", FirstOfHandle(c)'
  PROVE  FirstOfHandle(c)
BY DEF Ages, FirstOfHandle

-------------------------------------------------------------------------------
(***************************************************************************)
(* Who mentions a socket.                                                  *)
(***************************************************************************)
LeaksOk == \A c \in Infos : info'[c].state = "none" => lsp'.leaked[c] = 0

OthersOl(t) == \A u \in Threads : u # t /\ thread[u].ol # NoOl =>
                 ol'[thread[u].ol].CallerSocket = ol[thread[u].ol].CallerSocket

LEMMA NamedAges ==
  ASSUME Ages, NEW c \in Infos, NEW s, Named(c, s)
  PROVE  Named(c, s)'
BY DEF Ages, Named

LEMMA ThreadMatchedAges ==
  ASSUME ThreadsOk, Ages, NEW u \in Threads, thread'[u] = thread[u], ThreadMatched(thread[u]),
         thread[u].ol # NoOl => ol'[thread[u].ol].CallerSocket = ol[thread[u].ol].CallerSocket
  PROVE  ThreadMatched(thread[u])'
<1> DEFINE r == thread[u]
<1>1. ThreadOk(u, r)
  BY DEF ThreadsOk
<1>2. /\ \A c \in Infos : c \in {r.ctx, r.acc, r.inner} => info'[c].state # "none"
      /\ r.s # NoHandle => r.ctx \in Infos /\ Named(r.ctx, r.s)
      /\ r.a # NoHandle => r.acc \in Infos /\ Named(r.acc, r.a)
      /\ r.inner # NoInfo => r.inner \in Infos /\ Named(r.inner, ol[r.ol].CallerSocket) /\ r.ol # NoOl
  BY <1>1 DEF ThreadMatched, ThreadOk, Ages, Inner, Working
<1>3. /\ r.s # NoHandle => Named(r.ctx, r.s)'
      /\ r.a # NoHandle => Named(r.acc, r.a)'
      /\ r.inner # NoInfo => Named(r.inner, ol[r.ol].CallerSocket)'
  BY <1>2, LspSocketsAssumption DEF Named, Ages
<1>4. QED
  BY <1>2, <1>3, LspSocketsAssumption DEF ThreadMatched, Named

LEMMA MatchedStep ==
  ASSUME ThreadsOk, Matched, Ages, NEW t, \A u \in Threads : u # t => thread'[u] = thread[u],
         t \in Threads => ThreadMatched(thread[t])',
         LeaksOk, OthersOl(t), \A o \in Ols : UnderWay(o)' => OlMatched(ol[o])'
  PROVE  Matched'
<1>1. ASSUME NEW u \in Threads PROVE ThreadMatched(thread[u])'
  <2>1. CASE u = t
    BY <2>1
  <2>2. CASE u # t
    <3>1. thread'[u] = thread[u] /\ ThreadMatched(thread[u])
      BY <2>2 DEF Matched
    <3>2. thread[u].ol # NoOl => ol'[thread[u].ol].CallerSocket = ol[thread[u].ol].CallerSocket
      BY <2>2 DEF OthersOl
    <3>3. QED
      BY <3>1, <3>2, ThreadMatchedAges
  <2>3. QED
    BY <2>1, <2>2
<1>2. QED
  BY <1>1 DEF Matched, LeaksOk

\* A structure that still belongs to the same request.
OlKept(o) == /\ ol'[o].SockInfo = ol[o].SockInfo /\ ol'[o].CallerSocket = ol[o].CallerSocket
             /\ ol'[o].Operation = "acceptex" => /\ ol[o].Operation = "acceptex"
                                                 /\ ol'[o].sAcceptSocket = ol[o].sAcceptSocket

LEMMA OlMatchedAges ==
  ASSUME Ages, NEW o, OlKept(o), OlMatched(ol[o])
  PROVE  OlMatched(ol[o])'
BY DEF Ages, OlKept, OlMatched, Named

-------------------------------------------------------------------------------
(***************************************************************************)
(* What is not counted yet.                                                *)
(***************************************************************************)
NoneDue == \A o \in Ols : Due(o)' /\ ol'[o].Operation \in {"transfer", "acceptex"} =>
             /\ Due(o) /\ ol'[o].Operation = ol[o].Operation
             /\ ol'[o].CallerSocket = ol[o].CallerSocket /\ ol'[o].sAcceptSocket = ol[o].sAcceptSocket

LEMMA UncountedFinite ==
  ASSUME NEW s
  PROVE  /\ IsFiniteSet(Uncounted(s)) /\ IsFiniteSet(Uncounted(s)')
         /\ Cardinality(Uncounted(s)) \in Nat /\ Cardinality(Uncounted(s)') \in Nat
<1>1. IsFiniteSet(Uncounted(s)) /\ IsFiniteSet(Uncounted(s)')
  BY FiniteSets, FS_Subset DEF Uncounted
<1>2. QED
  BY <1>1, FS_CardinalityType

LEMMA UncountedShrinks ==
  ASSUME NoneDue, NEW s
  PROVE  Cardinality(Uncounted(s)') <= Cardinality(Uncounted(s))
<1>1. Uncounted(s)' \in SUBSET Uncounted(s)
  BY DEF NoneDue, Uncounted, Target
<1>2. QED
  BY <1>1, UncountedFinite, FS_Subset

CountsStay == \A c \in Infos : Live(c)' => /\ Live(c) /\ info'[c].Bytes = info[c].Bytes
                                           /\ info'[c].moved = info[c].moved

(* The thread t apart, the sums grow by no more than what was moved.       *)
LEMMA CountedForNext ==
  ASSUME ThreadsOk, InfosOk, NEW c \in Infos, NEW s, CountedFor(c, s), NEW t, NEW k \in Int,
         \A u \in Threads : u # t => thread'[u] = thread[u],
         Cardinality(Uncounted(s)') <= Cardinality(Uncounted(s)) + k,
         info'[c].moved \in Int, info'[c].moved >= info[c].moved + k,
         info'[c].Bytes + Cardinality(Uncounted(s)') <= info'[c].moved,
         t \in Threads /\ thread'[t].pc = "count" /\ thread'[t].ctx = c =>
           thread'[t].n + Cardinality(Uncounted(s)') <= info'[c].moved
  PROVE  CountedFor(c, s)'
<1> DEFINE due == Cardinality(Uncounted(s))
           next == Cardinality(Uncounted(s)')
<1>1. due \in Nat /\ next \in Nat /\ next <= due + k
  BY UncountedFinite
<1>2. info[c].moved \in Int
  BY DEF InfosOk, InfoOk
<1>3. ASSUME NEW u \in Threads, u # t, thread'[u].pc = "count", thread'[u].ctx = c
      PROVE  thread'[u].n + due <= info[c].moved /\ thread'[u].n \in Int
  <2>1. thread'[u] = thread[u] /\ ThreadOk(u, thread[u])
    BY <1>3 DEF ThreadsOk
  <2>2. QED
    BY <1>3, <2>1 DEF CountedFor, ThreadOk
<1> HIDE DEF due, next
<1>4. ASSUME NEW u \in Threads, thread'[u].pc = "count", thread'[u].ctx = c
      PROVE  thread'[u].n + next <= info'[c].moved
  <2>1. CASE u = t
    BY <1>4, <2>1 DEF next
  <2>2. CASE u # t
    <3>1. thread'[u].n + due <= info[c].moved /\ thread'[u].n \in Int
      BY <1>3, <1>4, <2>2
    <3>2. QED
      BY <1>1, <1>2, <3>1
  <2>3. QED
    BY <2>1, <2>2
<1>5. QED
  BY <1>4 DEF CountedFor, next

LEMMA CountedForStep ==
  ASSUME ThreadsOk, InfosOk, NEW c \in Infos, NEW s, CountedFor(c, s), NEW t,
         \A u \in Threads : u # t => thread'[u] = thread[u],
         t \in Threads => thread'[t].pc # "count",
         info'[c].Bytes = info[c].Bytes, info'[c].moved = info[c].moved, NoneDue
  PROVE  CountedFor(c, s)'
<1> DEFINE due == Cardinality(Uncounted(s))
           next == Cardinality(Uncounted(s)')
<1>1. due \in Nat /\ next \in Nat /\ next <= due
  BY UncountedFinite, UncountedShrinks
<1>2. info[c].Bytes \in Int /\ info[c].moved \in Int
  BY DEF InfosOk, InfoOk
<1>3. info[c].Bytes + due <= info[c].moved
  BY DEF CountedFor
<1> HIDE DEF due, next
<1>4. /\ info'[c].Bytes + next <= info'[c].moved /\ next <= due + 0
      /\ info'[c].moved \in Int /\ info'[c].moved >= info[c].moved + 0 /\ 0 \in Int
  BY <1>1, <1>2, <1>3
<1>5. QED
  BY <1>4, CountedForNext DEF due, next

LEMMA AccountedStep ==
  ASSUME ThreadsOk, InfosOk, Accounted, Ages, CountsStay, NoneDue, NEW t,
         \A u \in Threads : u # t => thread'[u] = thread[u], t \in Threads => thread'[t].pc # "count"
  PROVE  Accounted'
<1> SUFFICES ASSUME NEW c \in Infos, NEW s \in Handles \cup {NoHandle},
                    Live(c)', FirstOfHandle(c)', info'[c].given = s
             PROVE  CountedFor(c, s)'
  BY DEF Accounted
<1>1. Live(c) /\ info'[c].Bytes = info[c].Bytes /\ info'[c].moved = info[c].moved
  BY DEF CountsStay
<1>2. info[c].state # "none" /\ info[c].given = s
  BY <1>1 DEF Live, Ages
<1>3. FirstOfHandle(c)
  BY <1>2, FirstAges
<1>4. CountedFor(c, s)
  BY <1>1, <1>2, <1>3 DEF Accounted
<1>5. QED
  BY <1>1, <1>4, CountedForStep

-------------------------------------------------------------------------------
(***************************************************************************)
(* Steps that move no structure.                                           *)
(***************************************************************************)
Stays(t) == /\ Only(t) /\ UNCHANGED structures
            /\ thread'[t].ol = thread[t].ol
            /\ thread'[t].pc \in {"complete", "account"} => thread[t].pc \in {"complete", "account"}

OlsAlike == \A o \in Ols : UnderWay(o)' => UnderWay(o) /\ OlKept(o)

(* What comes under way is a request of an open socket.                    *)
OlsFollow == \A o \in Ols : UnderWay(o)' => OlMatched(ol[o])' \/ (UnderWay(o) /\ OlKept(o))

LEMMA StaysOk ==
  ASSUME QueuesOk, OlsOk, NEW t \in Threads, Stays(t)
  PROVE  OlsOk' /\ QueuesOk' /\ PlacesKept /\ NoneDue /\ OthersOl(t) /\ OlsAlike
<1>1. /\ ol' = ol /\ pool' = pool /\ pending' = pending /\ port' = port /\ lower' = lower /\ lost' = lost
      /\ Only(t) /\ thread'[t].ol = thread[t].ol
      /\ thread'[t].pc \in {"complete", "account"} => thread[t].pc \in {"complete", "account"}
  BY DEF Stays, structures
<1>2. OlsOk'
  BY <1>1 DEF OlsOk
<1>3. QueuesOk'
  BY <1>1 DEF QueuesOk
<1>4. ASSUME NEW o \in Ols PROVE Places(o)' = Places(o)
  <2>1. Cardinality(Carriers(o)') = Cardinality(Carriers(o)) /\ Cardinality(Carriers(o)) \in Nat
    BY <1>1, CarriersChange
  <2>2. QED
    BY <1>1, <1>3, <2>1, PlacesAre, PlacesNextAre
<1>5. PlacesKept
  BY <1>1, <1>4 DEF PlacesKept
<1>6. \A u \in Threads : /\ thread'[u].ol = thread[u].ol
                         /\ thread'[u].pc \in {"complete", "account"} => thread[u].pc \in {"complete", "account"}
  BY <1>1 DEF Only
<1>7. NoneDue
  BY <1>1, <1>6 DEF NoneDue, Due
<1>8. OthersOl(t) /\ OlsAlike
  BY <1>1, <1>6 DEF OthersOl, OlsAlike, OlKept, UnderWay
<1>9. QED
  BY <1>2, <1>3, <1>5, <1>7, <1>8

Refs(t) == \A c \in Infos : Live(c)' =>
             /\ Live(c)
             /\ info'[c].RefCount - lsp'.leaked[c] - Held(thread'[t], c)
                  = info[c].RefCount - lsp.leaked[c] - Held(thread[t], c)

LEMMA HeldInt == ASSUME NEW r, NEW c PROVE Held(r, c) \in Int
BY DEF Held

LEMMA BalancedStep ==
  ASSUME Balanced, LspOk, LspOk', InfosOk, InfosOk', NEW t \in Threads, Only(t), Refs(t)
  PROVE  Balanced'
<1> SUFFICES ASSUME NEW c \in Infos, Live(c)'
             PROVE  info'[c].RefCount = lsp'.leaked[c] + Holders(c)'
  BY DEF Balanced
<1>1. /\ Holders(c) \in Nat /\ Holders(c)' \in Nat
      /\ Holders(c)' = Holders(c) + Held(thread'[t], c) - Held(thread[t], c)
  BY HoldersChange
<1>2. /\ info[c].RefCount \in Int /\ info'[c].RefCount \in Int
      /\ lsp.leaked[c] \in Int /\ lsp'.leaked[c] \in Int
      /\ Held(thread[t], c) \in Int /\ Held(thread'[t], c) \in Int
  BY HeldInt DEF InfosOk, InfoOk, LspOk
<1>3. info[c].RefCount = lsp.leaked[c] + Holders(c)
  BY DEF Refs, Balanced
<1>4. info'[c].RefCount - lsp'.leaked[c] - Held(thread'[t], c)
        = info[c].RefCount - lsp.leaked[c] - Held(thread[t], c)
  BY DEF Refs
<1> HIDE DEF Holders, Held
<1>5. QED
  BY <1>1, <1>2, <1>3, <1>4

(***************************************************************************)
(* A step inside a call: the sockets stay.                                 *)
(***************************************************************************)
LspStep == /\ LspOk' /\ lsp'.faults <= lsp.faults
           /\ lsp'.gBaseInfo => lsp.gBaseInfo

LEMMA ShiftStep ==
  ASSUME Good, NEW t \in Threads, Only(t), OlsOk', QueuesOk', Conserved', OthersOl(t), OlsFollow,
         SocketsStay, LspOk', lsp'.faults <= lsp.faults, LeaksOk,
         ThreadOk(t, thread'[t]), Refs(t), ThreadMatched(thread[t])'
  PROVE  Types' /\ Conserved' /\ Balanced' /\ Mapped' /\ Listed' /\ Matched' /\ Ages
<1>1. /\ LspOk /\ ThreadsOk /\ OlsOk /\ QueuesOk /\ InfosOk
      /\ Conserved /\ Balanced /\ Mapped /\ Listed /\ Matched
  BY DEF Good, Types
<1>2. ThreadsOk'
  BY <1>1, ThreadsOkStep
<1>3. InfosOk' /\ Mapped' /\ Listed' /\ Ages
  BY <1>1, SocketsStayOk
<1>4. Balanced'
  BY <1>1, <1>3, BalancedStep
<1>5. Matched'
  <2>1. \A o \in Ols : UnderWay(o)' => OlMatched(ol[o])'
    BY <1>1, <1>3, OlMatchedAges DEF OlsFollow, Matched
  <2>2. \A u \in Threads : u # t => thread'[u] = thread[u]
    BY DEF Only
  <2>3. QED
    BY <1>1, <1>3, <2>1, <2>2, MatchedStep
<1>6. QED
  BY <1>2, <1>3, <1>4, <1>5 DEF Types

LEMMA MoveStep ==
  ASSUME Good, NEW t \in Threads, Only(t), OlsOk', QueuesOk', PlacesKept, OthersOl(t), OlsAlike,
         SocketsStay, LspStep, LeaksOk,
         ThreadOk(t, thread'[t]), Refs(t), ThreadMatched(thread[t])'
  PROVE  Types' /\ Conserved' /\ Balanced' /\ Mapped' /\ Listed' /\ Matched' /\ Ages
<1>1. Conserved
  BY DEF Good
<1>2. LspOk' /\ lsp'.faults <= lsp.faults /\ (lsp'.gBaseInfo => lsp.gBaseInfo)
  BY DEF LspStep
<1>3. Conserved'
  BY <1>1, <1>2, ConservedKept
<1>4. OlsFollow
  BY DEF OlsAlike, OlsFollow
<1>5. QED
  BY <1>2, <1>3, <1>4, ShiftStep

LEMMA CallStepMost ==
  ASSUME Good, NEW t \in Threads, Stays(t), SocketsStay, LspStep, LeaksOk,
         ThreadOk(t, thread'[t]), Refs(t), ThreadMatched(thread'[t])
  PROVE  /\ Types' /\ Conserved' /\ Balanced' /\ Mapped' /\ Listed' /\ Matched'
         /\ Ages /\ NoneDue /\ Only(t)
<1>1. OlsOk /\ QueuesOk
  BY DEF Good, Types
<1>2. OlsOk' /\ QueuesOk' /\ PlacesKept /\ NoneDue /\ OthersOl(t) /\ OlsAlike
  BY <1>1, StaysOk
<1>3. Only(t) /\ ol' = ol
  BY DEF Stays, structures
<1>4. ThreadMatched(thread[t])'
  <2>1. /\ \A c \in Infos : info'[c].state = info[c].state /\ info'[c].given = info[c].given
        /\ DOMAIN info' = Infos
    BY DEF SocketsStay, StaysAs
  <2>2. QED
    BY <1>3, <2>1, LspSocketsAssumption DEF ThreadMatched, Named, ThreadOk
<1>5. QED
  BY <1>2, <1>3, <1>4, MoveStep

LEMMA CallStep ==
  ASSUME Good, NEW t \in Threads, Stays(t), SocketsStay, LspStep, LeaksOk,
         ThreadOk(t, thread'[t]), Refs(t), ThreadMatched(thread'[t]),
         CountsStay, thread'[t].pc # "count"
  PROVE  Good'
<1>1. /\ Types' /\ Conserved' /\ Balanced' /\ Mapped' /\ Listed' /\ Matched'
      /\ Ages /\ NoneDue /\ Only(t)
  BY CallStepMost
<1>2. ThreadsOk /\ InfosOk /\ Accounted
  BY DEF Good, Types
<1>3. \A u \in Threads : u # t => thread'[u] = thread[u]
  BY <1>1 DEF Only
<1>4. Accounted'
  BY <1>1, <1>2, <1>3, AccountedStep
<1>5. QED
  BY <1>1, <1>4 DEF Good

(***************************************************************************)
(* A step that no thread takes part in.                                    *)
(***************************************************************************)
LEMMA StillStep ==
  ASSUME Good, thread' = thread, OlsOk', QueuesOk', Conserved', OlsAlike, SocketsStay,
         \A c \in Infos : info'[c].RefCount = info[c].RefCount,
         LspOk', lsp'.faults <= lsp.faults, lsp'.leaked = lsp.leaked /\ lsp'.kept = lsp.kept
  PROVE  /\ Types' /\ Conserved' /\ Balanced' /\ Mapped' /\ Listed' /\ Matched' /\ Ages
         /\ NoThread \notin Threads
<1>1. /\ LspOk /\ ThreadsOk /\ OlsOk /\ QueuesOk /\ InfosOk
      /\ Conserved /\ Balanced /\ Mapped /\ Listed /\ Matched
  BY DEF Good, Types
<1>2. ThreadsOk'
  BY <1>1 DEF ThreadsOk
<1>3. InfosOk' /\ Mapped' /\ Listed' /\ Ages
  BY <1>1, SocketsStayOk
<1>4. \A c \in Infos : info'[c].state = info[c].state
  BY DEF SocketsStay, StaysAs
<1>5. Balanced'
  <2>1. \A c \in Infos : Holders(c)' = Holders(c) /\ (Live(c)' <=> Live(c))
    BY <1>4 DEF Holders, Live
  <2> HIDE DEF Holders
  <2>2. QED
    BY <1>1, <2>1 DEF Balanced
<1>6. NoThread \notin Threads
  BY LspAssumption DEF Threads
<1>7. Matched'
  <2>1. LeaksOk
    BY <1>1, <1>4 DEF LeaksOk, Matched
  <2>2. OthersOl(NoThread)
    <3>1. ASSUME NEW u \in Threads, thread[u].ol # NoOl
          PROVE  ol'[thread[u].ol].CallerSocket = ol[thread[u].ol].CallerSocket
      <4>1. thread[u].ol \in Ols
        BY <1>1, <3>1 DEF ThreadsOk, ThreadOk
      <4>2. \A o : thread[u].ol = o => UnderWay(o)'
        BY DEF UnderWay
      <4>3. QED
        BY <4>1, <4>2 DEF OlsAlike, OlKept
    <3>2. QED
      BY <3>1 DEF OthersOl
  <2>3. \A o \in Ols : UnderWay(o)' => OlMatched(ol[o])'
    BY <1>1, <1>3, OlMatchedAges DEF OlsAlike, Matched
  <2>4. QED
    BY <1>1, <1>3, <1>6, <2>1, <2>2, <2>3, MatchedStep
<1>8. QED
  BY <1>2, <1>3, <1>5, <1>6, <1>7 DEF Types

(* A step that only the globals of the DLL, or the application, show.      *)
LEMMA QuietStep ==
  ASSUME Good, UNCHANGED <<thread, structures, sockets>>, LspStep, lsp'.leaked = lsp.leaked /\ lsp'.kept = lsp.kept
  PROVE  Good'
<1>1. /\ LspOk /\ ThreadsOk /\ OlsOk /\ QueuesOk /\ InfosOk
      /\ Conserved /\ Balanced /\ Mapped /\ Listed /\ Matched /\ Accounted
  BY DEF Good, Types
<1>2. /\ thread' = thread /\ ol' = ol /\ pool' = pool /\ pending' = pending /\ port' = port
      /\ lower' = lower /\ lost' = lost /\ info' = info /\ list' = list /\ handle' = handle
  BY DEF structures, sockets
<1>3. LspOk' /\ lsp'.faults <= lsp.faults /\ (lsp'.gBaseInfo => lsp.gBaseInfo)
  BY DEF LspStep
<1>4. OlsOk' /\ QueuesOk'
  BY <1>1, <1>2 DEF OlsOk, QueuesOk
<1>5. Conserved'
  <2>1. \A o : Places(o)' = Places(o)
    BY <1>2 DEF Places
  <2>2. PlacesKept
    BY <1>2, <2>1 DEF PlacesKept
  <2>3. QED
    BY <1>1, <1>3, <2>2, ConservedKept
<1>6. SocketsStay /\ OlsAlike
  BY <1>1, <1>2 DEF SocketsStay, StaysAs, InfosOk, OlsAlike, OlKept, UnderWay
<1>7. /\ Types' /\ Conserved' /\ Balanced' /\ Mapped' /\ Listed' /\ Matched' /\ Ages
      /\ NoThread \notin Threads
  BY <1>2, <1>3, <1>4, <1>5, <1>6, StillStep
<1>8. NoneDue /\ CountsStay
  BY <1>2 DEF NoneDue, CountsStay, Due, Live
<1>9. Accounted'
  BY <1>1, <1>2, <1>7, <1>8, AccountedStep
<1>10. QED
  BY <1>7, <1>9 DEF Good


-------------------------------------------------------------------------------
(***************************************************************************)
(* Facts that the steps of many functions share.                           *)
(***************************************************************************)
LEMMA GoodIs ==
  ASSUME Good
  PROVE  /\ LspOk /\ ThreadsOk /\ OlsOk /\ QueuesOk /\ InfosOk
         /\ Conserved /\ Balanced /\ Mapped /\ Listed /\ Matched /\ Accounted
BY DEF Good, Types

LEMMA NotOver ==
  ASSUME LspOk, lsp'.health = "ok"
  PROVE  ~Wild /\ ~Crash /\ ~Over("detached")
BY DEF LspOk, LspFields, Wild, Crash, Over

LEMMA LspCalls ==
  ASSUME LspOk, lsp' = [lsp EXCEPT !.calls = @ - 1]
  PROVE  LspStep /\ lsp'.leaked = lsp.leaked /\ lsp'.kept = lsp.kept
BY DEF LspOk, LspFields, LspStep

LEMMA LspSame ==
  ASSUME LspOk, lsp' = lsp
  PROVE  LspStep /\ lsp'.leaked = lsp.leaked /\ lsp'.kept = lsp.kept
BY DEF LspOk, LspStep

LEMMA LspKept ==
  ASSUME LspOk, NEW c \in Infos, lsp' = Kept(c)
  PROVE  LspStep /\ lsp'.leaked = lsp.leaked /\ lsp'.kept = lsp.kept \cup {c}
BY LspAssumption DEF LspOk, LspFields, LspStep, Kept, Fault

LEMMA LspFault ==
  ASSUME LspOk, lsp' = Fault
  PROVE  LspStep /\ lsp'.leaked = lsp.leaked /\ lsp'.kept = lsp.kept
BY LspAssumption DEF LspOk, LspFields, LspStep, Fault

LEMMA ThreadIs ==
  ASSUME ThreadsOk, Matched, NEW t \in Threads
  PROVE  ThreadOk(t, thread[t]) /\ ThreadMatched(thread[t]) /\ DOMAIN thread = Threads
BY DEF ThreadsOk, Matched

LEMMA IdleThread ==
  ASSUME ThreadsOk, NEW t \in Threads, thread[t].pc \in {"idle"}
  PROVE  /\ thread[t].ctx = NoInfo /\ thread[t].acc = NoInfo
         /\ thread[t].inner = NoInfo /\ thread[t].ol = NoOl
         /\ \A c \in Infos : Held(thread[t], c) = 0
<1>1. ThreadOk(t, thread[t])
  BY DEF ThreadsOk
<1>2. thread[t].ctx = NoInfo /\ thread[t].acc = NoInfo /\ thread[t].inner = NoInfo /\ thread[t].ol = NoOl
  BY <1>1 DEF ThreadOk, Alone, Inner, Working
<1>3. QED
  BY <1>2, LspSocketsAssumption DEF Held

LEMMA HandleLeads ==
  ASSUME InfosOk, Mapped, NEW s \in Handles, Known(s)
  PROVE  /\ handle[s] \in Infos /\ handle[s] # NoInfo /\ Live(handle[s]) /\ info[handle[s]].given = s
         /\ Named(handle[s], s) /\ info[handle[s]].state # "none"
BY DEF InfosOk, InfoOk, Mapped, Live, Named, Known

(* Counters, references and marks change, no socket comes or goes.         *)
Alters == /\ DOMAIN info' = Infos
          /\ \A d \in Infos : /\ DOMAIN info'[d] = InfoFields
                              /\ info'[d].state = info[d].state /\ info'[d].given = info[d].given
                              /\ info'[d].LayeredSocket = info[d].LayeredSocket
                              /\ info'[d].ProviderSocket \in {info[d].ProviderSocket, "invalid"}
                              /\ info'[d].Bytes \in Int /\ info'[d].moved \in Int
                              /\ info'[d].RefCount \in Int

KeepsCounts == \A d \in Infos : info'[d].Bytes = info[d].Bytes /\ info'[d].moved = info[d].moved

Plus(c, k) == \A d \in Infos : info'[d].RefCount = info[d].RefCount + (IF d = c THEN k ELSE 0)

LEMMA AltersOk ==
  ASSUME InfosOk, Matched, Alters, handle' = handle, list' = list, lsp'.leaked = lsp.leaked /\ lsp'.kept = lsp.kept
  PROVE  SocketsStay /\ LeaksOk /\ (KeepsCounts => CountsStay)
<1>1. \A d \in Infos : StaysAs(info[d], info'[d])
  BY DEF InfosOk, InfoOk, Alters, StaysAs
<1>2. \A d \in Infos : info'[d].state = info[d].state
  BY DEF Alters
<1>3. QED
  BY <1>1, <1>2 DEF SocketsStay, LeaksOk, Matched, Alters, KeepsCounts, CountsStay, Live

LEMMA InfoSame ==
  ASSUME InfosOk, info' = info
  PROVE  Alters /\ KeepsCounts /\ \A c : Plus(c, 0)
BY DEF InfosOk, InfoOk, Alters, KeepsCounts, Plus

LEMMA Unchanged ==
  ASSUME UNCHANGED <<structures, user, list, handle>>
  PROVE  UNCHANGED structures /\ list' = list /\ handle' = handle
OBVIOUS

-------------------------------------------------------------------------------
(***************************************************************************)
(* Calls that take a handle.                                               *)
(***************************************************************************)
LEMMA FindOk ==
  ASSUME InfosOk, NEW c \in Infos, info' = [info EXCEPT ![c].RefCount = @ + 1]
  PROVE  Alters /\ KeepsCounts /\ Plus(c, 1)
BY DEF InfosOk, InfoOk, InfoFields, Alters, KeepsCounts, Plus

LEMMA PcsDiffer ==
  /\ \A p \in Calls : p \notin Working /\ p \notin Inner /\ p \notin Alone
  /\ \A p \in Working : p \notin Alone /\ p \notin Calls
  /\ \A p \in Inner : p \in Working
  /\ \A p \in Alone : p \notin Working /\ p \notin Inner /\ p \notin Calls
BY DEF Calls, Working, Inner, Alone

(* The condition under which an application thread is well inside a call.  *)
CallFits(p, s, acc, a, op) ==
  /\ p \in Calls /\ s \in Handles \cup {NoHandle} /\ a \in Handles \cup {NoHandle}
  /\ acc \in Infos \cup {NoInfo}
  /\ p = "setsockopt" => acc # NoInfo
  /\ p \in {"close", "closed", "get"} => s # NoHandle
  /\ p \in {"close", "closed"} => acc = NoInfo
  /\ p = "get" => op \in Requested /\ (op = "acceptex" => a # NoHandle)

LEMMA CallThreadOk ==
  ASSUME NEW t \in Apps, NEW r, NEW p, NEW s, NEW c \in Infos, NEW acc, NEW a, NEW op, NEW n \in Int,
         Is(r, p, s, c, acc, a, NoInfo, NoOl, op, n), CallFits(p, s, acc, a, op)
  PROVE  ThreadOk(t, r)
<1>1. /\ DOMAIN r = ThreadFields
      /\ r.pc = p /\ r.s = s /\ r.ctx = c /\ r.acc = acc /\ r.a = a
      /\ r.inner = NoInfo /\ r.ol = NoOl /\ r.op = op /\ r.n = n
  BY DEF Is
<1>2. p \in Calls /\ p \notin Working /\ p \notin Inner /\ p \notin Alone /\ p # "select"
  BY PcsDiffer DEF CallFits, Alone
<1>3. c # NoInfo
  BY LspSocketsAssumption
<1>4. QED
  BY <1>1, <1>2, <1>3 DEF ThreadOk, CallFits

LEMMA EnterOk ==
  ASSUME Good, NEW t \in Threads, NEW s \in Handles,
         NEW p \in {"leave", "accept", "joinleaf", "close", "transfer", "get"},
         NEW op, p = "get" => op \in Requested \ {"acceptex"}, NEW r, Enter(t, s, p, op, r)
  PROVE  Good'
<1> DEFINE c == handle[s]
           q == [Idle EXCEPT !.pc = p, !.ctx = c, !.op = op, !.req = r,
                             !.s = IF p = "leave" THEN NoHandle ELSE s]
           h == IF p = "leave" THEN NoHandle ELSE s
<1>1. /\ LspOk /\ ThreadsOk /\ OlsOk /\ QueuesOk /\ InfosOk
      /\ Conserved /\ Balanced /\ Mapped /\ Listed /\ Matched /\ Accounted
  BY GoodIs
<1>2. /\ t \in Apps /\ thread[t].pc = "idle" /\ Known(s)
      /\ info' = [info EXCEPT ![c].RefCount = @ + 1]
      /\ thread' = [thread EXCEPT ![t] = q]
      /\ lsp' = [lsp EXCEPT !.calls = @ - 1]
      /\ UNCHANGED <<structures, user, list, handle>>
  BY DEF Enter, Calling, At, FindAndLockSocketContext
<1>3. c \in Infos /\ Live(c) /\ Named(c, s) /\ info[c].state # "none"
  BY <1>1, <1>2, HandleLeads
<1>4. Only(t) /\ thread'[t] = q
  BY <1>1, <1>2, ReplacedIs, ThreadIs
<1>5. Is(q, p, h, c, NoInfo, NoHandle, NoInfo, NoOl, op, 0)
  BY DEF Is, Idle, ThreadFields
<1> HIDE DEF c, q, h
<1>6. h \in {s, NoHandle} /\ (p # "leave" => h = s)
  BY DEF h
<1>7. /\ thread[t].ctx = NoInfo /\ thread[t].acc = NoInfo /\ thread[t].inner = NoInfo /\ thread[t].ol = NoOl
      /\ \A d \in Infos : Held(thread[t], d) = 0
  BY <1>1, <1>2, IdleThread
<1>8. LspStep /\ lsp'.leaked = lsp.leaked /\ lsp'.kept = lsp.kept
  BY <1>1, <1>2, LspCalls
<1>9. Alters /\ KeepsCounts /\ Plus(c, 1)
  BY <1>1, <1>2, <1>3, FindOk
<1>10. SocketsStay /\ LeaksOk /\ CountsStay
  BY <1>1, <1>2, <1>8, <1>9, AltersOk
<1>11. Stays(t)
  BY <1>2, <1>4, <1>5, <1>7 DEF Stays, Is
<1>12. ThreadOk(t, thread'[t]) /\ thread'[t].pc # "count"
  <2>1. CallFits(p, h, NoInfo, NoHandle, op)
    BY <1>6, LspSocketsAssumption DEF CallFits, Calls
  <2>2. thread'[t].pc # "count"
    BY <1>4, <1>5 DEF Is
  <2>3. QED
    BY <1>2, <1>3, <1>4, <1>5, <2>1, <2>2, CallThreadOk
<1>13. Refs(t)
  <2>1. \A d \in Infos : Held(thread'[t], d) = IF d = c THEN 1 ELSE 0
    BY <1>3, <1>4, <1>5, LspSocketsAssumption DEF Held, Is
  <2>2. \A d \in Infos : /\ info[d].RefCount \in Int /\ lsp.leaked[d] \in Int
                         /\ info'[d].RefCount = info[d].RefCount + (IF d = c THEN 1 ELSE 0)
                         /\ Live(d)' => Live(d)
    BY <1>1, <1>9 DEF InfosOk, InfoOk, LspOk, Plus, Alters, Live
  <2>3. QED
    BY <1>7, <1>8, <2>1, <2>2 DEF Refs
<1>14. ThreadMatched(thread'[t])
  BY <1>3, <1>4, <1>5, <1>6, LspSocketsAssumption DEF ThreadMatched, Is
<1>15. QED
  BY <1>8, <1>10, <1>11, <1>12, <1>13, <1>14, CallStep

LEMMA CallThread ==
  ASSUME ThreadsOk, NEW t \in Threads, thread[t].pc \in Calls
  PROVE  /\ t \in Apps /\ thread[t].ctx \in Infos /\ thread[t].inner = NoInfo /\ thread[t].ol = NoOl
         /\ thread[t].acc \in Infos \cup {NoInfo}
         /\ thread[t].s \in Handles \cup {NoHandle} /\ thread[t].a \in Handles \cup {NoHandle}
         /\ thread[t].n \in Int
<1>1. ThreadOk(t, thread[t])
  BY DEF ThreadsOk
<1>2. t \in Apps
  BY <1>1, PcsDiffer DEF ThreadOk, Calls
<1>3. thread[t].pc \notin Working /\ thread[t].pc \notin Inner /\ thread[t].pc \notin Alone
  BY PcsDiffer
<1>4. QED
  BY <1>1, <1>2, <1>3 DEF ThreadOk

RefsKept == \A d \in Infos : info'[d].RefCount = info[d].RefCount

(* A thread's references are what they were.                               *)
LEMMA RefsKeptOk ==
  ASSUME InfosOk, LspOk, Alters, RefsKept, lsp'.leaked = lsp.leaked /\ lsp'.kept = lsp.kept, NEW t,
         \A d \in Infos : Held(thread'[t], d) = Held(thread[t], d)
  PROVE  Refs(t)
<1>1. \A d \in Infos : Live(d)' => Live(d)
  BY DEF Alters, Live
<1>2. QED
  BY <1>1 DEF Refs, RefsKept

(* The call comes to its end: only its references are left.                *)
LEMMA ExitThread ==
  ASSUME Good, NEW t \in Threads, thread[t].pc \in Calls \ {"setsockopt"}, Exit(t), UNCHANGED structures
  PROVE  /\ Stays(t) /\ thread'[t].pc # "count" /\ ThreadOk(t, thread'[t]) /\ ThreadMatched(thread'[t])
         /\ \A d \in Infos : Held(thread'[t], d) = Held(thread[t], d)
<1>1. ThreadsOk /\ Matched
  BY GoodIs
<1>2. /\ t \in Apps /\ thread[t].ctx \in Infos /\ thread[t].inner = NoInfo /\ thread[t].ol = NoOl
      /\ thread[t].acc \in Infos \cup {NoInfo}
  BY <1>1, CallThread
<1>3. /\ Only(t)
      /\ Is(thread'[t], "leave", NoHandle, thread[t].ctx, thread[t].acc, NoHandle, NoInfo, NoOl, "none", 0)
  BY <1>1, ExitIs, ThreadIs
<1>4. Stays(t) /\ thread'[t].pc # "count"
  BY <1>2, <1>3 DEF Stays, Is
<1>5. ThreadOk(t, thread'[t])
  <2>1. CallFits("leave", NoHandle, thread[t].acc, NoHandle, "none")
    BY <1>2 DEF CallFits, Calls
  <2>2. QED
    BY <1>2, <1>3, <2>1, CallThreadOk
<1>6. \A d \in Infos : Held(thread'[t], d) = Held(thread[t], d)
  <2>1. thread[t].pc \notin {"select", "setsockopt"}
    BY DEF Calls
  <2>2. QED
    BY <1>2, <1>3, <2>1, LspSocketsAssumption DEF Held, Is
<1>7. ThreadMatched(thread'[t])
  <2>1. ThreadMatched(thread[t])
    BY <1>1, ThreadIs
  <2>2. QED
    BY <1>2, <1>3, <2>1, LspSocketsAssumption DEF ThreadMatched, Is
<1>8. QED
  BY <1>4, <1>5, <1>6, <1>7

LEMMA ExitOk ==
  ASSUME Good, NEW t \in Threads, thread[t].pc \in Calls \ {"setsockopt"}, Exit(t),
         UNCHANGED structures, list' = list, handle' = handle,
         Alters, RefsKept, LspStep, lsp'.leaked = lsp.leaked /\ lsp'.kept = lsp.kept
  PROVE  /\ Types' /\ Conserved' /\ Balanced' /\ Mapped' /\ Listed' /\ Matched'
         /\ Ages /\ NoneDue /\ Only(t) /\ thread'[t].pc # "count"
         /\ KeepsCounts => Good'
<1>1. LspOk /\ InfosOk /\ Matched
  BY GoodIs
<1>2. SocketsStay /\ LeaksOk /\ (KeepsCounts => CountsStay)
  BY <1>1, AltersOk
<1>3. /\ Stays(t) /\ thread'[t].pc # "count" /\ ThreadOk(t, thread'[t]) /\ ThreadMatched(thread'[t])
      /\ \A d \in Infos : Held(thread'[t], d) = Held(thread[t], d)
  BY ExitThread
<1>4. Refs(t)
  BY <1>1, <1>3, RefsKeptOk
<1>5. /\ Types' /\ Conserved' /\ Balanced' /\ Mapped' /\ Listed' /\ Matched'
      /\ Ages /\ NoneDue /\ Only(t)
  BY <1>2, <1>3, <1>4, CallStepMost
<1>6. ASSUME KeepsCounts PROVE Good'
  BY <1>2, <1>3, <1>4, <1>6, CallStep
<1>7. QED
  BY <1>3, <1>5, <1>6

LEMMA InfoSameOk ==
  ASSUME InfosOk, info' = info
  PROVE  Alters /\ KeepsCounts /\ RefsKept
BY InfoSame DEF RefsKept

LEMMA NoNewSocketOk == ASSUME Good, NEW t \in Threads, NoNewSocket(t) PROVE Good'
<1>1. /\ thread[t].pc \in Calls \ {"setsockopt"} /\ Exit(t) /\ lsp' = lsp /\ info' = info
      /\ UNCHANGED structures /\ list' = list /\ handle' = handle
  BY DEF NoNewSocket, Calls, sockets
<1>2. Alters /\ KeepsCounts /\ RefsKept /\ LspStep /\ lsp'.leaked = lsp.leaked /\ lsp'.kept = lsp.kept
  BY <1>1, GoodIs, InfoSameOk, LspSame
<1>3. QED
  BY <1>1, <1>2, ExitOk

LEMMA MarkOk ==
  ASSUME InfosOk, NEW c \in Infos, NEW v,
         \/ info' = [info EXCEPT ![c].selected = v]
         \/ info' = [info EXCEPT ![c].hIocp = v]
         \/ info' = [info EXCEPT ![c].dwOutstandingAsync = v]
  PROVE  Alters /\ KeepsCounts /\ RefsKept
BY DEF InfosOk, InfoOk, InfoFields, Alters, KeepsCounts, RefsKept

LEMMA AsyncSelectLowerOk ==
  ASSUME Good, NEW t \in Threads, AsyncSelectLower(t), lsp'.health = "ok"
  PROVE  Good'
<1>1. /\ LspOk /\ ThreadsOk /\ InfosOk
      /\ ~Wild
  BY GoodIs, NotOver
<1>2. /\ thread[t].pc = "window" /\ thread[t].pc \in Calls \ {"setsockopt"} /\ Exit(t) /\ lsp' = lsp
      /\ info' = [info EXCEPT ![thread[t].ctx].selected = lsp.window = "up"]
      /\ UNCHANGED structures /\ list' = list /\ handle' = handle
  BY <1>1 DEF AsyncSelectLower, At, Calls
<1>3. Alters /\ KeepsCounts /\ RefsKept
  BY <1>1, <1>2, CallThread, MarkOk
<1>4. LspStep /\ lsp'.leaked = lsp.leaked /\ lsp'.kept = lsp.kept
  BY <1>1, <1>2, LspSame
<1>5. QED
  BY <1>2, <1>3, <1>4, ExitOk

(* A thread goes on, with the same references.                             *)
LEMMA GoesStep ==
  ASSUME Good, NEW t \in Threads, NEW p, NEW n, Only(t),
         LET r == thread[t] IN Is(thread'[t], p, r.s, r.ctx, r.acc, r.a, r.inner, r.ol, r.op, n),
         thread[t].pc \notin {"select", "setsockopt"},
         p \notin {"select", "setsockopt", "count", "complete", "account"},
         ThreadOk(t, thread'[t]), UNCHANGED structures, list' = list, handle' = handle,
         Alters, RefsKept, KeepsCounts, LspStep, lsp'.leaked = lsp.leaked /\ lsp'.kept = lsp.kept
  PROVE  Good'
<1>1. /\ LspOk /\ ThreadsOk /\ OlsOk /\ QueuesOk /\ InfosOk
      /\ Conserved /\ Balanced /\ Mapped /\ Listed /\ Matched /\ Accounted
  BY GoodIs
<1>2. SocketsStay /\ LeaksOk /\ CountsStay
  BY <1>1, AltersOk
<1>3. Stays(t) /\ thread'[t].pc # "count"
  BY DEF Stays, Is
<1>4. Refs(t)
  <2>1. \A d \in Infos : Held(thread'[t], d) = Held(thread[t], d)
    BY DEF Held, Is
  <2>2. QED
    BY <1>1, <2>1, RefsKeptOk
<1>5. ThreadMatched(thread'[t])
  <2>1. ThreadMatched(thread[t])
    BY <1>1, ThreadIs
  <2>2. QED
    BY <2>1 DEF ThreadMatched, Is
<1>6. QED
  BY <1>2, <1>3, <1>4, <1>5, CallStep

LEMMA GotoStep ==
  ASSUME Good, NEW t \in Threads, NEW p, Goto(t, p),
         thread[t].pc \notin {"select", "setsockopt"},
         p \notin {"select", "setsockopt", "count", "complete", "account"},
         ThreadOk(t, thread'[t]), UNCHANGED structures, list' = list, handle' = handle,
         Alters, RefsKept, KeepsCounts, LspStep, lsp'.leaked = lsp.leaked /\ lsp'.kept = lsp.kept
  PROVE  Good'
<1>1. ThreadsOk
  BY GoodIs
<1>2. /\ Only(t)
      /\ LET r == thread[t] IN Is(thread'[t], p, r.s, r.ctx, r.acc, r.a, r.inner, r.ol, r.op, r.n)
  BY <1>1, GotoIs
<1>3. QED
  BY <1>2, GoesStep

LEMMA LspFaultGlobal ==
  ASSUME LspOk, NEW g, \/ lsp' = [Fault EXCEPT !.global = g]
                       \/ lsp' = [Fault EXCEPT !.gEntryCount = 1, !.global = g]
                       \/ lsp' = [lsp EXCEPT !.window = g]
                       \/ lsp' = [lsp EXCEPT !.proc = g]
                       \/ lsp' = [lsp EXCEPT !.gEntryCount = g]
                       \/ lsp' = [lsp EXCEPT !.gEntryCount = g, !.calls = @ - 1]
  PROVE  LspStep /\ lsp'.leaked = lsp.leaked /\ lsp'.kept = lsp.kept
<1> DEFINE Same == /\ DOMAIN lsp' = LspFields /\ lsp'.leaked = lsp.leaked /\ lsp'.kept = lsp.kept
                   /\ lsp'.gBaseInfo = lsp.gBaseInfo
                   /\ lsp'.faults \in {lsp.faults, lsp.faults - 1}
<1>0. DOMAIN lsp = LspFields
  BY DEF LspOk
<1>1. CASE lsp' = [Fault EXCEPT !.global = g]
  <2>1. Same
    BY <1>0, <1>1 DEF Fault, LspFields
  <2>2. QED
    BY <2>1, LspAssumption DEF LspOk, LspStep
<1>2. CASE lsp' = [Fault EXCEPT !.gEntryCount = 1, !.global = g]
  <2>1. Same
    BY <1>0, <1>2 DEF Fault, LspFields
  <2>2. QED
    BY <2>1, LspAssumption DEF LspOk, LspStep
<1>3. CASE \/ lsp' = [lsp EXCEPT !.window = g] \/ lsp' = [lsp EXCEPT !.proc = g]
  <2>1. Same
    BY <1>0, <1>3 DEF LspFields
  <2>2. QED
    BY <2>1, LspAssumption DEF LspOk, LspStep
<1>4. CASE \/ lsp' = [lsp EXCEPT !.gEntryCount = g]
           \/ lsp' = [lsp EXCEPT !.gEntryCount = g, !.calls = @ - 1]
  <2>1. Same
    BY <1>0, <1>4 DEF LspFields
  <2>2. QED
    BY <2>1, LspAssumption DEF LspOk, LspStep
<1>5. QED
  BY <1>1, <1>2, <1>3, <1>4

LEMMA GetWorkerWindowOk ==
  ASSUME Good, NEW t \in Threads, GetWorkerWindow(t)
  PROVE  Good'
<1>1. /\ LspOk /\ ThreadsOk /\ OlsOk /\ QueuesOk /\ InfosOk
      /\ Conserved /\ Balanced /\ Mapped /\ Listed /\ Matched /\ Accounted
  BY GoodIs
<1>2. /\ thread[t].pc = "window" /\ thread[t].pc \in Calls \ {"setsockopt"} /\ info' = info
      /\ UNCHANGED structures /\ list' = list /\ handle' = handle
      /\ UNCHANGED <<structures, sockets>>
  BY DEF GetWorkerWindow, At, Calls, sockets
<1>3. Alters /\ KeepsCounts /\ RefsKept
  BY <1>1, <1>2, InfoSameOk
<1>4. CASE lsp' = [lsp EXCEPT !.window = "up"] /\ UNCHANGED thread
  <2>1. LspStep /\ lsp'.leaked = lsp.leaked /\ lsp'.kept = lsp.kept
    BY <1>1, <1>4, LspFaultGlobal
  <2>2. QED
    BY <1>2, <1>4, <2>1, QuietStep
<1>5. CASE lsp' = Fault /\ Exit(t)
  <2>1. LspStep /\ lsp'.leaked = lsp.leaked /\ lsp'.kept = lsp.kept
    BY <1>1, <1>5, LspFault
  <2>2. QED
    BY <1>2, <1>3, <1>5, <2>1, ExitOk
<1>6. CASE lsp' = [Fault EXCEPT !.global = t] /\ Goto(t, "spin")
  <2>1. LspStep /\ lsp'.leaked = lsp.leaked /\ lsp'.kept = lsp.kept
    BY <1>1, <1>6, LspFaultGlobal
  <2>2. LET r == thread[t] IN Is(thread'[t], "spin", r.s, r.ctx, r.acc, r.a, r.inner, r.ol, r.op, r.n)
    BY <1>1, <1>6, GotoIs
  <2>3. /\ t \in Apps /\ thread[t].ctx \in Infos /\ thread[t].inner = NoInfo /\ thread[t].ol = NoOl
        /\ thread[t].acc \in Infos \cup {NoInfo} /\ thread[t].n \in Int
        /\ thread[t].s \in Handles \cup {NoHandle} /\ thread[t].a \in Handles \cup {NoHandle}
    BY <1>1, <1>2, CallThread
  <2>4. ThreadOk(t, thread'[t])
    <3>1. CallFits("spin", thread[t].s, thread[t].acc, thread[t].a, thread[t].op)
      BY <2>3 DEF CallFits, Calls
    <3>2. QED
      BY <2>2, <2>3, <3>1, CallThreadOk
  <2>5. QED
    BY <1>2, <1>3, <1>6, <2>1, <2>4, GotoStep
<1>7. QED
  BY <1>4, <1>5, <1>6 DEF GetWorkerWindow

LEMMA SetSockOptLeaks ==
  ASSUME Good, NEW t \in Threads, thread[t].pc = "idle", NEW c \in Infos, Live(c),
         info' = [info EXCEPT ![c].RefCount = @ + 1],
         lsp' = [lsp EXCEPT !.calls = @ - 1, !.leaked[c] = @ + 1],
         thread' = thread, UNCHANGED structures, list' = list, handle' = handle
  PROVE  Good'
<1>1. /\ LspOk /\ ThreadsOk /\ OlsOk /\ QueuesOk /\ InfosOk
      /\ Conserved /\ Balanced /\ Mapped /\ Listed /\ Matched /\ Accounted
  BY GoodIs
<1>2. Alters /\ KeepsCounts /\ Plus(c, 1)
  BY <1>1, FindOk
<1>3. /\ DOMAIN lsp' = LspFields /\ lsp'.gBaseInfo = lsp.gBaseInfo /\ lsp'.faults = lsp.faults
      /\ DOMAIN lsp'.leaked = Infos
      /\ \A d \in Infos : lsp'.leaked[d] = lsp.leaked[d] + (IF d = c THEN 1 ELSE 0)
  BY <1>1 DEF LspOk, LspFields
<1>4. LspStep
  BY <1>1, <1>3 DEF LspOk, LspStep
<1>5. \A d \in Infos : StaysAs(info[d], info'[d]) /\ info'[d].state = info[d].state
  BY <1>1, <1>2 DEF InfosOk, InfoOk, Alters, StaysAs
<1>6. SocketsStay /\ CountsStay
  BY <1>2, <1>5 DEF SocketsStay, Alters, KeepsCounts, CountsStay, Live
<1>7. LeaksOk
  BY <1>1, <1>3, <1>5 DEF LeaksOk, Matched, Live
<1>8. ThreadOk(t, thread[t]) /\ ThreadMatched(thread[t]) /\ DOMAIN thread = Threads
  BY <1>1, ThreadIs
<1>9. Stays(t) /\ thread'[t].pc # "count" /\ ThreadOk(t, thread'[t]) /\ ThreadMatched(thread'[t])
  BY <1>8 DEF Stays, Only
<1>10. Refs(t)
  <2>1. \A d \in Infos : /\ info[d].RefCount \in Int /\ lsp.leaked[d] \in Int
                         /\ Held(thread'[t], d) = Held(thread[t], d) /\ Held(thread[t], d) \in Int
    BY <1>1, HeldInt DEF InfosOk, InfoOk, LspOk
  <2>2. \A d \in Infos : /\ info'[d].RefCount = info[d].RefCount + (IF d = c THEN 1 ELSE 0)
                         /\ Live(d)' => Live(d)
    BY <1>2, <1>5 DEF Plus, Live
  <2> HIDE DEF Held
  <2>3. QED
    BY <1>3, <2>1, <2>2 DEF Refs
<1>11. QED
  BY <1>4, <1>6, <1>7, <1>9, <1>10, CallStep

LEMMA SetSockOptOk ==
  ASSUME Good, NEW t \in Threads, NEW s \in Handles, NEW l \in Handles \cup {NoHandle},
         WSPSetSockOpt(t, s, l)
  PROVE  Good'
<1> DEFINE c == handle[s]
           d == IF l = NoHandle THEN c ELSE handle[l]
           q == [Idle EXCEPT !.pc = "setsockopt", !.ctx = c, !.acc = d]
<1>1. /\ LspOk /\ ThreadsOk /\ OlsOk /\ QueuesOk /\ InfosOk
      /\ Conserved /\ Balanced /\ Mapped /\ Listed /\ Matched /\ Accounted
  BY GoodIs
<1>2. /\ t \in Apps /\ thread[t].pc = "idle" /\ Known(s) /\ (l # NoHandle => ~Dangling(l))
      /\ info' = [info EXCEPT ![c].RefCount = @ + 1]
      /\ UNCHANGED structures /\ list' = list /\ handle' = handle
  BY DEF WSPSetSockOpt, Calling, At, FindAndLockSocketContext
<1>3. c \in Infos /\ Live(c) /\ info[c].state # "none"
  BY <1>1, <1>2, HandleLeads
<1>4. CASE d = NoInfo
  <2>1. lsp' = [lsp EXCEPT !.calls = @ - 1, !.leaked[c] = @ + 1] /\ thread' = thread
    BY <1>4 DEF WSPSetSockOpt
  <2>2. QED
    BY <1>2, <1>3, <2>1, SetSockOptLeaks
<1>5. CASE d # NoInfo
  <2>1. d \in Infos /\ info[d].state # "none"
    <3>1. CASE l = NoHandle
      BY <1>3, <3>1
    <3>2. CASE l # NoHandle
      <4>1. l \in Handles /\ Known(l)
        BY <1>2, <1>5, <3>2 DEF Known, Dangling
      <4>2. QED
        BY <1>1, <3>2, <4>1, HandleLeads
    <3>3. QED
      BY <3>1, <3>2
  <2>2. lsp' = [lsp EXCEPT !.calls = @ - 1] /\ thread' = [thread EXCEPT ![t] = q]
    BY <1>5 DEF WSPSetSockOpt
  <2>3. Only(t) /\ thread'[t] = q
    BY <1>1, <2>2, ReplacedIs, ThreadIs
  <2>4. Is(q, "setsockopt", NoHandle, c, d, NoHandle, NoInfo, NoOl, "none", 0)
    BY DEF Is, Idle, ThreadFields
  <2> HIDE DEF c, d, q
  <2>5. /\ thread[t].ctx = NoInfo /\ thread[t].acc = NoInfo /\ thread[t].inner = NoInfo /\ thread[t].ol = NoOl
        /\ \A e \in Infos : Held(thread[t], e) = 0
    BY <1>1, <1>2, IdleThread
  <2>6. LspStep /\ lsp'.leaked = lsp.leaked /\ lsp'.kept = lsp.kept
    BY <1>1, <2>2, LspCalls
  <2>7. Alters /\ KeepsCounts /\ Plus(c, 1)
    BY <1>1, <1>2, <1>3, FindOk
  <2>8. SocketsStay /\ LeaksOk /\ CountsStay
    BY <1>1, <1>2, <2>6, <2>7, AltersOk
  <2>9. Stays(t) /\ thread'[t].pc # "count"
    BY <1>2, <2>3, <2>4, <2>5 DEF Stays, Is
  <2>10. ThreadOk(t, thread'[t])
    <3>1. CallFits("setsockopt", NoHandle, d, NoHandle, "none")
      BY <2>1, <1>5 DEF CallFits, Calls
    <3>2. QED
      BY <1>2, <1>3, <2>3, <2>4, <3>1, CallThreadOk
  <2>11. Refs(t)
    <3>1. \A e \in Infos : Held(thread'[t], e) = IF e = c THEN 1 ELSE 0
      BY <1>3, <2>3, <2>4, LspSocketsAssumption DEF Held, Is
    <3>2. \A e \in Infos : /\ info[e].RefCount \in Int /\ lsp.leaked[e] \in Int
                           /\ info'[e].RefCount = info[e].RefCount + (IF e = c THEN 1 ELSE 0)
                           /\ Live(e)' => Live(e)
      BY <1>1, <2>7 DEF InfosOk, InfoOk, LspOk, Plus, Alters, Live
    <3>3. QED
      BY <2>5, <2>6, <3>1, <3>2 DEF Refs
  <2>12. ThreadMatched(thread'[t])
    BY <1>3, <2>1, <2>3, <2>4, LspSocketsAssumption DEF ThreadMatched, Is
  <2>13. QED
    BY <2>6, <2>8, <2>9, <2>10, <2>11, <2>12, CallStep
<1>6. QED
  BY <1>4, <1>5

LEMMA UpdateAcceptContextOk ==
  ASSUME Good, NEW t \in Threads, UpdateAcceptContext(t), lsp'.health = "ok"
  PROVE  Good'
<1> DEFINE q == [Leaving(t) EXCEPT !.acc = NoInfo]
<1>1. /\ LspOk /\ ThreadsOk /\ OlsOk /\ QueuesOk /\ InfosOk
      /\ Conserved /\ Balanced /\ Mapped /\ Listed /\ Matched /\ Accounted
      /\ ~Wild
  BY GoodIs, NotOver
<1>2. /\ thread[t].pc = "setsockopt" /\ thread[t].pc \in Calls
      /\ thread' = [thread EXCEPT ![t] = q] /\ lsp' = lsp /\ info' = info
      /\ UNCHANGED structures /\ list' = list /\ handle' = handle
  BY <1>1 DEF UpdateAcceptContext, At, Calls, sockets
<1>3. Only(t) /\ thread'[t] = q
  BY <1>1, <1>2, ReplacedIs, ThreadIs
<1>4. Is(q, "leave", NoHandle, thread[t].ctx, NoInfo, NoHandle, NoInfo, NoOl, "none", 0)
  BY DEF Is, Leaving, Idle, ThreadFields
<1> HIDE DEF q
<1>5. /\ t \in Apps /\ thread[t].ctx \in Infos /\ thread[t].inner = NoInfo /\ thread[t].ol = NoOl
  BY <1>1, <1>2, CallThread
<1>6. Alters /\ KeepsCounts /\ RefsKept /\ LspStep /\ lsp'.leaked = lsp.leaked /\ lsp'.kept = lsp.kept
  BY <1>1, <1>2, InfoSameOk, LspSame
<1>7. SocketsStay /\ LeaksOk /\ CountsStay
  BY <1>1, <1>2, <1>6, AltersOk
<1>8. Stays(t) /\ thread'[t].pc # "count"
  BY <1>2, <1>3, <1>4, <1>5 DEF Stays, Is
<1>9. ThreadOk(t, thread'[t])
  <2>1. CallFits("leave", NoHandle, NoInfo, NoHandle, "none")
    BY DEF CallFits, Calls
  <2>2. QED
    BY <1>3, <1>4, <1>5, <2>1, CallThreadOk
<1>10. Refs(t)
  <2>1. \A d \in Infos : Held(thread'[t], d) = Held(thread[t], d)
    BY <1>2, <1>3, <1>4, <1>5, LspSocketsAssumption DEF Held, Is
  <2>2. QED
    BY <1>1, <1>6, <2>1, RefsKeptOk
<1>11. ThreadMatched(thread'[t])
  <2>1. ThreadMatched(thread[t])
    BY <1>1, ThreadIs
  <2>2. QED
    BY <1>3, <1>4, <1>5, <2>1, LspSocketsAssumption DEF ThreadMatched, Is
<1>12. QED
  BY <1>6, <1>7, <1>8, <1>9, <1>10, <1>11, CallStep

LEMMA SelectOk ==
  ASSUME Good, NEW t \in Threads, NEW s \in Handles, WSPSelect(t, s)
  PROVE  Good'
<1> DEFINE c == handle[s]
           q == [Idle EXCEPT !.pc = "select", !.acc = c]
<1>1. /\ LspOk /\ ThreadsOk /\ OlsOk /\ QueuesOk /\ InfosOk
      /\ Conserved /\ Balanced /\ Mapped /\ Listed /\ Matched /\ Accounted
  BY GoodIs
<1>2. /\ t \in Apps /\ thread[t].pc = "idle" /\ Known(s) /\ info' = info
      /\ thread' = [thread EXCEPT ![t] = q] /\ lsp' = [lsp EXCEPT !.calls = @ - 1]
      /\ UNCHANGED structures /\ list' = list /\ handle' = handle
  BY DEF WSPSelect, Calling, At, sockets
<1>3. c \in Infos /\ Live(c) /\ info[c].state # "none"
  BY <1>1, <1>2, HandleLeads
<1>4. Only(t) /\ thread'[t] = q
  BY <1>1, <1>2, ReplacedIs, ThreadIs
<1>5. Is(q, "select", NoHandle, NoInfo, c, NoHandle, NoInfo, NoOl, "none", 0)
  BY DEF Is, Idle, ThreadFields
<1> HIDE DEF c, q
<1>6. /\ thread[t].ctx = NoInfo /\ thread[t].acc = NoInfo /\ thread[t].inner = NoInfo /\ thread[t].ol = NoOl
      /\ \A d \in Infos : Held(thread[t], d) = 0
  BY <1>1, <1>2, IdleThread
<1>7. LspStep /\ lsp'.leaked = lsp.leaked /\ lsp'.kept = lsp.kept /\ Alters /\ KeepsCounts /\ RefsKept
  BY <1>1, <1>2, LspCalls, InfoSameOk
<1>8. SocketsStay /\ LeaksOk /\ CountsStay
  BY <1>1, <1>2, <1>7, AltersOk
<1>9. Stays(t) /\ thread'[t].pc # "count"
  BY <1>2, <1>4, <1>5, <1>6 DEF Stays, Is
<1>10. ThreadOk(t, thread'[t])
  <2>1. "select" \in Alone /\ "select" \notin Working /\ "select" \notin Inner
    BY PcsDiffer DEF Alone
  <2>2. QED
    BY <1>2, <1>3, <1>4, <1>5, <2>1, LspSocketsAssumption DEF ThreadOk, Is
<1>11. Refs(t)
  <2>1. \A d \in Infos : Held(thread'[t], d) = Held(thread[t], d)
    BY <1>4, <1>5, <1>6, LspSocketsAssumption DEF Held, Is
  <2>2. QED
    BY <1>1, <1>7, <2>1, RefsKeptOk
<1>12. ThreadMatched(thread'[t])
  BY <1>3, <1>4, <1>5, LspSocketsAssumption DEF ThreadMatched, Is
<1>13. QED
  BY <1>7, <1>8, <1>9, <1>10, <1>11, <1>12, CallStep

(* A thread that has only looked at a structure is done.                   *)
LEMMA SelectLowerOk ==
  ASSUME Good, NEW t \in Threads, SelectLower(t), lsp'.health = "ok"
  PROVE  Good'
<1>1. /\ LspOk /\ ThreadsOk /\ OlsOk /\ QueuesOk /\ InfosOk
      /\ Conserved /\ Balanced /\ Mapped /\ Listed /\ Matched /\ Accounted
      /\ ~Wild
  BY GoodIs, NotOver
<1>2. /\ thread[t].pc = "select" /\ Return(t) /\ lsp' = lsp /\ info' = info
      /\ UNCHANGED structures /\ list' = list /\ handle' = handle
  BY <1>1 DEF SelectLower, At, sockets
<1>3. /\ Only(t)
      /\ Is(thread'[t], "idle", NoHandle, NoInfo, NoInfo, NoHandle, NoInfo, NoOl, "none", 0)
  BY <1>1, <1>2, ReturnIs, ThreadIs
<1>4. ThreadOk(t, thread[t]) /\ thread[t].pc \in Alone
  BY <1>1, <1>2, ThreadIs DEF Alone
<1>5. thread[t].ctx = NoInfo /\ thread[t].inner = NoInfo /\ thread[t].ol = NoOl
  BY <1>4, PcsDiffer DEF ThreadOk
<1>6. LspStep /\ lsp'.leaked = lsp.leaked /\ lsp'.kept = lsp.kept /\ Alters /\ KeepsCounts /\ RefsKept
  BY <1>1, <1>2, LspSame, InfoSameOk
<1>7. SocketsStay /\ LeaksOk /\ CountsStay
  BY <1>1, <1>2, <1>6, AltersOk
<1>8. Stays(t) /\ thread'[t].pc # "count"
  BY <1>2, <1>3, <1>5 DEF Stays, Is
<1>9. ThreadOk(t, thread'[t])
  <2>1. "idle" \in Alone /\ "idle" \notin Working /\ "idle" \notin Inner
    BY PcsDiffer DEF Alone
  <2>2. QED
    BY <1>3, <2>1, LspSocketsAssumption DEF ThreadOk, Is
<1>10. Refs(t)
  <2>1. \A d \in Infos : Held(thread'[t], d) = Held(thread[t], d)
    BY <1>2, <1>3, <1>5, LspSocketsAssumption DEF Held, Is
  <2>2. QED
    BY <1>1, <1>6, <2>1, RefsKeptOk
<1>11. ThreadMatched(thread'[t])
  BY <1>3, LspSocketsAssumption DEF ThreadMatched, Is
<1>12. QED
  BY <1>6, <1>7, <1>8, <1>9, <1>10, <1>11, CallStep

LEMMA AsyncSelectOk ==
  ASSUME Good, NEW t \in Threads, NEW s \in Handles, WSPAsyncSelect(t, s)
  PROVE  Good'
<1> DEFINE c == handle[s]
           q == [Idle EXCEPT !.pc = "window", !.ctx = c]
<1>1. /\ LspOk /\ ThreadsOk /\ OlsOk /\ QueuesOk /\ InfosOk
      /\ Conserved /\ Balanced /\ Mapped /\ Listed /\ Matched /\ Accounted
  BY GoodIs
<1>2. /\ t \in Apps /\ thread[t].pc = "idle" /\ Known(s)
      /\ info' = [[info EXCEPT ![c].RefCount = @ + 1] EXCEPT ![c].hWnd = TRUE]
      /\ thread' = [thread EXCEPT ![t] = q] /\ lsp' = [lsp EXCEPT !.calls = @ - 1]
      /\ UNCHANGED structures /\ list' = list /\ handle' = handle
  BY DEF WSPAsyncSelect, Calling, At, FindAndLockSocketContext
<1>3. c \in Infos /\ Live(c) /\ info[c].state # "none"
  BY <1>1, <1>2, HandleLeads
<1>4. Only(t) /\ thread'[t] = q
  BY <1>1, <1>2, ReplacedIs, ThreadIs
<1>5. Is(q, "window", NoHandle, c, NoInfo, NoHandle, NoInfo, NoOl, "none", 0)
  BY DEF Is, Idle, ThreadFields
<1> HIDE DEF c, q
<1>6. /\ thread[t].ctx = NoInfo /\ thread[t].acc = NoInfo /\ thread[t].inner = NoInfo /\ thread[t].ol = NoOl
      /\ \A d \in Infos : Held(thread[t], d) = 0
  BY <1>1, <1>2, IdleThread
<1>7. LspStep /\ lsp'.leaked = lsp.leaked /\ lsp'.kept = lsp.kept
  BY <1>1, <1>2, LspCalls
<1>8. Alters /\ KeepsCounts /\ Plus(c, 1)
  BY <1>1, <1>2, <1>3 DEF InfosOk, InfoOk, InfoFields, Alters, KeepsCounts, Plus
<1>9. SocketsStay /\ LeaksOk /\ CountsStay
  BY <1>1, <1>2, <1>7, <1>8, AltersOk
<1>10. Stays(t) /\ thread'[t].pc # "count"
  BY <1>2, <1>4, <1>5, <1>6 DEF Stays, Is
<1>11. ThreadOk(t, thread'[t])
  <2>1. CallFits("window", NoHandle, NoInfo, NoHandle, "none")
    BY DEF CallFits, Calls
  <2>2. QED
    BY <1>2, <1>3, <1>4, <1>5, <2>1, CallThreadOk
<1>12. Refs(t)
  <2>1. \A d \in Infos : Held(thread'[t], d) = IF d = c THEN 1 ELSE 0
    BY <1>3, <1>4, <1>5, LspSocketsAssumption DEF Held, Is
  <2>2. \A d \in Infos : /\ info[d].RefCount \in Int /\ lsp.leaked[d] \in Int
                         /\ info'[d].RefCount = info[d].RefCount + (IF d = c THEN 1 ELSE 0)
                         /\ Live(d)' => Live(d)
    BY <1>1, <1>8 DEF InfosOk, InfoOk, LspOk, Plus, Alters, Live
  <2>3. QED
    BY <1>6, <1>7, <2>1, <2>2 DEF Refs
<1>13. ThreadMatched(thread'[t])
  BY <1>3, <1>4, <1>5, LspSocketsAssumption DEF ThreadMatched, Is
<1>14. QED
  BY <1>7, <1>9, <1>10, <1>11, <1>12, <1>13, CallStep

LEMMA AcceptExOk ==
  ASSUME Good, NEW t \in Threads, NEW s \in Handles, NEW a \in Handles, NEW r, ExtAcceptEx(t, s, a, r)
  PROVE  Good'
<1> DEFINE c == handle[s]
           d == handle[a]
           q == [Idle EXCEPT !.pc = "get", !.s = s, !.ctx = c, !.a = a, !.acc = d, !.op = "acceptex", !.req = r]
<1>1. /\ LspOk /\ ThreadsOk /\ OlsOk /\ QueuesOk /\ InfosOk
      /\ Conserved /\ Balanced /\ Mapped /\ Listed /\ Matched /\ Accounted
  BY GoodIs
<1>2. /\ t \in Apps /\ thread[t].pc = "idle" /\ Known(s) /\ Known(a) /\ s # a
      /\ info' = [info EXCEPT ![c].RefCount = @ + 1, ![d].RefCount = @ + 1]
      /\ thread' = [thread EXCEPT ![t] = q] /\ lsp' = [lsp EXCEPT !.calls = @ - 1]
      /\ UNCHANGED structures /\ list' = list /\ handle' = handle
  BY DEF ExtAcceptEx, Calling, At
<1>3. /\ c \in Infos /\ Live(c) /\ info[c].state # "none" /\ Named(c, s)
      /\ d \in Infos /\ Live(d) /\ info[d].state # "none" /\ Named(d, a)
  BY <1>1, <1>2, HandleLeads
<1>4. c # d
  BY <1>2, <1>3 DEF Named
<1>5. Only(t) /\ thread'[t] = q
  BY <1>1, <1>2, ReplacedIs, ThreadIs
<1>6. Is(q, "get", s, c, d, a, NoInfo, NoOl, "acceptex", 0)
  BY DEF Is, Idle, ThreadFields
<1> HIDE DEF c, d, q
<1>7. /\ thread[t].ctx = NoInfo /\ thread[t].acc = NoInfo /\ thread[t].inner = NoInfo /\ thread[t].ol = NoOl
      /\ \A e \in Infos : Held(thread[t], e) = 0
  BY <1>1, <1>2, IdleThread
<1>8. LspStep /\ lsp'.leaked = lsp.leaked /\ lsp'.kept = lsp.kept
  BY <1>1, <1>2, LspCalls
<1>9. /\ Alters /\ KeepsCounts
      /\ \A e \in Infos : info'[e].RefCount = info[e].RefCount + (IF e \in {c, d} THEN 1 ELSE 0)
  BY <1>1, <1>2, <1>3, <1>4 DEF InfosOk, InfoOk, InfoFields, Alters, KeepsCounts
<1>10. SocketsStay /\ LeaksOk /\ CountsStay
  BY <1>1, <1>2, <1>8, <1>9, AltersOk
<1>11. Stays(t) /\ thread'[t].pc # "count"
  BY <1>2, <1>5, <1>6, <1>7 DEF Stays, Is
<1>12. ThreadOk(t, thread'[t])
  <2>1. CallFits("get", s, d, a, "acceptex")
    BY <1>3, LspSocketsAssumption DEF CallFits, Calls, Requested
  <2>2. QED
    BY <1>2, <1>3, <1>5, <1>6, <2>1, CallThreadOk
<1>13. Refs(t)
  <2>1. \A e \in Infos : Held(thread'[t], e) = IF e \in {c, d} THEN 1 ELSE 0
    BY <1>3, <1>4, <1>5, <1>6, LspSocketsAssumption DEF Held, Is
  <2>2. \A e \in Infos : /\ info[e].RefCount \in Int /\ lsp.leaked[e] \in Int
                         /\ Live(e)' => Live(e)
    BY <1>1, <1>9 DEF InfosOk, InfoOk, LspOk, Alters, Live
  <2>3. QED
    BY <1>7, <1>8, <1>9, <2>1, <2>2 DEF Refs
<1>14. ThreadMatched(thread'[t])
  BY <1>3, <1>5, <1>6, LspSocketsAssumption DEF ThreadMatched, Is
<1>15. QED
  BY <1>8, <1>10, <1>11, <1>12, <1>13, <1>14, CallStep

LEMMA MarkClosingOk ==
  ASSUME InfosOk, NEW c \in Infos, NEW o, NEW b, NEW v \in {info[c].ProviderSocket, "invalid"},
         info' = [info EXCEPT ![c].owner = o, ![c].bClosing = b, ![c].ProviderSocket = v]
  PROVE  Alters /\ KeepsCounts /\ RefsKept
BY DEF InfosOk, InfoOk, InfoFields, Alters, KeepsCounts, RefsKept

LEMMA CloseProviderOk ==
  ASSUME Good, NEW t \in Threads, CloseProvider(t), lsp'.health = "ok"
  PROVE  Good'
<1> DEFINE c == thread[t].ctx
<1>1. /\ LspOk /\ ThreadsOk /\ OlsOk /\ QueuesOk /\ InfosOk
      /\ Conserved /\ Balanced /\ Mapped /\ Listed /\ Matched /\ Accounted
      /\ ~Wild
  BY GoodIs, NotOver
<1>2. PICK failed \in BOOLEAN :
        /\ info' = [info EXCEPT ![c].owner = t, ![c].bClosing = @ \/ Busy(c),
                                ![c].ProviderSocket = IF failed THEN @ ELSE "invalid"]
        /\ IF Busy(c) \/ failed THEN Exit(t)
           ELSE thread' = [thread EXCEPT ![t].pc = "closed", ![t].n = IF info[c].owner = t THEN 1 ELSE 0]
        /\ lsp' \in {Fault, lsp}
  <2>1. LowerFails(c) \in SUBSET BOOLEAN
    BY DEF LowerFails
  <2>2. QED
    BY <1>1, <2>1 DEF CloseProvider
<1>3. /\ thread[t].pc = "close" /\ thread[t].pc \in Calls \ {"setsockopt"}
      /\ UNCHANGED structures /\ list' = list /\ handle' = handle
  BY <1>1 DEF CloseProvider, At, Calls
<1>4. LspStep /\ lsp'.leaked = lsp.leaked /\ lsp'.kept = lsp.kept
  BY <1>1, <1>2, LspFault, LspSame
<1>5. /\ t \in Apps /\ thread[t].ctx \in Infos /\ thread[t].inner = NoInfo /\ thread[t].ol = NoOl
      /\ thread[t].s \in Handles \cup {NoHandle} /\ thread[t].a \in Handles \cup {NoHandle}
      /\ thread[t].n \in Int /\ thread[t].s # NoHandle /\ thread[t].acc = NoInfo
  BY <1>1, <1>3, CallThread DEF ThreadsOk, ThreadOk
<1>6. Alters /\ KeepsCounts /\ RefsKept
  <2>1. \E b : \E v \in {info[c].ProviderSocket, "invalid"} :
          info' = [info EXCEPT ![c].owner = t, ![c].bClosing = b, ![c].ProviderSocket = v]
    <3>1. CASE failed
      BY <1>2, <3>1, Zenon
    <3>2. CASE ~failed
      BY <1>2, <3>2
    <3>3. QED
      BY <3>1, <3>2
  <2>2. PICK b : \E v \in {info[c].ProviderSocket, "invalid"} :
          info' = [info EXCEPT ![c].owner = t, ![c].bClosing = b, ![c].ProviderSocket = v]
    BY <2>1
  <2>3. PICK v \in {info[c].ProviderSocket, "invalid"} :
          info' = [info EXCEPT ![c].owner = t, ![c].bClosing = b, ![c].ProviderSocket = v]
    BY <2>2
  <2>4. c \in Infos
    BY <1>5
  <2> HIDE DEF c
  <2>5. QED
    BY <1>1, <2>3, <2>4, MarkClosingOk
<1>7. CASE Exit(t)
  BY <1>3, <1>4, <1>6, <1>7, ExitOk
<1> DEFINE n == IF info[c].owner = t THEN 1 ELSE 0
<1>8. CASE thread' = [thread EXCEPT ![t].pc = "closed", ![t].n = n]
  <2>1. /\ Only(t) /\ n \in Int
        /\ LET r == thread[t] IN Is(thread'[t], "closed", r.s, r.ctx, r.acc, r.a, r.inner, r.ol, r.op, n)
    <3>1. n \in Int
      OBVIOUS
    <3>2. DOMAIN thread = Threads /\ DOMAIN thread[t] = ThreadFields
      BY <1>1 DEF ThreadsOk, ThreadOk
    <3> HIDE DEF n
    <3>3. QED
      BY <1>8, <3>1, <3>2 DEF Is, ThreadFields, Only
  <2> HIDE DEF n
  <2>2. ThreadOk(t, thread'[t])
    <3>1. CallFits("closed", thread[t].s, thread[t].acc, thread[t].a, thread[t].op)
      BY <1>5 DEF CallFits, Calls
    <3>2. QED
      BY <1>5, <2>1, <3>1, CallThreadOk
  <2>3. QED
    BY <1>3, <1>4, <1>6, <2>1, <2>2, GoesStep
<1>9. QED
  BY <1>2, <1>7, <1>8

LEMMA StopOverlappedManagerOk ==
  ASSUME Good, NEW t \in Threads, StopOverlappedManager(t)
  PROVE  Good'
<1>1. /\ LspOk /\ ThreadsOk /\ InfosOk
  BY GoodIs
<1>2. /\ thread[t].pc = "stopping" /\ Goto(t, "freeing") /\ lsp' = lsp /\ info' = info
      /\ UNCHANGED structures /\ list' = list /\ handle' = handle
  BY DEF StopOverlappedManager, At, sockets
<1>3. Alters /\ KeepsCounts /\ RefsKept /\ LspStep /\ lsp'.leaked = lsp.leaked /\ lsp'.kept = lsp.kept
  BY <1>1, <1>2, InfoSameOk, LspSame
<1>4. ThreadOk(t, thread[t])
  BY <1>1 DEF ThreadsOk
<1>5. LET r == thread[t] IN Is(thread'[t], "freeing", r.s, r.ctx, r.acc, r.a, r.inner, r.ol, r.op, r.n)
  BY <1>1, <1>2, GotoIs
<1>6. ThreadOk(t, thread'[t])
  <2>1. /\ "stopping" \in Alone /\ "stopping" \notin Working /\ "stopping" \notin Inner
        /\ "freeing" \in Alone /\ "freeing" \notin Working /\ "freeing" \notin Inner
    BY PcsDiffer DEF Alone
  <2>2. t \in Apps
    BY <1>2, <1>4, <2>1 DEF ThreadOk
  <2>3. QED
    BY <1>2, <1>4, <1>5, <2>1, <2>2 DEF ThreadOk, Is
<1>7. QED
  BY <1>2, <1>3, <1>6, GotoStep

LEMMA NotifyOk ==
  ASSUME Good, NEW t \in Threads, Notify(t)
  PROVE  Good'
<1>1. /\ LspOk /\ ThreadsOk /\ InfosOk
  BY GoodIs
<1>2. /\ thread[t].pc = "notify" /\ Goto(t, "check") /\ lsp' = lsp /\ info' = info
      /\ UNCHANGED structures /\ list' = list /\ handle' = handle
  BY DEF Notify, At, sockets
<1>3. Alters /\ KeepsCounts /\ RefsKept /\ LspStep /\ lsp'.leaked = lsp.leaked /\ lsp'.kept = lsp.kept
  BY <1>1, <1>2, InfoSameOk, LspSame
<1>4. ThreadOk(t, thread[t])
  BY <1>1 DEF ThreadsOk
<1>5. LET r == thread[t] IN Is(thread'[t], "check", r.s, r.ctx, r.acc, r.a, r.inner, r.ol, r.op, r.n)
  BY <1>1, <1>2, GotoIs
<1>6. ThreadOk(t, thread'[t])
  <2>1. /\ "notify" \in Working \ {"queue"} /\ "notify" \notin Inner /\ "notify" \notin Alone
        /\ "check" \in Working \ {"queue"} /\ "check" \notin Inner /\ "check" \notin Alone
    BY DEF Working, Inner, Alone
  <2>2. QED
    BY <1>2, <1>4, <1>5, <2>1 DEF ThreadOk, Is
<1>7. QED
  BY <1>2, <1>3, <1>6, GotoStep

-------------------------------------------------------------------------------
(***************************************************************************)
(* Blocking transfers.                                                     *)
(***************************************************************************)
LEMMA CountingOk ==
  ASSUME Good, NEW t \in Threads, thread[t].pc = "transfer", NEW n \in Int,
         thread' = [thread EXCEPT ![t].pc = "count", ![t].n = n],
         UNCHANGED structures, list' = list, handle' = handle,
         Alters, RefsKept, lsp' = lsp
  PROVE  /\ Types' /\ Conserved' /\ Balanced' /\ Mapped' /\ Listed' /\ Matched'
         /\ Ages /\ NoneDue /\ Only(t)
         /\ thread'[t].ctx = thread[t].ctx /\ thread'[t].n = n
<1>1. /\ LspOk /\ ThreadsOk /\ OlsOk /\ QueuesOk /\ InfosOk
      /\ Conserved /\ Balanced /\ Mapped /\ Listed /\ Matched /\ Accounted
  BY GoodIs
<1>2. LspStep /\ lsp'.leaked = lsp.leaked /\ lsp'.kept = lsp.kept
  BY <1>1, LspSame
<1>3. ThreadOk(t, thread[t]) /\ ThreadMatched(thread[t]) /\ DOMAIN thread = Threads
  BY <1>1, ThreadIs
<1>4. /\ Only(t)
      /\ LET r == thread[t] IN Is(thread'[t], "count", r.s, r.ctx, r.acc, r.a, r.inner, r.ol, r.op, n)
  BY <1>3 DEF ThreadOk, ThreadFields, Only, Is
<1>5. SocketsStay /\ LeaksOk
  BY <1>1, <1>2, AltersOk
<1>6. Stays(t)
  BY <1>4 DEF Stays, Is
<1>7. ThreadOk(t, thread'[t])
  <2>1. /\ t \in Apps /\ thread[t].ctx \in Infos /\ thread[t].inner = NoInfo /\ thread[t].ol = NoOl
        /\ thread[t].acc \in Infos \cup {NoInfo}
        /\ thread[t].s \in Handles \cup {NoHandle} /\ thread[t].a \in Handles \cup {NoHandle}
    BY <1>1, CallThread DEF Calls
  <2>2. CallFits("count", thread[t].s, thread[t].acc, thread[t].a, thread[t].op)
    BY <2>1 DEF CallFits, Calls
  <2>3. QED
    BY <1>4, <2>1, <2>2, CallThreadOk
<1>8. Refs(t)
  <2>1. \A d \in Infos : Held(thread'[t], d) = Held(thread[t], d)
    BY <1>4 DEF Held, Is
  <2>2. QED
    BY <1>1, <1>2, <2>1, RefsKeptOk
<1>9. ThreadMatched(thread'[t])
  BY <1>3, <1>4 DEF ThreadMatched, Is
<1>10. /\ Types' /\ Conserved' /\ Balanced' /\ Mapped' /\ Listed' /\ Matched'
       /\ Ages /\ NoneDue /\ Only(t)
  BY <1>2, <1>5, <1>6, <1>7, <1>8, <1>9, CallStepMost
<1>11. QED
  BY <1>4, <1>10 DEF Is

\* What was accounted for a socket that is open after the step.
LEMMA AccountedOf ==
  ASSUME Accounted, Ages, NEW c \in Infos, NEW s \in Handles \cup {NoHandle}, Live(c),
         FirstOfHandle(c)', info'[c].given = s
  PROVE  info[c].given = s /\ CountedFor(c, s)
<1>1. info[c].state # "none" /\ info[c].given = s
  BY DEF Live, Ages
<1>2. FirstOfHandle(c)
  BY <1>1, FirstAges
<1>3. QED
  BY <1>1, <1>2 DEF Accounted

LEMMA TransferOk ==
  ASSUME Good, NEW t \in Threads, Transfer(t), lsp'.health = "ok"
  PROVE  Good'
<1> DEFINE c == thread[t].ctx
<1>1. /\ LspOk /\ ThreadsOk /\ OlsOk /\ QueuesOk /\ InfosOk
      /\ Conserved /\ Balanced /\ Mapped /\ Listed /\ Matched /\ Accounted
      /\ ~Wild
  BY GoodIs, NotOver
<1>2. thread[t].pc = "transfer" /\ thread[t].pc \in Calls \ {"setsockopt"}
  BY DEF Transfer, At, Calls
<1>3. c \in Infos
  BY <1>1, <1>2, CallThread
<1>4. CASE Exit(t) /\ UNCHANGED <<lsp, structures, user, sockets>>
  <2>1. lsp' = lsp /\ info' = info /\ UNCHANGED structures /\ list' = list /\ handle' = handle
    BY <1>4 DEF sockets
  <2>2. Alters /\ KeepsCounts /\ RefsKept /\ LspStep /\ lsp'.leaked = lsp.leaked /\ lsp'.kept = lsp.kept
    BY <1>1, <2>1, InfoSameOk, LspSame
  <2>3. QED
    BY <1>2, <1>4, <2>1, <2>2, ExitOk
<1>5. CASE /\ info' = [info EXCEPT ![c].moved = @ + 1]
           /\ thread' = [thread EXCEPT ![t].pc = "count", ![t].n = info[c].Bytes + 1]
           /\ UNCHANGED <<lsp, structures, user, list, handle>>
  <2> HIDE DEF c
  <2>1. info[c].Bytes \in Int /\ info[c].moved \in Int
    BY <1>1, <1>3 DEF InfosOk, InfoOk
  <2>2. /\ Alters /\ RefsKept
        /\ \A d \in Infos : info'[d].Bytes = info[d].Bytes
        /\ \A d \in Infos : d # c => info'[d].moved = info[d].moved
        /\ info'[c].moved = info[c].moved + 1
    BY <1>1, <1>3, <1>5 DEF InfosOk, InfoOk, InfoFields, Alters, RefsKept
  <2>3. info[c].Bytes + 1 \in Int
    BY <2>1
  <2>4. lsp' = lsp /\ UNCHANGED structures /\ list' = list /\ handle' = handle
    BY <1>5
  <2>5. /\ Types' /\ Conserved' /\ Balanced' /\ Mapped' /\ Listed' /\ Matched'
        /\ Ages /\ NoneDue /\ Only(t)
        /\ thread'[t].ctx = c /\ thread'[t].n = info[c].Bytes + 1
    BY <1>2, <1>5, <2>2, <2>3, <2>4, CountingOk DEF c
  <2>6. Accounted'
    <3> SUFFICES ASSUME NEW d \in Infos, NEW s \in Handles \cup {NoHandle},
                        Live(d)', FirstOfHandle(d)', info'[d].given = s
                 PROVE  CountedFor(d, s)'
      BY DEF Accounted
    <3>1. Live(d)
      BY <2>2 DEF Alters, Live
    <3>2. CountedFor(d, s)
      BY <1>1, <2>5, <3>1, AccountedOf
    <3> DEFINE due == Cardinality(Uncounted(s))
               next == Cardinality(Uncounted(s)')
               k == IF d = c THEN 1 ELSE 0
    <3>3. due \in Nat /\ next \in Nat /\ next <= due
      BY <2>5, UncountedFinite, UncountedShrinks
    <3>4. info[d].Bytes + due <= info[d].moved
      BY <3>2 DEF CountedFor
    <3>5. info[d].Bytes \in Int /\ info[d].moved \in Int /\ info'[d].Bytes = info[d].Bytes
          /\ info'[d].moved = info[d].moved + k /\ k \in Int /\ k >= 0
      BY <1>1, <2>2 DEF InfosOk, InfoOk
    <3> HIDE DEF due, next
    <3>6. /\ info'[d].Bytes + next <= info'[d].moved /\ next <= due + k
          /\ info'[d].moved \in Int /\ info'[d].moved >= info[d].moved + k
      <4> HIDE DEF k
      <4>1. QED
        BY <3>3, <3>4, <3>5
    <3>7. thread'[t].ctx = d => thread'[t].n + next <= info'[d].moved
      BY <2>1, <2>2, <2>5, <3>3, <3>4
    <3>8. \A u \in Threads : u # t => thread'[u] = thread[u]
      BY <2>5 DEF Only
    <3> HIDE DEF k
    <3>9. QED
      BY <1>1, <3>2, <3>5, <3>6, <3>7, <3>8, CountedForNext DEF due, next
  <2>7. QED
    BY <2>5, <2>6 DEF Good
<1>6. QED
  BY <1>1, <1>4, <1>5 DEF Transfer

LEMMA CountOk ==
  ASSUME Good, NEW t \in Threads, Count(t), lsp'.health = "ok"
  PROVE  Good'
<1> DEFINE c == thread[t].ctx
<1>1. /\ LspOk /\ ThreadsOk /\ OlsOk /\ QueuesOk /\ InfosOk
      /\ Conserved /\ Balanced /\ Mapped /\ Listed /\ Matched /\ Accounted
      /\ ~Wild
  BY GoodIs, NotOver
<1>2. /\ thread[t].pc = "count" /\ thread[t].pc \in Calls \ {"setsockopt"} /\ Exit(t)
      /\ info' = [info EXCEPT ![c].Bytes = thread[t].n]
      /\ lsp' = lsp /\ UNCHANGED structures /\ list' = list /\ handle' = handle
  BY <1>1 DEF Count, At, Calls
<1>3. c \in Infos /\ thread[t].n \in Int
  BY <1>1, <1>2, CallThread
<1> HIDE DEF c
<1>4. /\ Alters /\ RefsKept
      /\ \A d \in Infos : info'[d].moved = info[d].moved
      /\ \A d \in Infos : d # c => info'[d].Bytes = info[d].Bytes
      /\ info'[c].Bytes = thread[t].n
  BY <1>1, <1>2, <1>3 DEF InfosOk, InfoOk, InfoFields, Alters, RefsKept
<1>5. LspStep /\ lsp'.leaked = lsp.leaked /\ lsp'.kept = lsp.kept
  BY <1>1, <1>2, LspSame
<1>6. /\ Types' /\ Conserved' /\ Balanced' /\ Mapped' /\ Listed' /\ Matched'
      /\ Ages /\ NoneDue /\ Only(t) /\ thread'[t].pc # "count"
  BY <1>2, <1>4, <1>5, ExitOk
<1>7. Accounted'
  <2> SUFFICES ASSUME NEW d \in Infos, NEW s \in Handles \cup {NoHandle},
                      Live(d)', FirstOfHandle(d)', info'[d].given = s
               PROVE  CountedFor(d, s)'
    BY DEF Accounted
  <2>1. Live(d)
    BY <1>4 DEF Alters, Live
  <2>2. CountedFor(d, s)
    BY <1>1, <1>6, <2>1, AccountedOf
  <2> DEFINE due == Cardinality(Uncounted(s))
             next == Cardinality(Uncounted(s)')
  <2>3. due \in Nat /\ next \in Nat /\ next <= due
    BY <1>6, UncountedFinite, UncountedShrinks
  <2>4. /\ info[d].Bytes + due <= info[d].moved
        /\ d = c => thread[t].n + due <= info[d].moved
    BY <1>2, <2>2 DEF CountedFor, c
  <2>5. info[d].Bytes \in Int /\ info[d].moved \in Int
    BY <1>1 DEF InfosOk, InfoOk
  <2> HIDE DEF due, next
  <2>6. info'[d].Bytes + next <= info'[d].moved
    BY <1>3, <1>4, <2>3, <2>4, <2>5
  <2>7. /\ next <= due + 0 /\ 0 \in Int
        /\ info'[d].moved \in Int /\ info'[d].moved >= info[d].moved + 0
    BY <1>4, <2>3, <2>5
  <2>8. \A u \in Threads : u # t => thread'[u] = thread[u]
    BY <1>6 DEF Only
  <2>9. QED
    BY <1>1, <1>6, <2>2, <2>6, <2>7, <2>8, CountedForNext DEF due, next
<1>8. QED
  BY <1>6, <1>7 DEF Good

-------------------------------------------------------------------------------
(***************************************************************************)
(* A thread that works on a structure.                                     *)
(***************************************************************************)
LEMMA WorkThread ==
  ASSUME ThreadsOk, OlsOk, Matched, NEW t \in Threads, thread[t].pc \in Working
  PROVE  /\ thread[t].ol \in Ols /\ UnderWay(thread[t].ol) /\ OlOk(ol[thread[t].ol])
         /\ OlMatched(ol[thread[t].ol])
         /\ thread[t].inner \in Infos \cup {NoInfo}
         /\ thread[t].inner # NoInfo <=> thread[t].pc \in Inner
         /\ thread[t].pc \notin Alone /\ thread[t].pc \notin Calls
<1>1. ThreadOk(t, thread[t])
  BY DEF ThreadsOk
<1>2. thread[t].ol \in Ols
  BY <1>1 DEF ThreadOk
<1>3. UnderWay(thread[t].ol)
  BY DEF UnderWay
<1>4. OlMatched(ol[thread[t].ol]) /\ OlOk(ol[thread[t].ol])
  BY <1>2, <1>3 DEF Matched, OlsOk
<1>5. QED
  BY <1>1, <1>2, <1>3, <1>4, PcsDiffer DEF ThreadOk

LEMMA WorkFits ==
  ASSUME NEW t, NEW q, ThreadOk(t, q), q.pc \in Working, NEW p \in Working \ {"queue"}, NEW i \in Infos \cup {NoInfo},
         p \in Inner <=> i # NoInfo, NEW r, Is(r, p, q.s, q.ctx, q.acc, q.a, i, q.ol, q.op, q.n)
  PROVE  ThreadOk(t, r)
<1>1. /\ p \notin Alone /\ q.pc \notin Alone
  BY PcsDiffer
<1>2. p \notin {"select", "setsockopt", "close", "closed", "get"}
  BY PcsDiffer DEF Alone, Calls
<1>3. q.pc # "select"
  BY <1>1 DEF Alone
<1>4. QED
  BY <1>1, <1>2, <1>3 DEF ThreadOk, Is

(* It has looked the socket up, or not found it.                           *)
LEMMA LookupOk ==
  ASSUME Good, NEW t \in Threads, thread[t].pc \in {"complete", "check"},
         NEW p \in {"account", "decrement"}, p = "account" => thread[t].pc = "complete",
         Lookup(t, p), lsp'.health = "ok"
  PROVE  Good'
<1> DEFINE s == ol[thread[t].ol].CallerSocket
           c == handle[s]
<1>1. /\ LspOk /\ ThreadsOk /\ OlsOk /\ QueuesOk /\ InfosOk
      /\ Conserved /\ Balanced /\ Mapped /\ Listed /\ Matched /\ Accounted
  BY GoodIs
<1>2. thread[t].pc \in Working /\ thread[t].pc \notin Inner /\ p \in Working \ {"queue"} /\ p \in Inner
      /\ "putback" \in Working \ {"queue"} /\ "putback" \notin Inner
  BY DEF Working, Inner
<1>3. /\ thread[t].ol \in Ols /\ OlMatched(ol[thread[t].ol])
      /\ thread[t].inner = NoInfo
  BY <1>1, <1>2, WorkThread
<1>4. s \in Handles
  BY <1>3 DEF OlMatched
<1>5. ~Dangling(s) /\ UNCHANGED structures /\ list' = list /\ handle' = handle /\ lsp' = lsp
  BY <1>1, NotOver DEF Lookup
<1>6. LspStep /\ lsp'.leaked = lsp.leaked /\ lsp'.kept = lsp.kept
  BY <1>1, <1>5, LspSame
<1>7. ThreadOk(t, thread[t]) /\ ThreadMatched(thread[t]) /\ DOMAIN thread = Threads
  BY <1>1, ThreadIs
<1>8. CASE handle[s] = NoInfo
  <2>1. Goto(t, "putback") /\ info' = info
    BY <1>5, <1>8 DEF Lookup
  <2>2. Alters /\ KeepsCounts /\ RefsKept
    BY <1>1, <2>1, InfoSameOk
  <2>3. LET r == thread[t] IN Is(thread'[t], "putback", r.s, r.ctx, r.acc, r.a, r.inner, r.ol, r.op, r.n)
    BY <1>1, <2>1, GotoIs
  <2>4. ThreadOk(t, thread'[t])
    BY <1>2, <1>3, <1>7, <2>3, WorkFits
  <2>5. QED
    BY <1>5, <1>6, <2>1, <2>2, <2>4, GotoStep
<1>9. CASE handle[s] # NoInfo
  <2>1. /\ info' = [info EXCEPT ![c].RefCount = @ + 1]
        /\ thread' = [thread EXCEPT ![t].pc = p, ![t].inner = c]
    BY <1>5, <1>9 DEF Lookup, FindAndLockSocketContext
  <2>2. c \in Infos /\ Live(c) /\ Named(c, s) /\ info[c].state # "none"
    <3>1. Known(s)
      BY <1>5, <1>9 DEF Known, Dangling
    <3>2. QED
      BY <1>1, <1>4, <3>1, HandleLeads
  <2>3. /\ Only(t)
        /\ LET r == thread[t] IN Is(thread'[t], p, r.s, r.ctx, r.acc, r.a, c, r.ol, r.op, r.n)
    <3> HIDE DEF c
    <3>1. QED
      BY <1>7, <2>1 DEF ThreadOk, ThreadFields, Only, Is
  <2>4. Alters /\ KeepsCounts /\ Plus(c, 1)
    <3> HIDE DEF c
    <3>1. QED
      BY <1>1, <2>1, <2>2, FindOk
  <2>5. SocketsStay /\ LeaksOk /\ CountsStay
    BY <1>1, <1>5, <1>6, <2>4, AltersOk
  <2>6. ol' = ol
    BY <1>5 DEF structures
  <2>7. ThreadMatched(thread'[t])
    <3>1. LET r == thread'[t]
          IN  /\ r.s = thread[t].s /\ r.ctx = thread[t].ctx /\ r.acc = thread[t].acc /\ r.a = thread[t].a
              /\ r.inner = c /\ r.ol = thread[t].ol
      BY <2>3 DEF Is
    <3>2. Named(c, ol[thread[t].ol].CallerSocket)
      BY <2>2
    <3> HIDE DEF c, s
    <3>3. QED
      BY <1>7, <2>2, <3>1, <3>2 DEF ThreadMatched
  <2> HIDE DEF c, s
  <2>8. Stays(t) /\ thread'[t].pc # "count"
    BY <1>5, <2>3 DEF Stays, Is
  <2>9. ThreadOk(t, thread'[t])
    BY <1>2, <1>7, <2>2, <2>3, WorkFits, LspSocketsAssumption
  <2>10. Refs(t)
    <3>1. \A d \in Infos : /\ Held(thread'[t], d) = Held(thread[t], d) + (IF d = c THEN 1 ELSE 0)
                           /\ Held(thread[t], d) \in Int
      <4>1. thread[t].pc \notin {"select", "setsockopt"} /\ thread'[t].pc \notin {"select", "setsockopt"}
        BY <2>3 DEF Is
      <4>2. QED
        BY <1>3, <2>2, <2>3, <4>1, LspSocketsAssumption DEF Held, Is
    <3>2. \A d \in Infos : /\ info[d].RefCount \in Int /\ lsp.leaked[d] \in Int
                           /\ info'[d].RefCount = info[d].RefCount + (IF d = c THEN 1 ELSE 0)
                           /\ Live(d)' => Live(d)
      BY <1>1, <2>4 DEF InfosOk, InfoOk, LspOk, Plus, Alters, Live
    <3> HIDE DEF Held
    <3>3. QED
      BY <1>6, <3>1, <3>2 DEF Refs
  <2>11. QED
    BY <1>6, <2>5, <2>7, <2>8, <2>9, <2>10, CallStep
<1>10. QED
  BY <1>8, <1>9

LEMMA CompleteFindOk ==
  ASSUME Good, NEW t \in Threads, CompleteFind(t), lsp'.health = "ok" PROVE Good'
BY LookupOk DEF CompleteFind, At

LEMMA CleanupFindOk ==
  ASSUME Good, NEW t \in Threads, CleanupFind(t), lsp'.health = "ok" PROVE Good'
BY LookupOk DEF CleanupFind, At

-------------------------------------------------------------------------------
(***************************************************************************)
(* What only the application or the globals show.                          *)
(***************************************************************************)
LEMMA WSPGetOverlappedResultOk == ASSUME Good, NEW r, WSPGetOverlappedResult(r) PROVE Good'
<1>1. LspStep /\ lsp'.leaked = lsp.leaked /\ lsp'.kept = lsp.kept
  BY GoodIs, LspSame DEF WSPGetOverlappedResult
<1>2. QED
  BY <1>1, QuietStep DEF WSPGetOverlappedResult

LEMMA AsyncWndProcOk == ASSUME Good, NEW c, AsyncWndProc(c), lsp'.health = "ok" PROVE Good'
<1>1. LspOk /\ ~Wild
  BY GoodIs, NotOver
<1>2. lsp' = [lsp EXCEPT !.proc = GetCallerSocket(c)] /\ UNCHANGED <<thread, structures, user, sockets>>
  BY <1>1 DEF AsyncWndProc
<1>3. LspStep /\ lsp'.leaked = lsp.leaked /\ lsp'.kept = lsp.kept
  BY <1>1, <1>2, LspFaultGlobal
<1>4. QED
  BY <1>2, <1>3, QuietStep

LEMMA AsyncWndProcPostOk == ASSUME Good, AsyncWndProcPost, lsp'.health = "ok" PROVE Good'
<1>1. LspOk /\ ~Wild
  BY GoodIs, NotOver
<1>2. lsp' = [lsp EXCEPT !.proc = NoInfo] /\ UNCHANGED <<thread, structures, user, sockets>>
  BY <1>1 DEF AsyncWndProcPost
<1>3. LspStep /\ lsp'.leaked = lsp.leaked /\ lsp'.kept = lsp.kept
  BY <1>1, <1>2, LspFaultGlobal
<1>4. QED
  BY <1>2, <1>3, QuietStep

-------------------------------------------------------------------------------
(***************************************************************************)
(* The completion code counts.  The structures stay where they are, and    *)
(* keep their requests.                                                    *)
(***************************************************************************)
Unmoved(t) == /\ Only(t) /\ thread'[t].ol = thread[t].ol
              /\ pool' = pool /\ pending' = pending /\ port' = port /\ lower' = lower /\ lost' = lost

LEMMA UnmovedOk ==
  ASSUME QueuesOk, NEW t \in Threads, Unmoved(t)
  PROVE  QueuesOk' /\ \A o \in Ols : Places(o)' = Places(o) /\ (UnderWay(o)' => UnderWay(o))
<1>1. QueuesOk'
  BY DEF QueuesOk, Unmoved
<1>2. ASSUME NEW o \in Ols PROVE Places(o)' = Places(o)
  <2>1. Cardinality(Carriers(o)') = Cardinality(Carriers(o)) /\ Cardinality(Carriers(o)) \in Nat
    BY CarriersChange DEF Unmoved
  <2>2. QED
    BY <1>1, <2>1, PlacesAre, PlacesNextAre DEF Unmoved
<1>3. \A u \in Threads : thread'[u].ol = thread[u].ol
  BY DEF Unmoved, Only
<1>4. ASSUME NEW o \in Ols PROVE UnderWay(o)' => UnderWay(o)
  BY <1>3 DEF UnderWay, Unmoved
<1>5. QED
  BY <1>1, <1>2, <1>4

LEMMA AccountFacts ==
  ASSUME Good, NEW t \in Threads, Account(t), lsp'.health = "ok"
  PROVE  LET o == thread[t].ol
             x == ol[o]
             d == IF x.Operation = "acceptex" THEN handle[x.sAcceptSocket] ELSE thread[t].inner
         IN  /\ thread[t].pc = "account" /\ o \in Ols /\ d \in Infos
             /\ x.Operation \in {"transfer", "acceptex"} => info[d].given = Target(x) /\ Due(o)
             /\ info' = IF x.Operation \in {"transfer", "acceptex"} THEN [info EXCEPT ![d].Bytes = @ + 1] ELSE info
             /\ ol' = [ol EXCEPT ![o].Operation = "other", ![o].sAcceptSocket = NoHandle]
             /\ Goto(t, "release") /\ lsp' = lsp /\ UNCHANGED <<pool, pending, lower, port, lost>>
             /\ list' = list /\ handle' = handle
<1> DEFINE o == thread[t].ol
           x == ol[o]
           d == IF x.Operation = "acceptex" THEN handle[x.sAcceptSocket] ELSE thread[t].inner
<1>1. /\ LspOk /\ ThreadsOk /\ OlsOk /\ QueuesOk /\ InfosOk
      /\ Conserved /\ Balanced /\ Mapped /\ Listed /\ Matched /\ Accounted
      /\ ~Wild /\ ~Crash
  BY GoodIs, NotOver
<1>2. /\ thread[t].pc = "account" /\ d # NoInfo /\ Live(d)
      /\ info' = IF x.Operation \in {"transfer", "acceptex"} THEN [info EXCEPT ![d].Bytes = @ + 1] ELSE info
      /\ ol' = [ol EXCEPT ![o].Operation = "other", ![o].sAcceptSocket = NoHandle]
      /\ Goto(t, "release") /\ lsp' = lsp /\ UNCHANGED <<pool, pending, lower, port, lost>>
      /\ list' = list /\ handle' = handle
  BY <1>1 DEF Account, At
<1>3. thread[t].pc \in Working /\ thread[t].pc \in Inner
  BY <1>2 DEF Working, Inner
<1>4. /\ o \in Ols /\ OlOk(x) /\ OlMatched(x) /\ thread[t].inner \in Infos
  BY <1>1, <1>3, WorkThread
<1>5. ThreadMatched(thread[t])
  BY <1>1, ThreadIs
<1>6. Named(thread[t].inner, x.CallerSocket)
  BY <1>4, <1>5, LspSocketsAssumption DEF ThreadMatched
<1>7. Due(o)
  <2> SUFFICES ASSUME NEW p, p = thread[t].ol PROVE Due(p)
    OBVIOUS
  <2>1. QED
    BY <1>2 DEF Due
<1>8. d \in Infos /\ (x.Operation \in {"transfer", "acceptex"} => info[d].given = Target(x))
  <2>1. CASE x.Operation = "acceptex"
    <3>1. x.sAcceptSocket \in Handles /\ d = handle[x.sAcceptSocket]
      BY <1>4, <2>1 DEF OlOk
    <3>2. d \in Infos /\ info[d].given = x.sAcceptSocket
      <4>1. Known(x.sAcceptSocket)
        BY <1>2, <3>1 DEF Known
      <4>2. QED
        BY <1>1, <3>1, <4>1, HandleLeads
    <3>3. QED
      BY <2>1, <3>2 DEF Target
  <2>2. CASE x.Operation # "acceptex"
    BY <1>4, <1>6, <2>2 DEF Target, Named
  <2>3. QED
    BY <2>1, <2>2
<1> HIDE DEF o, x, d
<1>9. QED
  BY <1>2, <1>4, <1>7, <1>8 DEF o, x, d

LEMMA AccountOk ==
  ASSUME Good, NEW t \in Threads, Account(t), lsp'.health = "ok"
  PROVE  Good'
<1> DEFINE o == thread[t].ol
           x == ol[o]
           d == IF x.Operation = "acceptex" THEN handle[x.sAcceptSocket] ELSE thread[t].inner
           counts == x.Operation \in {"transfer", "acceptex"}
<1>1. /\ LspOk /\ ThreadsOk /\ OlsOk /\ QueuesOk /\ InfosOk
      /\ Conserved /\ Balanced /\ Mapped /\ Listed /\ Matched /\ Accounted
  BY GoodIs
<1>2. /\ thread[t].pc = "account" /\ o \in Ols /\ d \in Infos
      /\ counts => info[d].given = Target(x) /\ Due(o)
      /\ info' = IF counts THEN [info EXCEPT ![d].Bytes = @ + 1] ELSE info
      /\ ol' = [ol EXCEPT ![o].Operation = "other", ![o].sAcceptSocket = NoHandle]
      /\ Goto(t, "release") /\ lsp' = lsp /\ UNCHANGED <<pool, pending, lower, port, lost>>
      /\ list' = list /\ handle' = handle
  BY AccountFacts
<1>3. /\ Only(t)
      /\ LET r == thread[t] IN Is(thread'[t], "release", r.s, r.ctx, r.acc, r.a, r.inner, r.ol, r.op, r.n)
  BY <1>1, <1>2, GotoIs
<1>4. Unmoved(t)
  BY <1>2, <1>3 DEF Unmoved, Is
<1>5. QueuesOk' /\ \A y \in Ols : Places(y)' = Places(y) /\ (UnderWay(y)' => UnderWay(y))
  BY <1>1, <1>4, UnmovedOk
<1>6. /\ thread[t].pc \in Working /\ thread[t].pc \in Inner /\ "release" \in Working \ {"queue"} /\ "release" \in Inner
  BY <1>2 DEF Working, Inner
<1>7. /\ OlOk(x) /\ UnderWay(o) /\ thread[t].inner \in Infos /\ thread[t].inner # NoInfo
  BY <1>1, <1>6, WorkThread
<1>8. LspStep /\ lsp'.leaked = lsp.leaked /\ lsp'.kept = lsp.kept
  BY <1>1, <1>2, LspSame
<1> HIDE DEF d, counts
<1>9. /\ DOMAIN ol' = Ols /\ \A y \in Ols : y # o => ol'[y] = ol[y]
      /\ DOMAIN ol'[o] = OlFields
      /\ ol'[o].Operation = "other" /\ ol'[o].sAcceptSocket = NoHandle
      /\ ol'[o].SockInfo = x.SockInfo /\ ol'[o].CallerSocket = x.CallerSocket
  BY <1>1, <1>2, <1>7 DEF OlsOk, OlOk, OlFields
<1>10. OlsOk'
  <2>1. OlOk(ol'[o])
    BY <1>7, <1>9 DEF OlOk, Requested
  <2>2. \A y \in Ols : OlOk(ol'[y])
    BY <1>1, <1>9, <2>1 DEF OlsOk
  <2>3. QED
    BY <1>9, <2>2 DEF OlsOk, OlOk
<1>11. OthersOl(t) /\ OlsAlike
  <2>1. \A y : ol'[y].CallerSocket = ol[y].CallerSocket \/ y \notin Ols
    BY <1>9
  <2>2. \A u \in Threads : thread[u].ol # NoOl => thread[u].ol \in Ols
    BY <1>1 DEF ThreadsOk, ThreadOk
  <2>3. OthersOl(t)
    BY <2>1, <2>2 DEF OthersOl
  <2>4. \A y \in Ols : OlKept(y)
    BY <1>9 DEF OlKept
  <2>5. QED
    BY <1>5, <2>3, <2>4 DEF OlsAlike
<1>12. PlacesKept
  <2>1. ol[o].Operation # "absent"
    BY <1>1, <1>2, <1>7, OnePlace
  <2>2. QED
    BY <1>5, <1>9, <2>1 DEF PlacesKept
<1>13. /\ Alters /\ RefsKept
       /\ \A e \in Infos : /\ info'[e].moved = info[e].moved
                           /\ info'[e].Bytes = info[e].Bytes + (IF counts /\ e = d THEN 1 ELSE 0)
  BY <1>1, <1>2 DEF InfosOk, InfoOk, InfoFields, Alters, RefsKept
<1>14. SocketsStay /\ LeaksOk
  BY <1>1, <1>2, <1>8, <1>13, AltersOk
<1>15. ThreadOk(t, thread'[t])
  <2>1. ThreadOk(t, thread[t])
    BY <1>1 DEF ThreadsOk
  <2>2. QED
    BY <1>3, <1>6, <1>7, <2>1, WorkFits
<1>16. Refs(t)
  <2>1. \A e \in Infos : Held(thread'[t], e) = Held(thread[t], e)
    BY <1>2, <1>3 DEF Held, Is
  <2>2. QED
    BY <1>1, <1>8, <1>13, <2>1, RefsKeptOk
<1>17. ThreadMatched(thread[t])'
  <2>1. ThreadMatched(thread[t])
    BY <1>1, ThreadIs
  <2>2. /\ \A c \in Infos : info'[c].state = info[c].state /\ info'[c].given = info[c].given
        /\ DOMAIN info' = Infos
    BY <1>13 DEF Alters
  <2>3. ThreadOk(t, thread[t])
    BY <1>1 DEF ThreadsOk
  <2>4. /\ thread'[t].s = thread[t].s /\ thread'[t].ctx = thread[t].ctx /\ thread'[t].acc = thread[t].acc
        /\ thread'[t].a = thread[t].a /\ thread'[t].inner = thread[t].inner /\ thread'[t].ol = thread[t].ol
    BY <1>3 DEF Is
  <2>5. ol'[thread[t].ol].CallerSocket = ol[thread[t].ol].CallerSocket
    BY <1>9
  <2>6. QED
    BY <2>1, <2>2, <2>3, <2>4, <2>5 DEF ThreadMatched, Named, ThreadOk
<1>18. Types' /\ Conserved' /\ Balanced' /\ Mapped' /\ Listed' /\ Matched' /\ Ages
  BY <1>3, <1>5, <1>8, <1>10, <1>11, <1>12, <1>14, <1>15, <1>16, <1>17, MoveStep
<1>19. thread'[t].pc = "release"
  BY <1>3 DEF Is
<1>20. NoneDue /\ \A s : o \notin Uncounted(s)'
  <2>1. \A y \in Ols : Due(y)' => Due(y)
    BY <1>2, <1>3, <1>19 DEF Due, Only
  <2>2. QED
    BY <1>9, <2>1 DEF NoneDue, Uncounted
<1>21. Accounted'
  <2> SUFFICES ASSUME NEW e \in Infos, NEW s \in Handles \cup {NoHandle},
                      Live(e)', FirstOfHandle(e)', info'[e].given = s
               PROVE  CountedFor(e, s)'
    BY DEF Accounted
  <2>1. Live(e)
    BY <1>13 DEF Alters, Live
  <2>2. info[e].given = s /\ CountedFor(e, s)
    BY <1>1, <1>18, <2>1, AccountedOf
  <2> DEFINE due == Cardinality(Uncounted(s))
             next == Cardinality(Uncounted(s)')
             k == IF counts /\ e = d THEN 1 ELSE 0
  <2>3. due \in Nat /\ next \in Nat /\ next <= due
    BY <1>20, UncountedFinite, UncountedShrinks
  <2>4. next + k <= due
    <3>1. CASE counts /\ e = d
      <4>1. o \in Uncounted(s)
        BY <1>2, <2>2, <3>1 DEF Uncounted, counts
      <4>2. IsFiniteSet(Uncounted(s)) /\ IsFiniteSet(Uncounted(s) \ {o})
            /\ Cardinality(Uncounted(s) \ {o}) = due - 1
        BY <4>1, UncountedFinite, FS_RemoveElement
      <4>3. Uncounted(s)' \in SUBSET (Uncounted(s) \ {o})
        BY <1>20 DEF NoneDue, Uncounted, Target
      <4>4. next <= due - 1
        BY <4>2, <4>3, FS_Subset
      <4> HIDE DEF due, next
      <4>5. QED
        BY <2>3, <3>1, <4>4
    <3>2. CASE ~(counts /\ e = d)
      <4> HIDE DEF due, next
      <4>1. QED
        BY <2>3, <3>2
    <3>3. QED
      BY <3>1, <3>2
  <2>5. info[e].Bytes + due <= info[e].moved
    BY <2>2 DEF CountedFor
  <2>6. /\ info[e].Bytes \in Int /\ info[e].moved \in Int
        /\ info'[e].Bytes = info[e].Bytes + k /\ info'[e].moved = info[e].moved /\ k \in Int
    BY <1>1, <1>13 DEF InfosOk, InfoOk
  <2> HIDE DEF due, next, k
  <2>7. /\ info'[e].Bytes + next <= info'[e].moved
        /\ next <= due + 0 /\ 0 \in Int
        /\ info'[e].moved \in Int /\ info'[e].moved >= info[e].moved + 0
    BY <2>3, <2>4, <2>5, <2>6
  <2>8. \A u \in Threads : u # t => thread'[u] = thread[u]
    BY <1>3 DEF Only
  <2>9. thread'[t].pc # "count"
    BY <1>19
  <2>10. QED
    BY <1>1, <2>2, <2>7, <2>8, <2>9, CountedForNext DEF due, next
<1>22. QED
  BY <1>18, <1>21 DEF Good

-------------------------------------------------------------------------------
(***************************************************************************)
(* A socket leaves: the list, the handles, the heap.                       *)
(***************************************************************************)
Frees(c, closes) ==
  /\ info' = [info EXCEPT ![c] = Remains(c)]
  /\ DOMAIN handle' = Handles
  /\ \A s \in Handles : handle'[s] = IF closes /\ s = info[c].LayeredSocket THEN NoInfo ELSE handle[s]
  /\ On(list, c) /\ list' = RemoveSocketInfo(list, c)
  /\ lsp'.kept = IF closes THEN lsp.kept ELSE lsp.kept \cup {c}

LEMMA FreesOk ==
  ASSUME InfosOk, Mapped, Listed, LspOk, LspStep, NEW c \in Infos, Live(c),
         NEW closes \in BOOLEAN, Frees(c, closes)
  PROVE  /\ InfosOk' /\ Mapped' /\ Listed' /\ Ages /\ ~Live(c)'
         /\ \A d \in Infos : d # c => info'[d] = info[d]
         /\ \A d \in Infos : info'[d].state = "none" => info[d].state = "none"
<1>1. /\ DOMAIN info' = Infos /\ \A d \in Infos : d # c => info'[d] = info[d]
      /\ info'[c] = Remains(c)
  BY DEF Frees, InfosOk
<1>2. /\ DOMAIN Remains(c) = InfoFields /\ Remains(c).state = "freed" /\ Remains(c).given = info[c].given
      /\ Remains(c).ProviderSocket = "invalid" /\ Remains(c).LayeredSocket = NoHandle
      /\ Remains(c).RefCount = 0 /\ Remains(c).Bytes = 0 /\ Remains(c).moved = 0
  BY DEF Remains, Blank, InfoFields
<1>3. info[c].given \in Handles \cup {NoHandle}
  BY DEF InfosOk, InfoOk
<1>4. InfosOk'
  <2>1. InfoOk(Remains(c))
    BY <1>2, <1>3 DEF InfoOk
  <2>2. QED
    BY <1>1, <2>1 DEF InfosOk, InfoOk
<1>5. ~Live(c)' /\ \A d \in Infos : d # c => (Live(d)' <=> Live(d))
  BY <1>1, <1>2 DEF Live
<1>6. Mapped'
  <2>1. DOMAIN handle' = Handles /\ \A s \in Handles : handle'[s] \in Infos \cup {NoInfo}
    BY DEF Frees, Mapped
  <2>2. ASSUME NEW s \in Handles, handle'[s] # NoInfo
        PROVE  /\ handle'[s] = handle[s] /\ handle[s] \in Infos
               /\ Live(handle[s])' \/ handle[s] \in lsp'.kept
               /\ Live(handle[s])' => info'[handle[s]].LayeredSocket = s
    <3>1. handle'[s] = handle[s] /\ ~(closes /\ s = info[c].LayeredSocket)
      BY <2>2 DEF Frees
    <3>2. /\ handle[s] \in Infos /\ (Live(handle[s]) \/ handle[s] \in lsp.kept)
          /\ Live(handle[s]) => info[handle[s]].LayeredSocket = s
      BY <2>2, <3>1 DEF Mapped
    <3>3. CASE handle[s] = c
      <4>1. ~closes
        BY <3>1, <3>2, <3>3
      <4>2. c \in lsp'.kept
        BY <4>1 DEF Frees
      <4>3. QED
        BY <1>5, <3>1, <3>2, <3>3, <4>2
    <3>4. CASE handle[s] # c
      <4>1. info'[handle[s]] = info[handle[s]] /\ (Live(handle[s])' <=> Live(handle[s]))
        BY <1>1, <3>1, <3>2, <3>4 DEF Live
      <4>2. handle[s] \in lsp.kept => handle[s] \in lsp'.kept
        BY DEF Frees
      <4>3. QED
        BY <3>1, <3>2, <4>1, <4>2
    <3>5. QED
      BY <3>3, <3>4
  <2>3. ASSUME NEW d \in Infos, Live(d)', info'[d].LayeredSocket # NoHandle
        PROVE  handle'[info'[d].LayeredSocket] = d
    <3>1. d # c /\ Live(d) /\ info'[d] = info[d]
      BY <1>1, <1>5, <2>3
    <3>2. info[d].LayeredSocket \in Handles /\ handle[info[d].LayeredSocket] = d
      BY <2>3, <3>1 DEF Mapped, InfosOk, InfoOk
    <3>3. info[d].LayeredSocket # info[c].LayeredSocket
      BY <2>3, <3>1, <3>2 DEF Mapped
    <3>4. QED
      BY <3>1, <3>2, <3>3 DEF Frees
  <2>4. QED
    BY <2>1, <2>2, <2>3 DEF Mapped, Live
<1>7. Listed'
  <2>1. list \in Seq(Infos) /\ NoTwice(list) /\ On(list, c)
    BY ListedIs DEF Frees
  <2>2. /\ list' \in Seq(Infos) /\ NoTwice(list')
        /\ \A d : On(list', d) <=> On(list, d) /\ d # c
    BY <2>1, RemovedIs DEF Frees
  <2>3. \A d : On(list, d) => d \in Infos
    BY <2>1, OnInfos
  <2>4. lsp'.faults = MaxFaults => lsp.faults = MaxFaults
    BY LspAssumption DEF LspOk, LspStep
  <2>5. \A d : On(list', d) => info'[d].state # "none"
    BY <1>1, <2>2, <2>3, ListedIs
  <2>6. /\ \A d \in Infos : Live(d)' => d \in lsp'.kept \/ On(list', d)
        /\ \A d \in lsp'.kept : info'[d].state # "none" /\ ~On(list', d)
    <3>1. \A d : d \in lsp.kept => d \in lsp'.kept
      BY DEF Frees
    <3>2. \A d \in lsp'.kept : d \in lsp.kept \/ d = c
      BY DEF Frees
    <3>3. \A d \in Infos : Live(d)' => d \in lsp'.kept \/ On(list', d)
      BY <1>5, <2>2, <3>1, ListedIs
    <3>4. lsp.kept \in SUBSET Infos
      BY DEF LspOk
    <3>5. ASSUME NEW d \in lsp'.kept PROVE info'[d].state # "none" /\ ~On(list', d)
      <4>1. CASE d = c
        BY <1>1, <1>2, <2>2, <4>1
      <4>2. CASE d # c
        <5>1. d \in lsp.kept /\ d \in Infos
          BY <3>2, <3>4, <4>2
        <5>2. info[d].state # "none" /\ ~On(list, d)
          BY <5>1, ListedIs
        <5>3. QED
          BY <1>1, <2>2, <4>2, <5>1, <5>2
      <4>3. QED
        BY <4>1, <4>2
    <3>6. QED
      BY <3>3, <3>5
  <2>7. lsp'.faults = MaxFaults => \A d : On(list', d) => Live(d)'
    BY <1>5, <2>2, <2>3, <2>4, ListedIs
  <2>8. QED
    BY <2>2, <2>5, <2>6, <2>7, ListedNextIs
<1>8. Ages
  BY <1>1, <1>2 DEF Ages, Live
<1>9. \A d \in Infos : info'[d].state = "none" => info[d].state = "none"
  BY <1>1, <1>2
<1>10. QED
  BY <1>1, <1>4, <1>5, <1>6, <1>7, <1>8, <1>9

(***************************************************************************)
(* A socket that is freed: nobody is counted for it any more.              *)
(***************************************************************************)
LEMMA FreeStep ==
  ASSUME Good, NEW t \in Threads, Stays(t), NEW c \in Infos, Live(c),
         NEW closes \in BOOLEAN, Frees(c, closes), LspStep, lsp'.leaked = lsp.leaked,
         ThreadOk(t, thread'[t]), ThreadMatched(thread'[t]), thread'[t].pc # "count",
         \A d \in Infos : d # c /\ Live(d) => Held(thread'[t], d) = Held(thread[t], d)
  PROVE  Good'
<1>1. /\ LspOk /\ ThreadsOk /\ OlsOk /\ QueuesOk /\ InfosOk
      /\ Conserved /\ Balanced /\ Mapped /\ Listed /\ Matched /\ Accounted
  BY GoodIs
<1>2. OlsOk' /\ QueuesOk' /\ PlacesKept /\ NoneDue /\ OthersOl(t) /\ OlsAlike
  BY <1>1, StaysOk
<1>3. Only(t) /\ ol' = ol
  BY DEF Stays, structures
<1>4. /\ InfosOk' /\ Mapped' /\ Listed' /\ Ages /\ ~Live(c)'
      /\ \A d \in Infos : d # c => info'[d] = info[d]
      /\ \A d \in Infos : info'[d].state = "none" => info[d].state = "none"
  BY <1>1, FreesOk
<1>5. LspOk' /\ lsp'.faults <= lsp.faults /\ (lsp'.gBaseInfo => lsp.gBaseInfo)
  BY DEF LspStep
<1>6. ThreadsOk'
  BY <1>1, <1>3, ThreadsOkStep
<1>7. Conserved'
  BY <1>1, <1>2, <1>5, ConservedKept
<1>8. Balanced'
  <2>1. ASSUME NEW d \in Infos, Live(d)'
        PROVE  Live(d) /\ info'[d] = info[d] /\ Held(thread'[t], d) = Held(thread[t], d)
    <3>1. d # c /\ info'[d] = info[d]
      BY <1>4, <2>1
    <3>2. Live(d)
      BY <2>1, <3>1 DEF Live
    <3>3. QED
      BY <3>1, <3>2
  <2> HIDE DEF Held
  <2>2. Refs(t)
    BY <2>1 DEF Refs
  <2>3. QED
    BY <1>1, <1>3, <1>4, <1>5, <2>2, BalancedStep
<1>9. Matched'
  <2>1. ThreadMatched(thread[t])'
    <3>1. /\ \A d \in Infos : info[d].state # "none" => info'[d].state # "none" /\ info'[d].given = info[d].given
      BY <1>4 DEF Ages
    <3>2. ThreadMatched(thread'[t]) /\ ThreadOk(t, thread'[t])
      OBVIOUS
    <3>3. QED
      BY <1>3, <3>1, <3>2, LspSocketsAssumption DEF ThreadMatched, Named, ThreadOk
  <2>2. LeaksOk
    BY <1>1, <1>4 DEF LeaksOk, Matched
  <2>3. \A o \in Ols : UnderWay(o)' => OlMatched(ol[o])'
    BY <1>1, <1>2, <1>4, OlMatchedAges DEF OlsAlike, Matched
  <2>4. \A u \in Threads : u # t => thread'[u] = thread[u]
    BY <1>3 DEF Only
  <2>5. QED
    BY <1>1, <1>2, <1>4, <2>1, <2>2, <2>3, <2>4, MatchedStep
<1>10. Accounted'
  <2>1. CountsStay
    BY <1>4 DEF CountsStay, Live
  <2>2. \A u \in Threads : u # t => thread'[u] = thread[u]
    BY <1>3 DEF Only
  <2>3. QED
    BY <1>1, <1>2, <1>4, <2>1, <2>2, AccountedStep
<1>11. QED
  BY <1>2, <1>4, <1>5, <1>6, <1>7, <1>8, <1>9, <1>10 DEF Good, Types

(* One reference less; the last one to a closing socket frees it.          *)
LEMMA UnlockStep ==
  ASSUME Good, NEW t \in Threads, Stays(t), NEW c \in Infos, UnlockSafe(c), Unlock(c),
         ThreadOk(t, thread'[t]), ThreadMatched(thread'[t]), thread'[t].pc # "count",
         \A d \in Infos : Held(thread'[t], d) = Held(thread[t], d) - (IF d = c THEN 1 ELSE 0)
  PROVE  Good'
<1>1. /\ LspOk /\ ThreadsOk /\ OlsOk /\ QueuesOk /\ InfosOk
      /\ Conserved /\ Balanced /\ Mapped /\ Listed /\ Matched /\ Accounted
  BY GoodIs
<1>2. PICK closes \in BOOLEAN :
        /\ UnlockSocketContext(c, closes) /\ (~LastReference(c) => closes)
        /\ lsp' = IF closes THEN lsp ELSE Kept(c)
  BY DEF Unlock, HandleCloses
<1>3. Live(c)
  BY DEF UnlockSafe
<1>4. \A d \in Infos : Held(thread[t], d) \in Int /\ Held(thread'[t], d) \in Int
  BY HeldInt
<1> HIDE DEF Held
<1>5. CASE LastReference(c)
  <2>1. /\ LspStep /\ lsp'.leaked = lsp.leaked
        /\ lsp'.kept = IF closes THEN lsp.kept ELSE lsp.kept \cup {c}
    BY <1>1, <1>2, LspSame, LspKept
  <2>2. On(list, c)
    BY <1>1, <1>5, ContainsIs, ListedIs DEF UnlockSafe, RemoveSafe
  <2>3. Frees(c, closes)
    BY <1>2, <1>5, <2>1, <2>2 DEF UnlockSocketContext, Frees
  <2>4. \A d \in Infos : d # c /\ Live(d) => Held(thread'[t], d) = Held(thread[t], d)
    BY <1>4
  <2>5. QED
    BY <1>3, <2>1, <2>3, <2>4, FreeStep
<1>6. CASE ~LastReference(c)
  <2>1. info' = [info EXCEPT ![c].RefCount = @ - 1] /\ handle' = handle /\ list' = list
    BY <1>2, <1>6 DEF UnlockSocketContext
  <2>2. Alters /\ KeepsCounts /\ Plus(c, -1)
    BY <1>1, <2>1 DEF InfosOk, InfoOk, InfoFields, Alters, KeepsCounts, Plus
  <2> LspStep /\ lsp'.leaked = lsp.leaked /\ lsp'.kept = lsp.kept
    BY <1>1, <1>2, <1>6, LspSame
  <2>3. SocketsStay /\ LeaksOk /\ CountsStay
    BY <1>1, <2>1, <2>2, AltersOk
  <2>4. Refs(t)
    <3>1. \A d \in Infos : /\ info[d].RefCount \in Int /\ lsp.leaked[d] \in Int
                           /\ info'[d].RefCount = info[d].RefCount + (IF d = c THEN -1 ELSE 0)
                           /\ Live(d)' => Live(d)
      BY <1>1, <2>2 DEF InfosOk, InfoOk, LspOk, Plus, Alters, Live
    <3>2. QED
      BY <1>4, <3>1 DEF Refs
  <2>5. QED
    BY <2>3, <2>4, CallStep
<1>7. QED
  BY <1>5, <1>6

LEMMA LeaveOk ==
  ASSUME Good, NEW t \in Threads, Leave(t), lsp'.health = "ok"
  PROVE  Good'
<1> DEFINE c == thread[t].ctx
           d == thread[t].acc
           q == IF d = NoInfo THEN Idle ELSE [Idle EXCEPT !.pc = "leave", !.ctx = d]
<1>1. /\ LspOk /\ ThreadsOk /\ OlsOk /\ QueuesOk /\ InfosOk
      /\ Conserved /\ Balanced /\ Mapped /\ Listed /\ Matched /\ Accounted
      /\ ~Wild
  BY GoodIs, NotOver
<1>2. /\ thread[t].pc = "leave" /\ thread[t].pc \in Calls
      /\ UnlockSafe(c) /\ Unlock(c)
      /\ thread' = [thread EXCEPT ![t] = q] /\ UNCHANGED structures
  BY <1>1 DEF Leave, At, Calls
<1>3. /\ t \in Apps /\ c \in Infos /\ thread[t].inner = NoInfo /\ thread[t].ol = NoOl
      /\ d \in Infos \cup {NoInfo}
  BY <1>1, <1>2, CallThread
<1>4. ThreadOk(t, thread[t]) /\ ThreadMatched(thread[t]) /\ DOMAIN thread = Threads
  BY <1>1, ThreadIs
<1>5. Only(t) /\ thread'[t] = q
  BY <1>2, <1>4, ReplacedIs
<1>6. Is(q, IF d = NoInfo THEN "idle" ELSE "leave", NoHandle, d, NoInfo, NoHandle, NoInfo, NoOl, "none", 0)
  <2>1. CASE d = NoInfo
    BY <2>1, IdleIs
  <2>2. CASE d # NoInfo
    BY <2>2 DEF Is, Idle, ThreadFields
  <2>3. QED
    BY <2>1, <2>2
<1> HIDE DEF q
<1>7. Stays(t) /\ thread'[t].pc # "count"
  BY <1>2, <1>3, <1>5, <1>6 DEF Stays, Is
<1>8. ThreadOk(t, thread'[t])
  <2>1. CASE d = NoInfo
    <3>1. "idle" \in Alone /\ "idle" \notin Working /\ "idle" \notin Inner
      BY PcsDiffer DEF Alone
    <3>2. QED
      BY <1>3, <1>5, <1>6, <2>1, <3>1 DEF ThreadOk, Is
  <2>2. CASE d # NoInfo
    <3>1. CallFits("leave", NoHandle, NoInfo, NoHandle, "none")
      BY DEF CallFits, Calls
    <3>2. d \in Infos
      BY <1>3, <2>2
    <3>3. QED
      BY <1>3, <1>5, <1>6, <2>2, <3>1, <3>2, CallThreadOk
  <2>3. QED
    BY <2>1, <2>2
<1>9. ThreadMatched(thread'[t])
  BY <1>3, <1>4, <1>5, <1>6, LspSocketsAssumption DEF ThreadMatched, Is
<1>10. \A e \in Infos : Held(thread'[t], e) = Held(thread[t], e) - (IF e = c THEN 1 ELSE 0)
  <2>1. \A e \in Infos : Held(thread'[t], e) = IF e = d THEN 1 ELSE 0
    BY <1>5, <1>6, LspSocketsAssumption DEF Held, Is
  <2>2. \A e \in Infos : Held(thread[t], e) = (IF e = c THEN 1 ELSE 0) + (IF e = d THEN 1 ELSE 0)
    BY <1>2, <1>3, LspSocketsAssumption DEF Held
  <2>3. QED
    BY <2>1, <2>2
<1> HIDE DEF c
<1>11. QED
  BY <1>2, <1>3, <1>7, <1>8, <1>9, <1>10, UnlockStep DEF c

(* The completion code gives back what it has looked up.                   *)
LEMMA InnerLeaves ==
  ASSUME Good, NEW t \in Threads, thread[t].pc \in {"release", "unlock"}, NEW p \in {"notify", "putback"},
         UnlockSafe(thread[t].inner), Unlock(thread[t].inner),
         thread' = [thread EXCEPT ![t].inner = NoInfo, ![t].pc = p], UNCHANGED structures
  PROVE  Good'
<1> DEFINE c == thread[t].inner
<1>1. /\ LspOk /\ ThreadsOk /\ OlsOk /\ QueuesOk /\ InfosOk
      /\ Conserved /\ Balanced /\ Mapped /\ Listed /\ Matched /\ Accounted
  BY GoodIs
<1>2. /\ thread[t].pc \in Working /\ thread[t].pc \in Inner
      /\ p \in Working \ {"queue"} /\ p \notin Inner
  BY DEF Working, Inner
<1>3. c \in Infos
  BY <1>1, <1>2, WorkThread
<1>4. ThreadOk(t, thread[t]) /\ ThreadMatched(thread[t]) /\ DOMAIN thread = Threads
  BY <1>1, ThreadIs
<1>5. /\ Only(t)
      /\ LET r == thread[t] IN Is(thread'[t], p, r.s, r.ctx, r.acc, r.a, NoInfo, r.ol, r.op, r.n)
  BY <1>4 DEF ThreadOk, ThreadFields, Only, Is
<1>6. Stays(t) /\ thread'[t].pc # "count"
  BY <1>5 DEF Stays, Is
<1>7. ThreadOk(t, thread'[t])
  BY <1>2, <1>4, <1>5, WorkFits
<1>8. ThreadMatched(thread'[t])
  BY <1>4, <1>5, LspSocketsAssumption DEF ThreadMatched, Is
<1>9. \A e \in Infos : Held(thread'[t], e) = Held(thread[t], e) - (IF e = c THEN 1 ELSE 0)
  BY <1>5, LspSocketsAssumption DEF Held, Is
<1> HIDE DEF c
<1>10. QED
  BY <1>3, <1>6, <1>7, <1>8, <1>9, UnlockStep DEF c

LEMMA ReleaseOk == ASSUME Good, NEW t \in Threads, Release(t), lsp'.health = "ok" PROVE Good'
<1>1. ~Wild
  BY GoodIs, NotOver
<1>2. QED
  BY <1>1, InnerLeaves DEF Release, At

LEMMA CleanupUnlockOk == ASSUME Good, NEW t \in Threads, CleanupUnlock(t), lsp'.health = "ok" PROVE Good'
<1>1. ~Wild
  BY GoodIs, NotOver
<1>2. QED
  BY <1>1, InnerLeaves DEF CleanupUnlock, At

LEMMA CloseLayeredOk ==
  ASSUME Good, NEW t \in Threads, CloseLayered(t), lsp'.health = "ok"
  PROVE  Good'
<1> DEFINE c == thread[t].ctx
<1>1. /\ LspOk /\ ThreadsOk /\ OlsOk /\ QueuesOk /\ InfosOk
      /\ Conserved /\ Balanced /\ Mapped /\ Listed /\ Matched /\ Accounted
      /\ ~Wild
  BY GoodIs, NotOver
<1>2. /\ thread[t].pc = "closed" /\ thread[t].pc \in Calls /\ Live(c)
      /\ RemoveSafe(c) /\ list' = RemoveSocketInfo(list, c)
      /\ \/ info' = Freed(c) /\ handle' = Unmapped(thread[t].s) /\ lsp' = lsp
         \/ /\ lsp' = [Kept(c) EXCEPT !.leaked[c] = @ + 1] /\ handle' = handle
            /\ \E o : info' = [info EXCEPT ![c].owner = o]
      /\ Return(t) /\ UNCHANGED structures
  BY <1>1 DEF CloseLayered, At, Calls
<1>3. /\ t \in Apps /\ c \in Infos /\ thread[t].inner = NoInfo /\ thread[t].ol = NoOl
      /\ thread[t].s \in Handles \cup {NoHandle}
  BY <1>1, <1>2, CallThread
<1>4. ThreadOk(t, thread[t]) /\ ThreadMatched(thread[t]) /\ DOMAIN thread = Threads
  BY <1>1, ThreadIs
<1>5. thread[t].s \in Handles /\ thread[t].acc = NoInfo /\ info[c].LayeredSocket = thread[t].s
  <2>1. thread[t].s # NoHandle /\ thread[t].acc = NoInfo
    BY <1>2, <1>4 DEF ThreadOk
  <2>2. info[c].given = thread[t].s
    BY <1>4, <2>1 DEF ThreadMatched, Named
  <2>3. QED
    BY <1>1, <1>2, <1>3, <2>1, <2>2 DEF InfosOk, InfoOk, Live
<1>6. On(list, c)
  BY <1>1, <1>2, ContainsIs, ListedIs DEF RemoveSafe
<1>7. /\ Only(t)
      /\ Is(thread'[t], "idle", NoHandle, NoInfo, NoInfo, NoHandle, NoInfo, NoOl, "none", 0)
  BY <1>2, <1>4, ReturnIs
<1>8. Stays(t) /\ thread'[t].pc # "count"
  BY <1>2, <1>3, <1>7 DEF Stays, Is
<1>9. ThreadOk(t, thread'[t])
  <2>1. "idle" \in Alone /\ "idle" \notin Working /\ "idle" \notin Inner
    BY PcsDiffer DEF Alone
  <2>2. QED
    BY <1>3, <1>7, <2>1 DEF ThreadOk, Is
<1>10. ThreadMatched(thread'[t])
  BY <1>7, LspSocketsAssumption DEF ThreadMatched, Is
<1>11. \A d \in Infos : Held(thread'[t], d) = Held(thread[t], d) - (IF d = c THEN 1 ELSE 0)
  BY <1>2, <1>3, <1>5, <1>7, LspSocketsAssumption DEF Held, Is
<1>12. \A d \in Infos : Held(thread[t], d) \in Int /\ Held(thread'[t], d) \in Int
  BY HeldInt
<1> HIDE DEF c, Held
<1>13. CASE info' = Freed(c) /\ handle' = Unmapped(thread[t].s) /\ lsp' = lsp
  <2>1. LspStep /\ lsp'.leaked = lsp.leaked /\ lsp'.kept = lsp.kept
    BY <1>1, <1>13, LspSame
  <2>2. Frees(c, TRUE)
    BY <1>1, <1>2, <1>5, <1>6, <1>13, <2>1 DEF Frees, Freed, Unmapped, Mapped
  <2>3. \A d \in Infos : d # c /\ Live(d) => Held(thread'[t], d) = Held(thread[t], d)
    BY <1>11, <1>12
  <2>4. QED
    BY <1>2, <1>3, <1>8, <1>9, <1>10, <2>1, <2>2, <2>3, FreeStep
<1>14. CASE /\ lsp' = [Kept(c) EXCEPT !.leaked[c] = @ + 1] /\ handle' = handle
            /\ \E o : info' = [info EXCEPT ![c].owner = o]
  <2>1. /\ LspStep /\ lsp'.kept = lsp.kept \cup {c}
        /\ \A d \in Infos : lsp'.leaked[d] = lsp.leaked[d] + (IF d = c THEN 1 ELSE 0)
    BY <1>1, <1>3, <1>14, LspAssumption DEF LspOk, LspFields, LspStep, Kept, Fault
  <2>2. Alters /\ KeepsCounts /\ RefsKept
    BY <1>1, <1>3, <1>14 DEF InfosOk, InfoOk, InfoFields, Alters, KeepsCounts, RefsKept
  <2>3. \A d \in Infos : StaysAs(info[d], info'[d]) /\ info'[d].state = info[d].state
    BY <1>1, <2>2 DEF InfosOk, InfoOk, Alters, StaysAs
  <2>4. SocketsStay /\ CountsStay
    BY <1>2, <1>3, <1>6, <1>14, <2>1, <2>2, <2>3 DEF SocketsStay, Drops, Alters, KeepsCounts, CountsStay, Live
  <2>5. LeaksOk
    BY <1>1, <1>2, <2>1, <2>3 DEF LeaksOk, Matched, Live
  <2>6. Refs(t)
    <3>1. \A d \in Infos : info[d].RefCount \in Int /\ lsp.leaked[d] \in Int /\ (Live(d)' => Live(d))
      BY <1>1, <2>3 DEF InfosOk, InfoOk, LspOk, Live
    <3>2. \A d \in Infos : info'[d].RefCount = info[d].RefCount
      BY <2>2 DEF RefsKept
    <3>3. QED
      BY <1>11, <1>12, <2>1, <3>1, <3>2 DEF Refs
  <2>7. QED
    BY <1>8, <1>9, <1>10, <2>1, <2>4, <2>5, <2>6, CallStep
<1>15. QED
  BY <1>2, <1>13, <1>14

LEMMA DecrementOk ==
  ASSUME Good, NEW t \in Threads, Decrement(t), lsp'.health = "ok"
  PROVE  Good'
<1> DEFINE x == ol[thread[t].ol]
           c == x.SockInfo
<1>1. /\ LspOk /\ ThreadsOk /\ OlsOk /\ QueuesOk /\ InfosOk
      /\ Conserved /\ Balanced /\ Mapped /\ Listed /\ Matched /\ Accounted
      /\ ~Wild
  BY GoodIs, NotOver
<1>2. /\ thread[t].pc = "decrement" /\ Live(c) /\ lsp' = lsp /\ UNCHANGED structures
      /\ LastRequest(c) => RemoveSafe(c)
      /\ info' = IF LastRequest(c) THEN Freed(c) ELSE [info EXCEPT ![c].dwOutstandingAsync = @ - 1]
      /\ handle' = IF LastRequest(c) THEN Unmapped(x.CallerSocket) ELSE handle
      /\ list' = IF LastRequest(c) THEN RemoveSocketInfo(list, c) ELSE list
      /\ thread' = [thread EXCEPT ![t].pc = IF LastRequest(c) THEN "putback" ELSE "unlock",
                                  ![t].inner = IF LastRequest(c) THEN NoInfo ELSE @]
  BY <1>1 DEF Decrement, At
<1>3. /\ thread[t].pc \in Working /\ thread[t].pc \in Inner
      /\ "putback" \in Working \ {"queue"} /\ "putback" \notin Inner
      /\ "unlock" \in Working \ {"queue"} /\ "unlock" \in Inner
  BY <1>2 DEF Working, Inner
<1>4. /\ thread[t].inner \in Infos /\ c \in Infos /\ x.CallerSocket \in Handles /\ info[c].given = x.CallerSocket
      /\ thread[t].inner # NoInfo
  BY <1>1, <1>3, WorkThread DEF OlMatched, Named
<1>5. ThreadOk(t, thread[t]) /\ ThreadMatched(thread[t]) /\ DOMAIN thread = Threads
  BY <1>1, ThreadIs
<1>6. info[thread[t].inner].given = x.CallerSocket
  BY <1>4, <1>5 DEF ThreadMatched, Named
<1>7. LspStep /\ lsp'.leaked = lsp.leaked /\ lsp'.kept = lsp.kept
  BY <1>1, <1>2, LspSame
<1> HIDE DEF x, c
<1>8. CASE LastRequest(c)
  <2>1. info[c].LayeredSocket = x.CallerSocket
    BY <1>1, <1>2, <1>4 DEF InfosOk, InfoOk, Live
  <2>2. Frees(c, TRUE)
    <3>1. On(list, c)
      BY <1>1, <1>2, <1>8, ContainsIs, ListedIs DEF RemoveSafe
    <3>2. QED
      BY <1>1, <1>2, <1>4, <1>7, <1>8, <2>1, <3>1 DEF Frees, Freed, Unmapped, Mapped
  <2>3. thread' = [thread EXCEPT ![t].pc = "putback", ![t].inner = NoInfo]
    BY <1>2, <1>8
  <2>4. /\ Only(t)
        /\ LET r == thread[t] IN Is(thread'[t], "putback", r.s, r.ctx, r.acc, r.a, NoInfo, r.ol, r.op, r.n)
    BY <1>5, <2>3 DEF ThreadOk, ThreadFields, Only, Is
  <2>5. Stays(t) /\ thread'[t].pc # "count"
    BY <1>2, <2>4 DEF Stays, Is
  <2>6. ThreadOk(t, thread'[t])
    BY <1>3, <1>5, <2>4, WorkFits
  <2>7. ThreadMatched(thread'[t])
    BY <1>5, <2>4, LspSocketsAssumption DEF ThreadMatched, Is
  <2>8. \A d \in Infos : d # c /\ Live(d) => Held(thread'[t], d) = Held(thread[t], d)
    <3>1. ASSUME NEW d \in Infos, d # c, Live(d) PROVE d # thread[t].inner
      BY <1>1, <1>2, <1>4, <1>6, <3>1, OneOpen
    <3>2. thread[t].pc \notin {"select", "setsockopt"} /\ thread'[t].pc \notin {"select", "setsockopt"}
      BY <1>2, <2>4 DEF Is
    <3>3. QED
      BY <2>4, <3>1, <3>2, LspSocketsAssumption DEF Held, Is
  <2>9. QED
    BY <1>2, <1>4, <1>7, <2>2, <2>5, <2>6, <2>7, <2>8, FreeStep
<1>9. CASE ~LastRequest(c)
  <2>1. /\ info' = [info EXCEPT ![c].dwOutstandingAsync = @ - 1]
        /\ handle' = handle /\ list' = list
    BY <1>2, <1>9
  <2>2. Alters /\ KeepsCounts /\ RefsKept
    BY <1>1, <1>4, <2>1, MarkOk
  <2>3. thread' = [thread EXCEPT ![t].pc = "unlock", ![t].inner = thread[t].inner]
    BY <1>2, <1>9
  <2>4. Goto(t, "unlock")
    BY <1>5, <2>3 DEF Goto, ThreadOk, ThreadFields
  <2>5. LET r == thread[t] IN Is(thread'[t], "unlock", r.s, r.ctx, r.acc, r.a, r.inner, r.ol, r.op, r.n)
    BY <1>1, <2>4, GotoIs
  <2>6. ThreadOk(t, thread'[t])
    BY <1>3, <1>4, <1>5, <2>5, WorkFits
  <2>7. QED
    BY <1>2, <1>7, <2>1, <2>2, <2>4, <2>6, GotoStep
<1>10. QED
  BY <1>8, <1>9

-------------------------------------------------------------------------------
(***************************************************************************)
(* A socket comes.                                                         *)
(***************************************************************************)
LEMMA ConsIs ==
  ASSUME NEW S, NEW l \in Seq(S), NEW c \in S
  PROVE  LET r == <<c>> \o l
         IN  /\ r \in Seq(S) /\ \A d : On(r, d) <=> d = c \/ On(l, d)
             /\ NoTwice(l) /\ ~On(l, c) => NoTwice(r)
<1> DEFINE r == <<c>> \o l
<1>1. <<c>> \in Seq(S) /\ Len(<<c>>) = 1 /\ <<c>>[1] = c
  OBVIOUS
<1>2. /\ r \in Seq(S) /\ Len(r) = 1 + Len(l)
      /\ \A i \in 1..(1 + Len(l)) : r[i] = IF i <= 1 THEN <<c>>[i] ELSE l[i - 1]
  BY <1>1, ConcatProperties
<1> HIDE DEF r
<1>3. /\ Len(l) \in Nat /\ DOMAIN l = 1..Len(l) /\ DOMAIN r = 1..(1 + Len(l))
  BY <1>2, LenProperties
<1>4. \A i \in DOMAIN r : r[i] = IF i = 1 THEN c ELSE l[i - 1]
  BY <1>1, <1>2, <1>3
<1>5. \A d : On(r, d) => d = c \/ On(l, d)
  <2> SUFFICES ASSUME NEW d, NEW i \in DOMAIN r, r[i] = d, d # c PROVE On(l, d)
    BY DEF On
  <2>1. i # 1 /\ i - 1 \in DOMAIN l /\ l[i - 1] = d
    BY <1>3, <1>4
  <2>2. QED
    BY <2>1 DEF On
<1>6. \A d : On(l, d) => On(r, d)
  <2> SUFFICES ASSUME NEW d, NEW i \in DOMAIN l, l[i] = d PROVE On(r, d)
    BY DEF On
  <2>1. i + 1 \in DOMAIN r /\ i + 1 # 1 /\ (i + 1) - 1 = i
    BY <1>3
  <2>2. r[i + 1] = d
    BY <1>4, <2>1
  <2>3. QED
    BY <2>1, <2>2 DEF On
<1>7. On(r, c)
  <2>1. 1 \in DOMAIN r /\ r[1] = c
    BY <1>3, <1>4
  <2>2. QED
    BY <2>1 DEF On
<1>8. ASSUME NoTwice(l), ~On(l, c) PROVE NoTwice(r)
  <2> SUFFICES ASSUME NEW i \in DOMAIN r, NEW j \in DOMAIN r, r[i] = r[j] PROVE i = j
    BY DEF NoTwice
  <2>1. \A k \in DOMAIN r : k # 1 => k - 1 \in DOMAIN l /\ r[k] = l[k - 1] /\ r[k] # c
    BY <1>3, <1>4, <1>8 DEF On
  <2>2. CASE i = 1 \/ j = 1
    BY <1>4, <2>1, <2>2
  <2>3. CASE i # 1 /\ j # 1
    <3>1. i - 1 = j - 1
      BY <1>8, <2>1, <2>3 DEF NoTwice
    <3>2. QED
      BY <1>3, <3>1
  <2>4. QED
    BY <2>2, <2>3
<1>9. QED
  BY <1>2, <1>5, <1>6, <1>7, <1>8 DEF r

(* A new structure: in use with the handle s, or already freed again.      *)
Born(x, s) ==
  /\ InfoOk(x) /\ x.state \in {"used", "freed"}
  /\ x.state = "used" => x.RefCount = 0 /\ x.Bytes = 0 /\ x.moved = 0 /\ x.LayeredSocket = s
  /\ s # NoHandle => x.state = "used"

LEMMA NobodyHolds ==
  ASSUME Matched, NEW c \in Infos, info[c].state = "none"
  PROVE  Holders(c) = 0 /\ \A t \in Threads : thread[t].ctx # c /\ Held(thread[t], c) = 0
<1>1. \A t \in Threads : c \notin {thread[t].ctx, thread[t].acc, thread[t].inner}
  BY DEF Matched, ThreadMatched
<1>2. /\ {t \in Threads : thread[t].ctx = c} = {}
      /\ {t \in Threads : thread[t].inner = c} = {}
      /\ {t \in Threads : thread[t].acc = c /\ thread[t].pc \notin {"select", "setsockopt"}} = {}
  BY <1>1
<1>3. Holders(c) = 0
  <2> DEFINE A == {t \in Threads : thread[t].ctx = c}
             B == {t \in Threads : thread[t].inner = c}
             C == {t \in Threads : thread[t].acc = c /\ thread[t].pc \notin {"select", "setsockopt"}}
  <2>1. Holders(c) = Cardinality(A) + Cardinality(B) + Cardinality(C)
    BY DEF Holders
  <2>2. A = {} /\ B = {} /\ C = {}
    BY <1>2
  <2> HIDE DEF A, B, C
  <2>3. Cardinality(A) = 0 /\ Cardinality(B) = 0 /\ Cardinality(C) = 0
    BY <2>2, FS_EmptySet
  <2>4. QED
    BY <2>1, <2>3
<1>4. \A t \in Threads : thread[t].ctx # c /\ Held(thread[t], c) = 0
  BY <1>1 DEF Held
<1>5. QED
  BY <1>3, <1>4

LEMMA LinkedOk ==
  ASSUME InfosOk, Mapped, Listed, LspOk, LspStep, lsp'.kept = lsp.kept, NEW c \in Infos, info[c].state = "none",
         NEW s \in Handles \cup {NoHandle}, s # NoHandle => handle[s] = NoInfo,
         NEW x, Born(x, s), lsp'.faults = MaxFaults => x.state = "used", Linked(c, s, x)
  PROVE  /\ InfosOk' /\ Mapped' /\ Listed' /\ Ages
         /\ info'[c] = x /\ \A d \in Infos : d # c => info'[d] = info[d]
<1>1. /\ DOMAIN info' = Infos /\ info'[c] = x /\ \A d \in Infos : d # c => info'[d] = info[d]
      /\ list' = <<c>> \o list
      /\ DOMAIN handle' = Handles /\ \A h \in Handles : handle'[h] = IF h = s THEN c ELSE handle[h]
  BY DEF Linked, InfosOk, InsertSocketInfo
<1>2. InfosOk'
  BY <1>1 DEF InfosOk, Born, InfoOk
<1>3. \A d \in Infos : d # c => (Live(d)' <=> Live(d))
  BY <1>1 DEF Live
<1>4. Live(c)' <=> x.state = "used"
  BY <1>1 DEF Live
<1>5. ~Live(c)
  BY DEF Live
<1>6. Mapped'
  <2>1. ASSUME NEW h \in Handles
        PROVE  /\ handle'[h] \in Infos \cup {NoInfo}
               /\ handle'[h] # NoInfo => Live(handle[h])' \/ handle'[h] \in lsp'.kept
               /\ handle'[h] # NoInfo /\ Live(handle[h])' => info'[handle'[h]].LayeredSocket = h
    <3>1. CASE h = s
      <4>1. h # NoHandle
        BY LspSocketsAssumption
      <4>2. x.state = "used" /\ x.LayeredSocket = h
        BY <3>1, <4>1 DEF Born
      <4>3. QED
        BY <1>1, <3>1, <4>2 DEF Live
    <3>2. CASE h # s
      <4>1. handle'[h] = handle[h] /\ handle[h] \in Infos \cup {NoInfo}
        BY <1>1, <3>2 DEF Mapped
      <4>2. ASSUME handle[h] # NoInfo
            PROVE  /\ Live(handle[h])' \/ handle[h] \in lsp'.kept
                   /\ Live(handle[h])' => info'[handle[h]].LayeredSocket = h
        <5>1. /\ handle[h] \in Infos /\ (Live(handle[h]) \/ handle[h] \in lsp.kept)
              /\ Live(handle[h]) => info[handle[h]].LayeredSocket = h
          BY <4>1, <4>2 DEF Mapped
        <5>2. handle[h] # c
          BY <1>5, <5>1 DEF Listed
        <5>3. info'[handle[h]] = info[handle[h]]
          BY <1>1, <5>1, <5>2
        <5>4. QED
          BY <4>1, <5>1, <5>3 DEF Live
      <4>3. QED
        BY <4>1, <4>2
    <3>3. QED
      BY <3>1, <3>2
  <2>2. ASSUME NEW d \in Infos, Live(d)', info'[d].LayeredSocket # NoHandle
        PROVE  handle'[info'[d].LayeredSocket] = d
    <3>1. CASE d = c
      <4>1. x.LayeredSocket = s
        BY <1>4, <2>2, <3>1 DEF Born
      <4>2. info'[d].LayeredSocket = s /\ s \in Handles
        BY <1>1, <2>2, <3>1, <4>1
      <4>3. QED
        BY <1>1, <3>1, <4>2
    <3>2. CASE d # c
      <4>1. info'[d] = info[d] /\ Live(d)
        BY <1>1, <1>3, <2>2, <3>2
      <4>2. info[d].LayeredSocket \in Handles /\ handle[info[d].LayeredSocket] = d
        BY <2>2, <4>1 DEF Mapped, InfosOk, InfoOk
      <4>3. info[d].LayeredSocket # s
        BY <4>2, LspSocketsAssumption
      <4>4. QED
        BY <1>1, <4>1, <4>2, <4>3
    <3>3. QED
      BY <3>1, <3>2
  <2>3. QED
    BY <1>1, <2>1, <2>2 DEF Mapped, Live
<1>7. Listed'
  <2>1. list \in Seq(Infos) /\ NoTwice(list) /\ ~On(list, c)
    BY ListedIs
  <2>2. /\ list' \in Seq(Infos) /\ NoTwice(list') /\ \A d : On(list', d) <=> d = c \/ On(list, d)
    BY <1>1, <2>1, ConsIs
  <2>3. \A d : On(list, d) => d \in Infos
    BY <2>1, OnInfos
  <2>4. lsp'.faults = MaxFaults => lsp.faults = MaxFaults
    BY LspAssumption DEF LspOk, LspStep
  <2>5. \A d : On(list', d) => info'[d].state # "none"
    BY <1>1, <2>2, <2>3, ListedIs DEF Born
  <2>6. \A d \in Infos : Live(d)' => d \in lsp'.kept \/ On(list', d)
    BY <1>3, <2>2, ListedIs
  <2>9. \A d \in lsp'.kept : d # c /\ info'[d].state # "none" /\ ~On(list', d)
    <3>1. \A d \in lsp.kept : d \in Infos /\ info[d].state # "none" /\ ~On(list, d)
      BY ListedIs DEF LspOk
    <3>2. QED
      BY <1>1, <2>2, <3>1
  <2>7. lsp'.faults = MaxFaults => \A d : On(list', d) => Live(d)'
    BY <1>3, <1>4, <2>2, <2>3, <2>4, ListedIs
  <2>8. QED
    BY <2>2, <2>5, <2>6, <2>7, <2>9, ListedNextIs
<1>8. Ages
  BY <1>1 DEF Ages
<1>9. QED
  BY <1>1, <1>2, <1>6, <1>7, <1>8

\* No completion names a handle that has just been handed out for the first time.
LEMMA FirstUncounted ==
  ASSUME OlsOk, Mapped, InfosOk, Matched, NEW s \in Handles \cup {NoHandle}, s # NoHandle => handle[s] = NoInfo,
         \A d \in Infos : info[d].state = "freed" => info[d].given # s
  PROVE  Uncounted(s) = {}
<1> SUFFICES ASSUME NEW o \in Ols, Due(o), Target(ol[o]) = s PROVE FALSE
  BY DEF Uncounted
<1>1. UnderWay(o)
  BY DEF Due, UnderWay
<1>2. OlMatched(ol[o]) /\ OlOk(ol[o])
  BY <1>1 DEF Matched, OlsOk
<1>3. \E d \in Infos : Named(d, s)
  BY <1>2 DEF OlMatched, Target
<1>4. s \in Handles
  BY <1>2 DEF OlMatched, OlOk, Target
<1>5. PICK d \in Infos : info[d].state # "none" /\ info[d].given = s
  BY <1>3 DEF Named
<1>6. Live(d)
  BY <1>5 DEF InfosOk, InfoOk, Live
<1>7. handle[s] = d
  BY <1>4, <1>5, <1>6, OneOpen
<1>8. QED
  BY <1>4, <1>7, LspSocketsAssumption

LEMMA LinkStep ==
  ASSUME Good, NEW t \in Threads, Stays(t), NEW c \in Infos, info[c].state = "none",
         NEW s \in Handles \cup {NoHandle}, s # NoHandle => handle[s] = NoInfo,
         NEW x, Born(x, s), lsp'.faults = MaxFaults => x.state = "used", Linked(c, s, x),
         LspStep, lsp'.leaked = lsp.leaked /\ lsp'.kept = lsp.kept,
         ThreadOk(t, thread'[t]), ThreadMatched(thread'[t]),
         thread'[t].pc = "count" => thread'[t] = thread[t],
         \A d \in Infos : Held(thread'[t], d) = Held(thread[t], d)
  PROVE  Good'
<1>1. /\ LspOk /\ ThreadsOk /\ OlsOk /\ QueuesOk /\ InfosOk
      /\ Conserved /\ Balanced /\ Mapped /\ Listed /\ Matched /\ Accounted
  BY GoodIs
<1>2. OlsOk' /\ QueuesOk' /\ PlacesKept /\ NoneDue /\ OthersOl(t) /\ OlsAlike
  BY <1>1, StaysOk
<1>3. Only(t) /\ ol' = ol
  BY DEF Stays, structures
<1>4. /\ InfosOk' /\ Mapped' /\ Listed' /\ Ages
      /\ info'[c] = x /\ \A d \in Infos : d # c => info'[d] = info[d]
  BY <1>1, LinkedOk
<1>5. LspOk' /\ lsp'.faults <= lsp.faults /\ (lsp'.gBaseInfo => lsp.gBaseInfo)
  BY DEF LspStep
<1>6. ThreadsOk'
  BY <1>1, <1>3, ThreadsOkStep
<1>7. Conserved'
  BY <1>1, <1>2, <1>5, ConservedKept
<1>8. Balanced'
  <2> SUFFICES ASSUME NEW d \in Infos, Live(d)'
               PROVE  info'[d].RefCount = lsp'.leaked[d] + Holders(d)'
    BY DEF Balanced
  <2>1. /\ Holders(d) \in Nat /\ Holders(d)' \in Nat
        /\ Holders(d)' = Holders(d) + Held(thread'[t], d) - Held(thread[t], d)
    BY <1>3, HoldersChange
  <2>2. Held(thread[t], d) \in Int /\ Held(thread'[t], d) = Held(thread[t], d)
    BY HeldInt
  <2>3. CASE d = c
    <3>1. x.RefCount = 0 /\ lsp'.leaked[c] = 0 /\ Holders(c) = 0
      BY <1>1, <1>4, <2>3, NobodyHolds DEF Born, Live, Matched
    <3> HIDE DEF Holders, Held
    <3>2. QED
      BY <1>4, <2>1, <2>2, <2>3, <3>1
  <2>4. CASE d # c
    <3>1. info'[d] = info[d] /\ Live(d)
      BY <1>4, <2>4 DEF Live
    <3>2. info[d].RefCount = lsp.leaked[d] + Holders(d)
      BY <1>1, <3>1 DEF Balanced
    <3> HIDE DEF Holders, Held
    <3>3. QED
      BY <2>1, <2>2, <3>1, <3>2
  <2>5. QED
    BY <2>3, <2>4
<1>9. Matched'
  <2>1. ThreadMatched(thread[t])'
    <3>1. \A d \in Infos : info[d].state # "none" => info'[d].state # "none" /\ info'[d].given = info[d].given
      BY <1>4 DEF Ages
    <3>2. ThreadMatched(thread'[t]) /\ ThreadOk(t, thread'[t])
      OBVIOUS
    <3>3. QED
      BY <1>3, <3>1, <3>2, LspSocketsAssumption DEF ThreadMatched, Named, ThreadOk
  <2>2. LeaksOk
    BY <1>1, <1>4 DEF LeaksOk, Matched, Born
  <2>3. \A o \in Ols : UnderWay(o)' => OlMatched(ol[o])'
    BY <1>1, <1>2, <1>4, OlMatchedAges DEF OlsAlike, Matched
  <2>4. \A u \in Threads : u # t => thread'[u] = thread[u]
    BY <1>3 DEF Only
  <2>5. QED
    BY <1>1, <1>2, <1>4, <2>1, <2>2, <2>3, <2>4, MatchedStep
<1>10. Accounted'
  <2> SUFFICES ASSUME NEW d \in Infos, NEW h \in Handles \cup {NoHandle},
                      Live(d)', FirstOfHandle(d)', info'[d].given = h
               PROVE  CountedFor(d, h)'
    BY DEF Accounted
  <2>1. \A u \in Threads : thread'[u].pc = "count" => thread'[u] = thread[u]
    BY <1>3 DEF Only
  <2> DEFINE due == Cardinality(Uncounted(h))
             next == Cardinality(Uncounted(h)')
  <2>2. due \in Nat /\ next \in Nat /\ next <= due
    BY <1>2, UncountedFinite, UncountedShrinks
  <2>3. CASE d = c
    <3>1. x.Bytes = 0 /\ x.moved = 0 /\ x.given = s /\ h = s
      BY <1>4, <2>3 DEF Born, Live, InfoOk
    <3>2. \A e \in Infos : info[e].state = "freed" => info[e].given # h
      BY <1>4, <2>3 DEF FirstOfHandle, Live
    <3>3. Uncounted(h) = {}
      BY <1>1, <3>1, <3>2, FirstUncounted
    <3>4. due = 0
      BY <3>3, FS_EmptySet
    <3>5. \A u \in Threads : thread'[u].pc = "count" => thread'[u].ctx # c
      BY <1>1, <2>1, NobodyHolds
    <3>6. info'[d].Bytes + next <= info'[d].moved
      <4> HIDE DEF due, next
      <4>1. QED
        BY <1>4, <2>2, <2>3, <3>1, <3>4
    <3>7. QED
      BY <2>3, <3>5, <3>6 DEF CountedFor
  <2>4. CASE d # c
    <3>1. Live(d) /\ info'[d] = info[d] /\ info[d].state # "none"
      BY <1>4, <2>4 DEF Live
    <3>2. CountedFor(d, h)
      BY <1>1, <1>4, <3>1, AccountedOf
    <3>3. /\ info[d].Bytes + due <= info[d].moved
          /\ \A u \in Threads : thread[u].pc = "count" /\ thread[u].ctx = d => thread[u].n + due <= info[d].moved
      BY <3>2 DEF CountedFor
    <3>4. info[d].Bytes \in Int /\ info[d].moved \in Int /\ \A u \in Threads : thread[u].n \in Int
      BY <1>1 DEF InfosOk, InfoOk, ThreadsOk, ThreadOk
    <3> HIDE DEF due, next
    <3>5. info'[d].Bytes + next <= info'[d].moved
      BY <2>2, <3>1, <3>3, <3>4
    <3>6. ASSUME NEW u \in Threads, thread'[u].pc = "count", thread'[u].ctx = d
          PROVE  thread'[u].n + next <= info'[d].moved
      <4>1. thread'[u] = thread[u]
        BY <2>1, <3>6
      <4>2. QED
        BY <2>2, <3>1, <3>3, <3>4, <3>6, <4>1
    <3>7. QED
      BY <3>5, <3>6 DEF CountedFor, next
  <2>5. QED
    BY <2>3, <2>4
<1>11. QED
  BY <1>2, <1>4, <1>5, <1>6, <1>7, <1>8, <1>9, <1>10 DEF Good, Types

LEMMA FreshIs ==
  ASSUME NEW c, NEW s \in Handles \cup {NoHandle}, Fresh(c, s)
  PROVE  c \in Infos /\ info[c].state = "none" /\ (s # NoHandle => handle[s] = NoInfo)
BY DEF Fresh, Unborn, FreeHandles

LEMMA CreateIs ==
  ASSUME NEW p, NEW s \in Handles \cup {NoHandle}, NEW w
  PROVE  Born(CreateSockInfo(p, s, w), s) /\ CreateSockInfo(p, s, w).state = "used"
BY DEF CreateSockInfo, Blank, Born, InfoOk, InfoFields

LEMMA RemainsIs ==
  ASSUME InfosOk, NEW c \in Infos
  PROVE  Born(Remains(c), NoHandle)
<1>1. info[c].given \in Handles \cup {NoHandle}
  BY DEF InfosOk, InfoOk
<1>2. QED
  BY <1>1 DEF Remains, Blank, Born, InfoOk, InfoFields

LEMMA WSPSocketOk ==
  ASSUME Good, NEW t \in Threads, NEW c, NEW s \in Handles, WSPSocket(t, c, s), lsp'.health = "ok"
  PROVE  Good'
<1>1. LspOk /\ ThreadsOk /\ InfosOk /\ Matched /\ ~Wild
  BY GoodIs, NotOver
<1>2. /\ Fresh(c, s) /\ Linked(c, s, CreateSockInfo("open", s, FALSE))
      /\ lsp' = [lsp EXCEPT !.calls = @ - 1] /\ thread' = thread /\ UNCHANGED structures
  BY <1>1 DEF WSPSocket
<1>3. c \in Infos /\ info[c].state = "none" /\ (s # NoHandle => handle[s] = NoInfo)
  BY <1>2, FreshIs
<1>4. LspStep /\ lsp'.leaked = lsp.leaked /\ lsp'.kept = lsp.kept
  BY <1>1, <1>2, LspCalls
<1>5. ThreadOk(t, thread[t]) /\ ThreadMatched(thread[t]) /\ DOMAIN thread = Threads
  BY <1>1, ThreadIs
<1>6. Stays(t) /\ ThreadOk(t, thread'[t]) /\ ThreadMatched(thread'[t])
  BY <1>2, <1>5 DEF Stays, Only
<1>7. PICK x : x = CreateSockInfo("open", s, FALSE)
  OBVIOUS
<1>8. Born(x, s) /\ x.state = "used" /\ Linked(c, s, x)
  BY <1>2, <1>7, CreateIs
<1>9. QED
  BY <1>2, <1>3, <1>4, <1>6, <1>8, LinkStep

LEMMA NewSocketOk ==
  ASSUME Good, NEW t \in Threads, NEW c, NEW s \in Handles \cup {NoHandle}, NewSocket(t, c, s),
         lsp'.health = "ok"
  PROVE  Good'
<1>1. LspOk /\ ThreadsOk /\ InfosOk /\ Matched /\ ~Wild
  BY GoodIs, NotOver
<1>2. /\ thread[t].pc \in {"accept", "joinleaf"} /\ Fresh(c, s)
      /\ lsp' = (IF s = NoHandle THEN Fault ELSE lsp) /\ Exit(t) /\ UNCHANGED structures
  BY <1>1 DEF NewSocket
<1>3. c \in Infos /\ info[c].state = "none" /\ (s # NoHandle => handle[s] = NoInfo)
  BY <1>2, FreshIs
<1>4. PICK x : Linked(c, s, x) /\ \/ s = NoHandle /\ x = Remains(c)
                                  \/ \E p, w : x = CreateSockInfo(p, s, w)
  <2>1. PICK p : Linked(c, s, IF s = NoHandle /\ thread[t].pc = "joinleaf" THEN Remains(c)
                              ELSE CreateSockInfo(p, s, info[thread[t].ctx].hWnd))
    BY <1>1 DEF NewSocket
  <2>2. QED
    BY <2>1
<1>5. Born(x, s) /\ (x.state # "used" => s = NoHandle)
  BY <1>1, <1>3, <1>4, CreateIs, RemainsIs
<1>6. LspStep /\ lsp'.leaked = lsp.leaked /\ lsp'.kept = lsp.kept
  BY <1>1, <1>2, LspSame, LspFault
<1>7. lsp'.faults = MaxFaults => x.state = "used"
  <2>1. s = NoHandle => lsp'.faults = lsp.faults - 1
    BY <1>1, <1>2 DEF Fault, LspOk, LspFields
  <2>2. QED
    BY <1>1, <1>5, <2>1, LspAssumption DEF LspOk
<1>8. thread[t].pc \in Calls \ {"setsockopt"}
  BY <1>2 DEF Calls
<1>9. /\ Stays(t) /\ thread'[t].pc # "count" /\ ThreadOk(t, thread'[t]) /\ ThreadMatched(thread'[t])
      /\ \A d \in Infos : Held(thread'[t], d) = Held(thread[t], d)
  BY <1>2, <1>8, ExitThread
<1>10. QED
  BY <1>3, <1>4, <1>5, <1>6, <1>7, <1>9, LinkStep

-------------------------------------------------------------------------------
(***************************************************************************)
(* The structures on their way.                                            *)
(***************************************************************************)
\* What a thread has is in no other place.
LEMMA CarriedIs ==
  ASSUME QueuesOk, Conserved, NEW t \in Threads, NEW o \in Ols, thread[t].ol = o
  PROVE  /\ o \notin lower /\ o \notin lost
         /\ \A i \in DOMAIN pool : pool[i] # o
         /\ \A i \in DOMAIN pending : pending[i] # o
         /\ \A i \in DOMAIN port : port[i] # o
         /\ \A u \in Threads : u # t => thread[u].ol # o
<1>1. /\ Places(o) = Copies(pool, o) + Copies(pending, o) + Copies(port, o)
                     + Cardinality(Carriers(o)) + Flag(o, lower) + Flag(o, lost)
      /\ Copies(pool, o) \in Nat /\ Copies(pending, o) \in Nat /\ Copies(port, o) \in Nat
      /\ Cardinality(Carriers(o)) \in Nat
  BY PlacesAre
<1>2. Places(o) <= 1
  BY DEF Conserved
<1>3. IsFiniteSet(Carriers(o)) /\ t \in Carriers(o)
  BY FiniteSets, FS_Subset DEF Carriers
<1>4. Cardinality(Carriers(o)) # 0
  BY <1>3, FS_EmptySet
<1>5. Flag(o, lower) \in {0, 1} /\ Flag(o, lost) \in {0, 1}
  BY DEF Flag
<1>6. /\ Copies(pool, o) = 0 /\ Copies(pending, o) = 0 /\ Copies(port, o) = 0
      /\ Cardinality(Carriers(o)) = 1 /\ Flag(o, lower) = 0 /\ Flag(o, lost) = 0
  <2> HIDE DEF Places, Carriers, Flag
  <2>1. QED
    BY <1>1, <1>2, <1>4, <1>5
<1>7. /\ \A i \in DOMAIN pool : pool[i] # o
      /\ \A i \in DOMAIN pending : pending[i] # o
      /\ \A i \in DOMAIN port : port[i] # o
  BY <1>6, CopiesNone DEF QueuesOk
<1>8. \A u \in Threads : u # t => thread[u].ol # o
  BY <1>3, <1>6, FS_Singleton DEF Carriers
<1>9. QED
  BY <1>6, <1>7, <1>8 DEF Flag

LEMMA PendingIs ==
  ASSUME QueuesOk, Conserved, NEW o \in Ols, \E i \in DOMAIN pending : pending[i] = o
  PROVE  o \notin lower /\ o \notin lost
<1>1. /\ Places(o) = Copies(pool, o) + Copies(pending, o) + Copies(port, o)
                     + Cardinality(Carriers(o)) + Flag(o, lower) + Flag(o, lost)
      /\ Copies(pool, o) \in Nat /\ Copies(pending, o) \in Nat /\ Copies(port, o) \in Nat
      /\ Cardinality(Carriers(o)) \in Nat
  BY PlacesAre
<1>2. Places(o) <= 1
  BY DEF Conserved
<1>3. Copies(pending, o) # 0
  BY CopiesNone DEF QueuesOk
<1>4. Flag(o, lower) \in {0, 1} /\ Flag(o, lost) \in {0, 1}
  BY DEF Flag
<1>5. Flag(o, lower) = 0 /\ Flag(o, lost) = 0
  <2> HIDE DEF Places, Carriers, Flag
  <2>1. QED
    BY <1>1, <1>2, <1>3, <1>4
<1>6. QED
  BY <1>5 DEF Flag

\* What one place loses another has.
LEMMA PlacesSame ==
  ASSUME QueuesOk, QueuesOk', NEW t \in Threads, Only(t), NEW o,
         Copies(pool', o) + Copies(pending', o) + Copies(port', o) + Flag(o, lower') + Flag(o, lost')
             + (IF thread'[t].ol = o THEN 1 ELSE 0)
           = Copies(pool, o) + Copies(pending, o) + Copies(port, o) + Flag(o, lower) + Flag(o, lost)
             + (IF thread[t].ol = o THEN 1 ELSE 0)
  PROVE  Places(o)' = Places(o)
<1>1. /\ Places(o) = Copies(pool, o) + Copies(pending, o) + Copies(port, o)
                     + Cardinality(Carriers(o)) + Flag(o, lower) + Flag(o, lost)
      /\ Copies(pool, o) \in Nat /\ Copies(pending, o) \in Nat /\ Copies(port, o) \in Nat
      /\ Cardinality(Carriers(o)) \in Nat
  BY PlacesAre
<1>2. /\ Places(o)' = Copies(pool', o) + Copies(pending', o) + Copies(port', o)
                     + Cardinality(Carriers(o)') + Flag(o, lower') + Flag(o, lost')
      /\ Copies(pool', o) \in Nat /\ Copies(pending', o) \in Nat /\ Copies(port', o) \in Nat
      /\ Cardinality(Carriers(o)') \in Nat
  BY PlacesNextAre
<1>3. Cardinality(Carriers(o)') = Cardinality(Carriers(o))
        + (IF thread'[t].ol = o THEN 1 ELSE 0) - (IF thread[t].ol = o THEN 1 ELSE 0)
  BY CarriersChange
<1>4. /\ Flag(o, lower) \in {0, 1} /\ Flag(o, lost) \in {0, 1}
      /\ Flag(o, lower') \in {0, 1} /\ Flag(o, lost') \in {0, 1}
  BY DEF Flag
<1> DEFINE x == IF thread'[t].ol = o THEN 1 ELSE 0
           y == IF thread[t].ol = o THEN 1 ELSE 0
<1>5. x \in Int /\ y \in Int
  OBVIOUS
<1>6. /\ Cardinality(Carriers(o)') = Cardinality(Carriers(o)) + x - y
      /\ Copies(pool', o) + Copies(pending', o) + Copies(port', o) + Flag(o, lower') + Flag(o, lost') + x
           = Copies(pool, o) + Copies(pending, o) + Copies(port, o) + Flag(o, lower) + Flag(o, lost) + y
  BY <1>3
<1> HIDE DEF Places, Carriers, Flag, Copies, x, y
<1>7. QED
  BY <1>1, <1>2, <1>4, <1>5, <1>6

LEMMA OthersFollow ==
  ASSUME ThreadsOk, NEW t, \A u \in Threads : u # t => thread'[u] = thread[u], OlsAlike
  PROVE  OthersOl(t)
<1>1. ASSUME NEW u \in Threads, u # t, thread[u].ol # NoOl
      PROVE  ol'[thread[u].ol].CallerSocket = ol[thread[u].ol].CallerSocket
  <2>1. thread[u].ol \in Ols
    BY <1>1 DEF ThreadsOk, ThreadOk
  <2>2. \A o : thread[u].ol = o => UnderWay(o)'
    BY <1>1 DEF UnderWay
  <2>3. QED
    BY <2>1, <2>2 DEF OlsAlike, OlKept
<1>2. QED
  BY <1>1 DEF OthersOl

LEMMA MatchedNext ==
  ASSUME SocketsStay, NEW t, NEW r, thread'[t] = r, ThreadMatched(r), r.inner = NoInfo,
         r.ctx \in Infos \cup {NoInfo}, r.acc \in Infos \cup {NoInfo}
  PROVE  ThreadMatched(thread[t])'
<1>1. /\ \A d \in Infos : info'[d].state = info[d].state /\ info'[d].given = info[d].given
  BY DEF SocketsStay, StaysAs
<1>2. QED
  BY <1>1, LspSocketsAssumption DEF ThreadMatched, Named

(* A thread hands its structure on, or puts it back.                       *)
Done(t) == thread' = [thread EXCEPT ![t] = IF t \in Apps THEN Leaving(t) ELSE Idle]

LEMMA DoneThread ==
  ASSUME ThreadsOk, Matched, NEW t \in Threads, thread[t].pc \in {"queue", "putback"}, Done(t)
  PROVE  /\ Only(t) /\ thread'[t].ol = NoOl /\ thread'[t].pc \notin {"count", "complete", "account"}
         /\ ThreadOk(t, thread'[t]) /\ ThreadMatched(thread'[t]) /\ thread'[t].inner = NoInfo
         /\ thread'[t].ctx \in Infos \cup {NoInfo} /\ thread'[t].acc \in Infos \cup {NoInfo}
         /\ \A d \in Infos : Held(thread'[t], d) = Held(thread[t], d)
<1>1. ThreadOk(t, thread[t]) /\ ThreadMatched(thread[t]) /\ DOMAIN thread = Threads
  BY ThreadIs
<1>2. thread[t].pc \in Working /\ thread[t].pc \notin Inner /\ thread[t].pc \notin Alone
  BY PcsDiffer DEF Working, Inner
<1>3. /\ thread[t].inner = NoInfo
      /\ thread[t].ctx \in Infos \cup {NoInfo} /\ thread[t].acc \in Infos \cup {NoInfo}
      /\ thread[t].ctx # NoInfo <=> t \in Apps
      /\ thread[t].acc # NoInfo => thread[t].ctx # NoInfo
  BY <1>1, <1>2 DEF ThreadOk, Alone
<1>4. thread[t].pc \notin {"select", "setsockopt"}
  OBVIOUS
<1>5. CASE t \in Apps
  <2>1. Only(t) /\ thread'[t] = Leaving(t)
    BY <1>1, <1>5, ReplacedIs DEF Done
  <2>2. Is(thread'[t], "leave", NoHandle, thread[t].ctx, thread[t].acc, NoHandle, NoInfo, NoOl, "none", 0)
    BY <2>1, LeavingIs
  <2>3. ThreadOk(t, thread'[t])
    <3>1. CallFits("leave", NoHandle, thread[t].acc, NoHandle, "none")
      BY <1>3 DEF CallFits, Calls
    <3>2. QED
      BY <1>3, <1>5, <2>2, <3>1, CallThreadOk
  <2>4. ThreadMatched(thread'[t])
    BY <1>1, <2>2, LspSocketsAssumption DEF ThreadMatched, Is
  <2>5. \A d \in Infos : Held(thread'[t], d) = Held(thread[t], d)
    BY <1>3, <1>4, <2>2, LspSocketsAssumption DEF Held, Is
  <2>6. QED
    BY <1>3, <2>1, <2>2, <2>3, <2>4, <2>5 DEF Is
<1>6. CASE t \notin Apps
  <2>1. Only(t) /\ thread'[t] = Idle
    BY <1>1, <1>6, ReplacedIs DEF Done
  <2>2. Is(thread'[t], "idle", NoHandle, NoInfo, NoInfo, NoHandle, NoInfo, NoOl, "none", 0)
    BY <2>1, IdleIs
  <2>3. ThreadOk(t, thread'[t])
    <3>1. "idle" \in Alone /\ "idle" \notin Working /\ "idle" \notin Inner
      BY PcsDiffer DEF Alone
    <3>2. QED
      BY <1>6, <2>2, <3>1 DEF ThreadOk, Is
  <2>4. ThreadMatched(thread'[t])
    BY <2>2, LspSocketsAssumption DEF ThreadMatched, Is
  <2>5. \A d \in Infos : Held(thread'[t], d) = Held(thread[t], d)
    BY <1>3, <1>6, <2>2, LspSocketsAssumption DEF Held, Is
  <2>6. QED
    BY <2>1, <2>2, <2>3, <2>4, <2>5 DEF Is
<1>7. QED
  BY <1>5, <1>6

(* A step that moves structures, none of which is due, and keeps the       *)
(* references.                                                             *)
LEMMA CarryStep ==
  ASSUME Good, NEW t \in Threads, Only(t), OlsOk', QueuesOk', PlacesKept, OlsAlike, NoneDue,
         list' = list, handle' = handle, Alters, RefsKept, KeepsCounts, LspStep, lsp'.leaked = lsp.leaked /\ lsp'.kept = lsp.kept,
         ThreadOk(t, thread'[t]), ThreadMatched(thread'[t]), thread'[t].inner = NoInfo,
         thread'[t].pc # "count", \A d \in Infos : Held(thread'[t], d) = Held(thread[t], d)
  PROVE  Good'
<1>1. LspOk /\ ThreadsOk /\ InfosOk /\ Matched /\ Accounted
  BY GoodIs
<1>2. \A u \in Threads : u # t => thread'[u] = thread[u]
  BY DEF Only
<1>3. OthersOl(t)
  BY <1>1, <1>2, OthersFollow
<1>4. SocketsStay /\ LeaksOk /\ CountsStay
  BY <1>1, AltersOk
<1>5. Refs(t)
  BY <1>1, RefsKeptOk
<1>6. thread'[t].ctx \in Infos \cup {NoInfo} /\ thread'[t].acc \in Infos \cup {NoInfo}
  BY DEF ThreadOk
<1>7. ThreadMatched(thread[t])'
  BY <1>4, <1>6, MatchedNext
<1>8. Types' /\ Conserved' /\ Balanced' /\ Mapped' /\ Listed' /\ Matched' /\ Ages
  BY <1>3, <1>4, <1>5, <1>7, MoveStep
<1>9. Accounted'
  BY <1>1, <1>2, <1>4, <1>8, AccountedStep
<1>10. QED
  BY <1>8, <1>9 DEF Good

LEMMA QueueThread ==
  ASSUME ThreadsOk, OlsOk, Matched, NEW t \in Threads, thread[t].pc \in {"queue", "putback"}
  PROVE  /\ thread[t].ol \in Ols /\ UnderWay(thread[t].ol) /\ OlOk(ol[thread[t].ol])
         /\ thread[t].pc = "queue" => t \in Apps /\ thread[t].ctx \in Infos
<1>1. thread[t].pc \in Working /\ thread[t].pc \notin Alone
  BY PcsDiffer DEF Working
<1>2. ThreadOk(t, thread[t])
  BY DEF ThreadsOk
<1>3. thread[t].pc = "queue" => t \in Apps
  BY <1>2 DEF ThreadOk, Working
<1>4. QED
  BY <1>1, <1>2, <1>3, WorkThread DEF ThreadOk

LEMMA EnqueueOk == ASSUME Good, NEW t \in Threads, EnqueueOverlappedOperation(t) PROVE Good'
<1> DEFINE o == thread[t].ol
<1>1. /\ LspOk /\ ThreadsOk /\ OlsOk /\ QueuesOk /\ InfosOk
      /\ Conserved /\ Balanced /\ Mapped /\ Listed /\ Matched /\ Accounted
  BY GoodIs
<1>2. /\ thread[t].pc = "queue" /\ pending' = Append(pending, o) /\ Exit(t)
      /\ lsp' = lsp /\ ol' = ol /\ pool' = pool /\ lower' = lower /\ port' = port /\ lost' = lost
      /\ info' = info /\ list' = list /\ handle' = handle
  BY DEF EnqueueOverlappedOperation, At, sockets
<1>3. o \in Ols /\ UnderWay(o) /\ t \in Apps
  BY <1>1, <1>2, QueueThread
<1>4. Done(t)
  BY <1>2, <1>3 DEF Exit, Done
<1>5. /\ Only(t) /\ thread'[t].ol = NoOl /\ thread'[t].pc \notin {"count", "complete", "account"}
      /\ ThreadOk(t, thread'[t]) /\ ThreadMatched(thread'[t]) /\ thread'[t].inner = NoInfo
      /\ \A d \in Infos : Held(thread'[t], d) = Held(thread[t], d)
  BY <1>1, <1>2, <1>4, DoneThread
<1> HIDE DEF o
<1>6. /\ pending' \in Seq(Ols)
      /\ \A y : Copies(pending', y) = Copies(pending, y) + (IF o = y THEN 1 ELSE 0)
      /\ \A i \in DOMAIN pending' : pending'[i] = o \/ \E j \in DOMAIN pending : pending'[i] = pending[j]
  BY <1>1, <1>2, <1>3, CopiesAppend DEF QueuesOk
<1>7. OlsOk' /\ QueuesOk'
  BY <1>1, <1>2, <1>6 DEF OlsOk, QueuesOk
<1>8. PlacesKept
  <2>1. ASSUME NEW y \in Ols PROVE Places(y)' = Places(y)
    <3>1. (IF thread'[t].ol = y THEN 1 ELSE 0) = 0
      BY <1>5, LspAssumption
    <3>2. (IF thread[t].ol = y THEN 1 ELSE 0) = (IF o = y THEN 1 ELSE 0)
      BY DEF o
    <3>3. Copies(pool, y) \in Nat /\ Copies(pending, y) \in Nat /\ Copies(port, y) \in Nat
      BY <1>1, PlacesAre
    <3>4. Flag(y, lower) \in Int /\ Flag(y, lost) \in Int
      BY DEF Flag
    <3> HIDE DEF Copies, Flag
    <3>5. QED
      BY <1>1, <1>2, <1>5, <1>6, <1>7, <3>1, <3>2, <3>3, <3>4, PlacesSame
  <2>2. QED
    BY <1>2, <2>1 DEF PlacesKept
<1>9. OlsAlike
  <2>1. ASSUME NEW y \in Ols, UnderWay(y)' PROVE UnderWay(y)
    <3>1. CASE y = o
      BY <1>3, <3>1
    <3>2. CASE y # o
      BY <1>2, <1>5, <1>6, <2>1, <3>2, LspAssumption DEF UnderWay, Only
    <3>3. QED
      BY <3>1, <3>2
  <2>2. QED
    BY <1>2, <2>1 DEF OlsAlike, OlKept
<1>10. NoneDue
  BY <1>2, <1>5 DEF NoneDue, Due, Only
<1>11. Alters /\ KeepsCounts /\ RefsKept /\ LspStep /\ lsp'.leaked = lsp.leaked /\ lsp'.kept = lsp.kept
  BY <1>1, <1>2, InfoSameOk, LspSame
<1>12. QED
  BY <1>2, <1>5, <1>7, <1>8, <1>9, <1>10, <1>11, CarryStep

(* The provider below has it, or will never report it.                     *)
Sent(o) == \/ lower' = lower \cup {o} /\ lost' = lost
           \/ lower' = lower /\ lost' = lost \cup {o}

LEMMA SentIs ==
  ASSUME QueuesOk, NEW o \in Ols, o \notin lower, o \notin lost, Sent(o)
  PROVE  /\ lower' \subseteq Ols /\ lost' \subseteq Ols
         /\ \A y : /\ Flag(y, lower') + Flag(y, lost') = Flag(y, lower) + Flag(y, lost) + (IF o = y THEN 1 ELSE 0)
                   /\ Flag(y, lower) \in Int /\ Flag(y, lost) \in Int
                   /\ Flag(y, lower') \in Int /\ Flag(y, lost') \in Int
         /\ \A y \in lower' : y \in lower \/ y = o
<1>1. CASE lower' = lower \cup {o} /\ lost' = lost
  BY <1>1 DEF QueuesOk, Flag
<1>2. CASE lower' = lower /\ lost' = lost \cup {o}
  BY <1>2 DEF QueuesOk, Flag
<1>3. QED
  BY <1>1, <1>2 DEF Sent

LEMMA SentStep ==
  ASSUME Good, NEW t \in Threads, thread[t].pc = "queue", Done(t), Sent(thread[t].ol),
         ol' = ol, pool' = pool, pending' = pending, port' = port,
         list' = list, handle' = handle, Alters, RefsKept, KeepsCounts, LspStep, lsp'.leaked = lsp.leaked /\ lsp'.kept = lsp.kept
  PROVE  Good'
<1> DEFINE o == thread[t].ol
<1>1. /\ LspOk /\ ThreadsOk /\ OlsOk /\ QueuesOk /\ InfosOk
      /\ Conserved /\ Balanced /\ Mapped /\ Listed /\ Matched /\ Accounted
  BY GoodIs
<1>2. o \in Ols /\ UnderWay(o) /\ t \in Apps
  BY <1>1, QueueThread
<1>3. o \notin lower /\ o \notin lost
  BY <1>1, <1>2, CarriedIs
<1>4. /\ Only(t) /\ thread'[t].ol = NoOl /\ thread'[t].pc \notin {"count", "complete", "account"}
      /\ ThreadOk(t, thread'[t]) /\ ThreadMatched(thread'[t]) /\ thread'[t].inner = NoInfo
      /\ \A d \in Infos : Held(thread'[t], d) = Held(thread[t], d)
  BY <1>1, DoneThread
<1> HIDE DEF o
<1>5. /\ lower' \subseteq Ols /\ lost' \subseteq Ols
      /\ \A y : /\ Flag(y, lower') + Flag(y, lost') = Flag(y, lower) + Flag(y, lost) + (IF o = y THEN 1 ELSE 0)
                /\ Flag(y, lower) \in Int /\ Flag(y, lost) \in Int
                /\ Flag(y, lower') \in Int /\ Flag(y, lost') \in Int
      /\ \A y \in lower' : y \in lower \/ y = o
  BY <1>1, <1>2, <1>3, SentIs DEF o
<1>6. OlsOk' /\ QueuesOk'
  BY <1>1, <1>5 DEF OlsOk, QueuesOk
<1>7. PlacesKept
  <2>1. ASSUME NEW y \in Ols PROVE Places(y)' = Places(y)
    <3>1. (IF thread'[t].ol = y THEN 1 ELSE 0) = 0
      BY <1>4, LspAssumption
    <3>2. (IF thread[t].ol = y THEN 1 ELSE 0) = (IF o = y THEN 1 ELSE 0)
      BY DEF o
    <3>3. Copies(pool, y) \in Nat /\ Copies(pending, y) \in Nat /\ Copies(port, y) \in Nat
      BY <1>1, PlacesAre
    <3> HIDE DEF Copies, Flag
    <3>4. Copies(pool', y) + Copies(pending', y) + Copies(port', y) + Flag(y, lower') + Flag(y, lost')
             + (IF thread'[t].ol = y THEN 1 ELSE 0)
           = Copies(pool, y) + Copies(pending, y) + Copies(port, y) + Flag(y, lower) + Flag(y, lost)
             + (IF thread[t].ol = y THEN 1 ELSE 0)
      BY <1>5, <3>1, <3>2, <3>3
    <3>5. QED
      BY <1>1, <1>4, <1>6, <3>4, PlacesSame
  <2>2. QED
    BY <2>1 DEF PlacesKept
<1>8. OlsAlike
  <2>1. ASSUME NEW y \in Ols, UnderWay(y)' PROVE UnderWay(y)
    <3>1. CASE y = o
      BY <1>2, <3>1
    <3>2. CASE y # o
      BY <1>4, <1>5, <2>1, <3>2, LspAssumption DEF UnderWay, Only
    <3>3. QED
      BY <3>1, <3>2
  <2>2. QED
    BY <2>1 DEF OlsAlike, OlKept
<1>9. NoneDue
  BY <1>4 DEF NoneDue, Due, Only
<1>10. QED
  BY <1>4, <1>6, <1>7, <1>8, <1>9, CarryStep

LEMMA LspHealth ==
  ASSUME LspOk, NEW v, lsp' = [lsp EXCEPT !.health = v]
  PROVE  LspStep /\ lsp'.leaked = lsp.leaked /\ lsp'.kept = lsp.kept
BY DEF LspOk, LspFields, LspStep

LEMMA QueueOk ==
  ASSUME Good, NEW t \in Threads, QueueOverlappedOperation(t), lsp'.health = "ok"
  PROVE  Good'
<1> DEFINE c == thread[t].ctx
           o == thread[t].ol
<1>1. /\ LspOk /\ ThreadsOk /\ OlsOk /\ QueuesOk /\ InfosOk
      /\ Conserved /\ Balanced /\ Mapped /\ Listed /\ Matched /\ Accounted
      /\ ~Wild
  BY GoodIs, NotOver
<1>2. PICK associated, a : /\ info' = [info EXCEPT ![c].hIocp = associated]
                           /\ ExecuteOverlappedOperation(t, o, associated, a)
  BY <1>1 DEF QueueOverlappedOperation
<1>3. /\ thread[t].pc = "queue" /\ ol' = ol /\ pool' = pool /\ pending' = pending /\ port' = port
      /\ list' = list /\ handle' = handle
  BY <1>1 DEF QueueOverlappedOperation, At
<1>4. o \in Ols /\ t \in Apps /\ c \in Infos
  BY <1>1, <1>3, QueueThread
<1>5. Alters /\ KeepsCounts /\ RefsKept
  <2> HIDE DEF c, o
  <2>1. QED
    BY <1>1, <1>2, <1>4, MarkOk
<1>6. ThreadOk(t, thread[t])
  BY <1>1 DEF ThreadsOk
<1>7. CASE Refused(o, a)
  <2>1. /\ thread' = [thread EXCEPT ![t].pc = "check", ![t].ol = o]
        /\ lsp' = [lsp EXCEPT !.health = IF a = "done" THEN "wild" ELSE @]
        /\ lower' = lower /\ lost' = lost
    BY <1>2, <1>7 DEF ExecuteOverlappedOperation
  <2>2. LspStep /\ lsp'.leaked = lsp.leaked /\ lsp'.kept = lsp.kept
    BY <1>1, <2>1, LspHealth
  <2>3. Goto(t, "check")
    BY <1>6, <2>1 DEF Goto, ThreadOk, ThreadFields
  <2>4. LET r == thread[t] IN Is(thread'[t], "check", r.s, r.ctx, r.acc, r.a, r.inner, r.ol, r.op, r.n)
    BY <1>1, <2>3, GotoIs
  <2>5. /\ "check" \in Working \ {"queue"} /\ "check" \notin Inner
        /\ thread[t].pc \in Working /\ thread[t].pc \notin Inner
    BY <1>3 DEF Working, Inner
  <2>6. thread[t].inner = NoInfo
    BY <1>6, <2>5 DEF ThreadOk
  <2>7. ThreadOk(t, thread'[t])
    BY <1>6, <2>4, <2>5, <2>6, WorkFits
  <2>9. UNCHANGED structures
    BY <1>3, <2>1 DEF structures
  <2>10. QED
    BY <1>3, <1>5, <2>2, <2>3, <2>7, <2>9, GotoStep
<1>8. CASE ~Refused(o, a)
  <2>1. /\ Done(t) /\ Sent(o) /\ lsp' \in {lsp, Fault}
    BY <1>2, <1>8 DEF ExecuteOverlappedOperation, Done, Sent
  <2>2. LspStep /\ lsp'.leaked = lsp.leaked /\ lsp'.kept = lsp.kept
    BY <1>1, <2>1, LspSame, LspFault
  <2>3. QED
    BY <1>3, <1>5, <2>1, <2>2, SentStep
<1>9. QED
  BY <1>7, <1>8

-------------------------------------------------------------------------------
(***************************************************************************)
(* A worker takes a structure from a queue.                                *)
(***************************************************************************)
LEMMA WorkerThread ==
  ASSUME ThreadsOk, Matched, NEW w \in Workers, thread[w].pc = "idle",
         NEW r, NEW p \in {"idle", "exited", "check", "complete"}, NEW o \in Ols \cup {NoOl},
         p \in {"check", "complete"} <=> o # NoOl, NEW op, NEW n \in Int,
         Is(r, p, NoHandle, NoInfo, NoInfo, NoHandle, NoInfo, o, op, n)
  PROVE  /\ ThreadOk(w, r) /\ ThreadMatched(r) /\ r.inner = NoInfo /\ r.pc # "count"
         /\ \A d \in Infos : Held(r, d) = Held(thread[w], d)
<1>1. w \in Threads /\ w \notin Apps
  BY LspAssumption DEF Threads
<1>2. \A d \in Infos : Held(thread[w], d) = 0
  BY <1>1, IdleThread
<1>3. ThreadOk(w, r)
  BY <1>1 DEF ThreadOk, Is, Working, Inner
<1>4. ThreadMatched(r) /\ r.inner = NoInfo /\ r.pc # "count"
  BY LspSocketsAssumption DEF ThreadMatched, Is
<1>5. \A d \in Infos : Held(r, d) = 0
  BY LspSocketsAssumption DEF Held, Is
<1>6. QED
  BY <1>2, <1>3, <1>4, <1>5

LEMMA WorkerIdle ==
  ASSUME ThreadsOk, Matched, NEW w \in Workers, thread[w].pc = "idle"
  PROVE  LET r == thread[w]
         IN  w \in Threads /\ Is(r, "idle", NoHandle, NoInfo, NoInfo, NoHandle, NoInfo, NoOl, r.op, r.n) /\ r.n \in Int
<1>1. w \in Threads
  BY DEF Threads
<1>2. ThreadOk(w, thread[w]) /\ ThreadMatched(thread[w])
  BY <1>1, ThreadIs
<1>3. thread[w].ctx = NoInfo /\ thread[w].acc = NoInfo /\ thread[w].inner = NoInfo /\ thread[w].ol = NoOl
  BY <1>1, IdleThread
<1>4. QED
  BY <1>1, <1>2, <1>3 DEF Is, ThreadOk, ThreadMatched

LEMMA DequeueOk ==
  ASSUME Good, NEW w \in Workers, DequeueOverlappedOperation(w), lsp'.health = "ok"
  PROVE  Good'
<1> DEFINE o == Head(pending)
<1>1. /\ LspOk /\ ThreadsOk /\ OlsOk /\ QueuesOk /\ InfosOk
      /\ Conserved /\ Balanced /\ Mapped /\ Listed /\ Matched /\ Accounted
  BY GoodIs
<1>2. PICK a : ExecuteOverlappedOperation(w, o, TRUE, a)
  BY DEF DequeueOverlappedOperation
<1>3. /\ thread[w].pc = "idle" /\ pending # <<>> /\ pending' = Tail(pending)
      /\ ol' = ol /\ pool' = pool /\ port' = port /\ info' = info /\ list' = list /\ handle' = handle
  BY DEF DequeueOverlappedOperation, At, sockets
<1>4. /\ w \in Threads /\ thread[w].n \in Int
      /\ LET r == thread[w] IN Is(r, "idle", NoHandle, NoInfo, NoInfo, NoHandle, NoInfo, NoOl, r.op, r.n)
  BY <1>1, <1>3, WorkerIdle
<1>5. pending \in Seq(Ols)
  BY <1>1 DEF QueuesOk
<1>6. /\ o \in Ols /\ pending' \in Seq(Ols) /\ \E i \in DOMAIN pending : pending[i] = o
      /\ \A y : Copies(pending, y) = Copies(pending', y) + (IF o = y THEN 1 ELSE 0)
      /\ \A i \in DOMAIN pending' : \E j \in DOMAIN pending : pending'[i] = pending[j]
  BY <1>3, <1>5, CopiesTail
<1>7. UnderWay(o)
  BY <1>6 DEF UnderWay
<1>8. o \notin lower /\ o \notin lost
  BY <1>1, <1>6, PendingIs
<1> HIDE DEF o
<1>9. Alters /\ KeepsCounts /\ RefsKept
  BY <1>1, <1>3, InfoSameOk
<1>10. w \notin Apps
  BY LspAssumption
<1>11. DOMAIN thread = Threads /\ DOMAIN thread[w] = ThreadFields
  BY <1>1, <1>4 DEF ThreadsOk, ThreadOk
<1>12. /\ Only(w) /\ LspStep /\ lsp'.leaked = lsp.leaked /\ lsp'.kept = lsp.kept
       /\ ThreadOk(w, thread'[w]) /\ ThreadMatched(thread'[w]) /\ thread'[w].inner = NoInfo
       /\ thread'[w].pc # "count" /\ \A d \in Infos : Held(thread'[w], d) = Held(thread[w], d)
       /\ \/ thread'[w].pc = "check" /\ thread'[w].ol = o /\ lower' = lower /\ lost' = lost
          \/ thread'[w].pc = "idle" /\ thread'[w].ol = NoOl /\ Sent(o)
  <2>1. CASE Refused(o, a)
    <3>1. /\ thread' = [thread EXCEPT ![w].pc = "check", ![w].ol = o]
          /\ lsp' = [lsp EXCEPT !.health = IF a = "done" THEN "wild" ELSE @]
          /\ lower' = lower /\ lost' = lost
      BY <1>2, <2>1 DEF ExecuteOverlappedOperation
    <3>2. LspStep /\ lsp'.leaked = lsp.leaked /\ lsp'.kept = lsp.kept
      BY <1>1, <3>1, LspHealth
    <3>3. Only(w) /\ Is(thread'[w], "check", NoHandle, NoInfo, NoInfo, NoHandle, NoInfo, o, thread[w].op, thread[w].n)
      BY <1>4, <1>11, <3>1 DEF Only, Is, ThreadFields
    <3>4. o \in Ols \cup {NoOl} /\ o # NoOl
      BY <1>6, LspAssumption
    <3>5. /\ ThreadOk(w, thread'[w]) /\ ThreadMatched(thread'[w]) /\ thread'[w].inner = NoInfo
          /\ thread'[w].pc # "count" /\ \A d \in Infos : Held(thread'[w], d) = Held(thread[w], d)
      BY <1>1, <1>3, <1>4, <3>3, <3>4, WorkerThread
    <3>6. QED
      BY <3>1, <3>2, <3>3, <3>5 DEF Is
  <2>2. CASE ~Refused(o, a)
    <3>1. /\ thread' = [thread EXCEPT ![w] = Idle] /\ Sent(o) /\ lsp' = lsp
      BY <1>2, <1>10, <2>2 DEF ExecuteOverlappedOperation, Sent
    <3>2. Only(w) /\ Is(thread'[w], "idle", NoHandle, NoInfo, NoInfo, NoHandle, NoInfo, NoOl, "none", 0)
      BY <1>4, <1>11, <3>1, ReplacedIs, IdleIs
    <3>3. LspStep /\ lsp'.leaked = lsp.leaked /\ lsp'.kept = lsp.kept
      BY <1>1, <3>1, LspSame
    <3>4. /\ ThreadOk(w, thread'[w]) /\ ThreadMatched(thread'[w]) /\ thread'[w].inner = NoInfo
          /\ thread'[w].pc # "count" /\ \A d \in Infos : Held(thread'[w], d) = Held(thread[w], d)
      BY <1>1, <1>3, <3>2, WorkerThread
    <3>5. QED
      BY <3>1, <3>2, <3>3, <3>4 DEF Is
  <2>3. QED
    BY <2>1, <2>2
<1>13. thread[w].ol = NoOl /\ o # NoOl
  BY <1>4, <1>6, LspAssumption DEF Is
<1> DEFINE has == IF thread'[w].pc = "check" THEN {o} ELSE {}
<1>14. /\ \A y : y # NoOl => (thread'[w].ol = y <=> y \in has)
       /\ thread'[w].pc \notin {"complete", "account"}
  BY <1>12, <1>13
<1>16. /\ lower' \subseteq Ols /\ lost' \subseteq Ols
       /\ \A y : /\ Flag(y, lower') + Flag(y, lost')
                     = Flag(y, lower) + Flag(y, lost) + (IF o = y THEN 1 ELSE 0) - Flag(y, has)
                 /\ Flag(y, lower) \in Int /\ Flag(y, lost) \in Int
                 /\ Flag(y, lower') \in Int /\ Flag(y, lost') \in Int
       /\ \A y \in lower' : y \in lower \/ y = o
  <2>1. CASE thread'[w].pc = "check"
    <3>1. lower' = lower /\ lost' = lost /\ has = {o}
      BY <1>12, <2>1
    <3> HIDE DEF has
    <3>2. QED
      BY <1>1, <3>1 DEF QueuesOk, Flag
  <2>2. CASE thread'[w].pc # "check"
    <3>1. Sent(o) /\ \A y : Flag(y, has) = 0
      BY <1>12, <2>2 DEF Flag
    <3>2. /\ lower' \subseteq Ols /\ lost' \subseteq Ols
          /\ \A y : /\ Flag(y, lower') + Flag(y, lost') = Flag(y, lower) + Flag(y, lost) + (IF o = y THEN 1 ELSE 0)
                    /\ Flag(y, lower) \in Int /\ Flag(y, lost) \in Int
                    /\ Flag(y, lower') \in Int /\ Flag(y, lost') \in Int
          /\ \A y \in lower' : y \in lower \/ y = o
      BY <1>1, <1>6, <1>8, <3>1, SentIs
    <3> HIDE DEF has, Flag
    <3>3. QED
      BY <3>1, <3>2
  <2>3. QED
    BY <2>1, <2>2
<1> HIDE DEF has
<1>17. OlsOk' /\ QueuesOk'
  BY <1>1, <1>3, <1>6, <1>16 DEF OlsOk, QueuesOk
<1>18. PlacesKept
  <2>1. ASSUME NEW y \in Ols PROVE Places(y)' = Places(y)
    <3>1. (IF thread[w].ol = y THEN 1 ELSE 0) = 0
      BY <1>13, LspAssumption
    <3>2. (IF thread'[w].ol = y THEN 1 ELSE 0) = Flag(y, has) /\ Flag(y, has) \in Int
      BY <1>14, LspAssumption DEF Flag
    <3>3. Copies(pool, y) \in Nat /\ Copies(pending, y) \in Nat /\ Copies(port, y) \in Nat
      BY <1>1, PlacesAre
    <3>4. Copies(pending', y) \in Nat
      BY <1>17, PlacesNextAre
    <3> HIDE DEF Copies, Flag
    <3>5. Copies(pool', y) + Copies(pending', y) + Copies(port', y) + Flag(y, lower') + Flag(y, lost')
             + (IF thread'[w].ol = y THEN 1 ELSE 0)
           = Copies(pool, y) + Copies(pending, y) + Copies(port, y) + Flag(y, lower) + Flag(y, lost)
             + (IF thread[w].ol = y THEN 1 ELSE 0)
      <4>1. Copies(pending, y) = Copies(pending', y) + (IF o = y THEN 1 ELSE 0)
        BY <1>6
      <4>2. Flag(y, lower') + Flag(y, lost') = Flag(y, lower) + Flag(y, lost) + (IF o = y THEN 1 ELSE 0) - Flag(y, has)
        BY <1>16
      <4>3. (IF o = y THEN 1 ELSE 0) \in Int
        OBVIOUS
      <4>4. /\ Flag(y, lower) \in Int /\ Flag(y, lost) \in Int
            /\ Flag(y, lower') \in Int /\ Flag(y, lost') \in Int
        BY <1>16
      <4>5. pool' = pool /\ port' = port
        BY <1>3
      <4> QED
        BY <3>1, <3>2, <3>3, <3>4, <4>1, <4>2, <4>3, <4>4, <4>5
    <3>6. QED
      BY <1>1, <1>4, <1>12, <1>17, <3>5, PlacesSame
  <2>2. QED
    BY <1>3, <2>1 DEF PlacesKept
<1>19. OlsAlike
  <2>1. ASSUME NEW y \in Ols, UnderWay(y)' PROVE UnderWay(y)
    <3>1. CASE y = o
      BY <1>7, <3>1
    <3>2. CASE y # o
      BY <1>3, <1>6, <1>12, <1>16, <2>1, <3>2, LspAssumption DEF UnderWay, Only
    <3>3. QED
      BY <3>1, <3>2
  <2>2. QED
    BY <1>3, <2>1 DEF OlsAlike, OlKept
<1>20. NoneDue
  BY <1>3, <1>12, <1>14 DEF NoneDue, Due, Only
<1>21. QED
  BY <1>3, <1>4, <1>9, <1>12, <1>17, <1>18, <1>19, <1>20, CarryStep

LEMMA ManagerOk ==
  ASSUME Good, NEW w \in Workers, OverlappedManagerThread(w)
  PROVE  Good'
<1> DEFINE o == Head(port)
<1>1. /\ LspOk /\ ThreadsOk /\ OlsOk /\ QueuesOk /\ InfosOk
      /\ Conserved /\ Balanced /\ Mapped /\ Listed /\ Matched /\ Accounted
  BY GoodIs
<1>2. /\ thread[w].pc = "idle" /\ port # <<>> /\ port' = Tail(port)
      /\ thread' = [thread EXCEPT ![w] = IF o = NoOl THEN [Idle EXCEPT !.pc = "exited"]
                                         ELSE [Idle EXCEPT !.pc = "complete", !.ol = o]]
      /\ ol' = ol /\ pool' = pool /\ pending' = pending /\ lower' = lower /\ lost' = lost
      /\ lsp' = lsp /\ info' = info /\ list' = list /\ handle' = handle
  BY DEF OverlappedManagerThread, At, sockets
<1>3. /\ w \in Threads
      /\ LET r == thread[w] IN Is(r, "idle", NoHandle, NoInfo, NoInfo, NoHandle, NoInfo, NoOl, r.op, r.n)
  BY <1>1, <1>2, WorkerIdle
<1>4. port \in Seq(Ols \cup {NoOl})
  BY <1>1 DEF QueuesOk
<1>5. /\ o \in Ols \cup {NoOl} /\ port' \in Seq(Ols \cup {NoOl}) /\ \E i \in DOMAIN port : port[i] = o
      /\ \A y : Copies(port, y) = Copies(port', y) + (IF o = y THEN 1 ELSE 0)
      /\ \A i \in DOMAIN port' : \E j \in DOMAIN port : port'[i] = port[j]
  BY <1>2, <1>4, CopiesTail
<1> HIDE DEF o
<1>6. DOMAIN thread = Threads
  BY <1>1 DEF ThreadsOk
<1>6a. thread[w].pc = "idle" /\ 0 \in Int /\ NoOl \in Ols \cup {NoOl}
  BY <1>2
<1>7. /\ Only(w) /\ thread'[w].ol = o
      /\ ThreadOk(w, thread'[w]) /\ ThreadMatched(thread'[w]) /\ thread'[w].inner = NoInfo
      /\ thread'[w].pc # "count" /\ \A d \in Infos : Held(thread'[w], d) = Held(thread[w], d)
  <2>1. CASE o = NoOl
    <3>1. Only(w) /\ thread'[w] = [Idle EXCEPT !.pc = "exited"]
      BY <1>2, <1>3, <1>6, <2>1, ReplacedIs
    <3>2. Is(thread'[w], "exited", NoHandle, NoInfo, NoInfo, NoHandle, NoInfo, NoOl, "none", 0)
      BY <3>1 DEF Is, Idle, ThreadFields
    <3>3. /\ ThreadOk(w, thread'[w]) /\ ThreadMatched(thread'[w]) /\ thread'[w].inner = NoInfo
          /\ thread'[w].pc # "count" /\ \A d \in Infos : Held(thread'[w], d) = Held(thread[w], d)
      BY <1>1, <1>6a, <3>2, WorkerThread
    <3>4. QED
      BY <2>1, <3>1, <3>2, <3>3 DEF Is
  <2>2. CASE o # NoOl
    <3>1. Only(w) /\ thread'[w] = [Idle EXCEPT !.pc = "complete", !.ol = o]
      BY <1>2, <1>3, <1>6, <2>2, ReplacedIs
    <3>2. Is(thread'[w], "complete", NoHandle, NoInfo, NoInfo, NoHandle, NoInfo, o, "none", 0)
      BY <3>1 DEF Is, Idle, ThreadFields
    <3>3. /\ ThreadOk(w, thread'[w]) /\ ThreadMatched(thread'[w]) /\ thread'[w].inner = NoInfo
          /\ thread'[w].pc # "count" /\ \A d \in Infos : Held(thread'[w], d) = Held(thread[w], d)
      <4>1. o \in Ols \cup {NoOl} /\ ("complete" \in {"check", "complete"} <=> o # NoOl)
        BY <1>5, <2>2
      <4>2. QED
        BY <1>1, <1>6a, <3>2, <4>1, WorkerThread
    <3>4. QED
      BY <3>1, <3>2, <3>3 DEF Is
  <2>3. QED
    BY <2>1, <2>2
<1>8. OlsOk' /\ QueuesOk'
  BY <1>1, <1>2, <1>5 DEF OlsOk, QueuesOk
<1>9. thread[w].ol = NoOl
  BY <1>3 DEF Is
<1>10. PlacesKept
  <2>1. ASSUME NEW y \in Ols PROVE Places(y)' = Places(y)
    <3>1. (IF thread[w].ol = y THEN 1 ELSE 0) = 0
      BY <1>9, LspAssumption
    <3>2. (IF thread'[w].ol = y THEN 1 ELSE 0) = (IF o = y THEN 1 ELSE 0)
      BY <1>7
    <3>3. Copies(pool, y) \in Nat /\ Copies(pending, y) \in Nat /\ Copies(port, y) \in Nat
      BY <1>1, PlacesAre
    <3>4. Copies(port', y) \in Nat
      BY <1>8, PlacesNextAre
    <3>5. Flag(y, lower) \in Int /\ Flag(y, lost) \in Int
      BY DEF Flag
    <3> HIDE DEF Copies, Flag
    <3>6. Copies(pool', y) + Copies(pending', y) + Copies(port', y) + Flag(y, lower') + Flag(y, lost')
             + (IF thread'[w].ol = y THEN 1 ELSE 0)
           = Copies(pool, y) + Copies(pending, y) + Copies(port, y) + Flag(y, lower) + Flag(y, lost)
             + (IF thread[w].ol = y THEN 1 ELSE 0)
      <4>1. Copies(port, y) = Copies(port', y) + (IF o = y THEN 1 ELSE 0)
        BY <1>5
      <4>2. (IF o = y THEN 1 ELSE 0) \in Int
        OBVIOUS
      <4>3. pool' = pool /\ pending' = pending /\ lower' = lower /\ lost' = lost
        BY <1>2
      <4>4. QED
        BY <3>1, <3>2, <3>3, <3>4, <3>5, <4>1, <4>2, <4>3
    <3>7. QED
      BY <1>1, <1>3, <1>7, <1>8, <3>6, PlacesSame
  <2>2. QED
    BY <1>2, <2>1 DEF PlacesKept
<1>11. OlsAlike
  <2>1. ASSUME NEW y \in Ols, UnderWay(y)' PROVE UnderWay(y)
    <3>1. CASE y = o
      BY <1>5, <3>1 DEF UnderWay
    <3>2. CASE y # o
      BY <1>2, <1>5, <1>7, <2>1, <3>2 DEF UnderWay, Only
    <3>3. QED
      BY <3>1, <3>2
  <2>2. QED
    BY <1>2, <2>1 DEF OlsAlike, OlKept
<1>12. NoneDue
  <2>1. ASSUME NEW y \in Ols, Due(y)' PROVE Due(y)
    <3>1. CASE y = o
      BY <1>5, <3>1 DEF Due
    <3>2. CASE y # o
      BY <1>2, <1>5, <1>7, <2>1, <3>2 DEF Due, Only
    <3>3. QED
      BY <3>1, <3>2
  <2>2. QED
    BY <1>2, <2>1 DEF NoneDue
<1>13. Alters /\ KeepsCounts /\ RefsKept /\ LspStep /\ lsp'.leaked = lsp.leaked /\ lsp'.kept = lsp.kept
  BY <1>1, <1>2, InfoSameOk, LspSame
<1>14. QED
  BY <1>2, <1>3, <1>7, <1>8, <1>10, <1>11, <1>12, <1>13, CarryStep

LEMMA PutbackOk ==
  ASSUME Good, NEW t \in Threads, PutbackOverlappedStructure(t)
  PROVE  Good'
<1> DEFINE o == thread[t].ol
<1>1. /\ LspOk /\ ThreadsOk /\ OlsOk /\ QueuesOk /\ InfosOk
      /\ Conserved /\ Balanced /\ Mapped /\ Listed /\ Matched /\ Accounted
  BY GoodIs
<1>2. /\ thread[t].pc = "putback" /\ pool' = <<o>> \o pool /\ Done(t)
      /\ ol' = [ol EXCEPT ![o] = Unused]
      /\ lsp' = lsp /\ pending' = pending /\ lower' = lower /\ port' = port /\ lost' = lost
      /\ info' = info /\ list' = list /\ handle' = handle
  BY DEF PutbackOverlappedStructure, At, Done, sockets
<1>3. o \in Ols /\ UnderWay(o)
  BY <1>1, <1>2, QueueThread
<1>4. /\ Only(t) /\ thread'[t].ol = NoOl /\ thread'[t].pc \notin {"count", "complete", "account"}
      /\ ThreadOk(t, thread'[t]) /\ ThreadMatched(thread'[t]) /\ thread'[t].inner = NoInfo
      /\ \A d \in Infos : Held(thread'[t], d) = Held(thread[t], d)
  BY <1>1, <1>2, DoneThread
<1>5. /\ o \notin lower
      /\ \A i \in DOMAIN pending : pending[i] # o
      /\ \A i \in DOMAIN port : port[i] # o
      /\ \A u \in Threads : u # t => thread[u].ol # o
  BY <1>1, <1>3, CarriedIs
<1>6. ol[o].Operation # "absent"
  BY <1>1, <1>3, OnePlace
<1> HIDE DEF o
<1>7. /\ pool' \in Seq(Ols)
      /\ \A y : Copies(pool', y) = Copies(pool, y) + (IF o = y THEN 1 ELSE 0)
  BY <1>1, <1>2, <1>3, CopiesCons DEF QueuesOk
<1>8. Unused.Operation = "none" /\ OlOk(Unused)
  BY DEF OlOk, OlFields, Unused
<1>9. ol'[o] = Unused /\ \A y \in Ols : y # o => ol'[y] = ol[y]
  BY <1>1, <1>2, <1>3 DEF OlsOk
<1>10. OlsOk' /\ QueuesOk'
  <2>1. OlsOk'
    BY <1>1, <1>2, <1>8, <1>9 DEF OlsOk
  <2>2. QED
    BY <1>1, <1>2, <1>7, <2>1 DEF QueuesOk
<1>11. PlacesKept
  <2>1. ASSUME NEW y \in Ols PROVE Places(y)' = Places(y)
    <3>1. (IF thread'[t].ol = y THEN 1 ELSE 0) = 0
      BY <1>4, LspAssumption
    <3>2. (IF thread[t].ol = y THEN 1 ELSE 0) = (IF o = y THEN 1 ELSE 0)
      BY DEF o
    <3>3. Copies(pool, y) \in Nat /\ Copies(pending, y) \in Nat /\ Copies(port, y) \in Nat
      BY <1>1, PlacesAre
    <3>4. Flag(y, lower) \in Int /\ Flag(y, lost) \in Int
      BY DEF Flag
    <3> HIDE DEF Copies, Flag
    <3>5. Copies(pool', y) + Copies(pending', y) + Copies(port', y) + Flag(y, lower') + Flag(y, lost')
             + (IF thread'[t].ol = y THEN 1 ELSE 0)
           = Copies(pool, y) + Copies(pending, y) + Copies(port, y) + Flag(y, lower) + Flag(y, lost)
             + (IF thread[t].ol = y THEN 1 ELSE 0)
      <4>1. Copies(pool', y) = Copies(pool, y) + (IF o = y THEN 1 ELSE 0)
        BY <1>7
      <4>2. (IF o = y THEN 1 ELSE 0) \in Int
        OBVIOUS
      <4>3. port' = port /\ pending' = pending /\ lower' = lower /\ lost' = lost
        BY <1>2
      <4>4. QED
        BY <3>1, <3>2, <3>3, <3>4, <4>1, <4>2, <4>3
    <3>6. QED
      BY <1>1, <1>4, <1>10, <3>5, PlacesSame
  <2>2. \A y \in Ols : ol'[y].Operation = "absent" <=> ol[y].Operation = "absent"
    BY <1>6, <1>8, <1>9
  <2>3. QED
    BY <2>1, <2>2 DEF PlacesKept
<1>12. OlsAlike
  <2>1. ASSUME NEW y \in Ols, UnderWay(y)' PROVE UnderWay(y) /\ y # o
    BY <1>2, <1>4, <1>5, <2>1, LspAssumption DEF UnderWay, Only
  <2>2. QED
    BY <1>9, <2>1 DEF OlsAlike, OlKept
<1>13. NoneDue
  <2>1. ASSUME NEW y \in Ols, Due(y)', ol'[y].Operation \in {"transfer", "acceptex"}
        PROVE  Due(y) /\ ol'[y] = ol[y]
    <3>1. y # o
      BY <1>8, <1>9, <2>1
    <3>2. QED
      BY <1>2, <1>4, <1>9, <2>1, <3>1 DEF Due, Only
  <2>2. QED
    BY <2>1 DEF NoneDue
<1>14. Alters /\ KeepsCounts /\ RefsKept /\ LspStep /\ lsp'.leaked = lsp.leaked /\ lsp'.kept = lsp.kept
  BY <1>1, <1>2, InfoSameOk, LspSame
<1>15. QED
  BY <1>2, <1>4, <1>10, <1>11, <1>12, <1>13, <1>14, CarryStep

-------------------------------------------------------------------------------
(***************************************************************************)
(* The provider below answers.                                             *)
(***************************************************************************)
LEMMA MovedOk ==
  ASSUME InfosOk, NEW b \in Infos \cup {NoInfo},
         info' = IF b = NoInfo THEN info ELSE [info EXCEPT ![b].moved = @ + 1]
  PROVE  /\ Alters /\ RefsKept
         /\ \A d \in Infos : info'[d].Bytes = info[d].Bytes /\ info'[d].moved >= info[d].moved
         /\ b # NoInfo => info'[b].moved = info[b].moved + 1
<1>1. CASE b = NoInfo
  BY <1>1, InfoSameOk DEF InfosOk, InfoOk, KeepsCounts
<1>2. CASE b # NoInfo
  <2>1. b \in Infos /\ info' = [info EXCEPT ![b].moved = @ + 1]
    BY <1>2
  <2>2. /\ DOMAIN info' = Infos /\ \A d \in Infos : DOMAIN info'[d] = InfoFields
        /\ \A d \in Infos : d # b => info'[d] = info[d]
        /\ info'[b].moved = info[b].moved + 1 /\ info'[b].Bytes = info[b].Bytes
        /\ info'[b].RefCount = info[b].RefCount /\ info'[b].state = info[b].state
        /\ info'[b].given = info[b].given /\ info'[b].LayeredSocket = info[b].LayeredSocket
        /\ info'[b].ProviderSocket = info[b].ProviderSocket
    BY <2>1 DEF InfosOk, InfoOk, InfoFields
  <2>3. \A d \in Infos : info[d].Bytes \in Int /\ info[d].moved \in Int /\ info[d].RefCount \in Int
    BY DEF InfosOk, InfoOk
  <2>4. Alters
    BY <2>2, <2>3 DEF Alters
  <2>5. RefsKept
    BY <2>2 DEF RefsKept
  <2>6. \A d \in Infos : info'[d].Bytes = info[d].Bytes /\ info'[d].moved >= info[d].moved
    BY <2>2, <2>3
  <2>7. QED
    BY <2>2, <2>4, <2>5, <2>6
<1>3. QED
  BY <1>1, <1>2

LEMMA AnsweredOk ==
  ASSUME OlsOk, NEW o \in Ols, NEW v \in Requested \cup {"error", "none"},
         v \in {ol[o].Operation, "other", "error"}, ol' = [ol EXCEPT ![o].Operation = v]
  PROVE  /\ DOMAIN ol' = Ols /\ \A y \in Ols : y # o => ol'[y] = ol[y]
         /\ OlOk(ol'[o]) /\ OlKept(o) /\ ol'[o].Operation = v /\ ol'[o].sAcceptSocket = ol[o].sAcceptSocket
<1>1. OlOk(ol[o]) /\ DOMAIN ol = Ols
  BY DEF OlsOk
<1>2. /\ DOMAIN ol' = Ols /\ \A y \in Ols : y # o => ol'[y] = ol[y]
      /\ DOMAIN ol'[o] = OlFields /\ ol'[o].Operation = v
      /\ ol'[o].SockInfo = ol[o].SockInfo /\ ol'[o].CallerSocket = ol[o].CallerSocket
      /\ ol'[o].sAcceptSocket = ol[o].sAcceptSocket
  BY <1>1 DEF OlOk, OlFields
<1>3. v = "acceptex" => ol[o].Operation = "acceptex"
  OBVIOUS
<1>4. QED
  BY <1>1, <1>2, <1>3 DEF OlOk, OlKept

LEMMA LowerFacts ==
  ASSUME Good, NEW o \in Ols, LowerCompletes(o)
  PROVE  /\ OlOk(ol[o]) /\ OlMatched(ol[o]) /\ ol[o].Operation # "absent"
         /\ DOMAIN ol' = Ols /\ \A y \in Ols : y # o => ol'[y] = ol[y]
         /\ OlOk(ol'[o]) /\ OlKept(o) /\ ol'[o].Operation # "absent"
         /\ Alters /\ RefsKept
         /\ \A d \in Infos : info'[d].Bytes = info[d].Bytes /\ info'[d].moved >= info[d].moved
         /\ ol'[o].Operation \in {"transfer", "acceptex"} =>
              /\ ol'[o].Operation = ol[o].Operation /\ ol'[o].sAcceptSocket = ol[o].sAcceptSocket
              /\ Beneficiary(o) # NoInfo => info'[Beneficiary(o)].moved = info[Beneficiary(o)].moved + 1
<1>1. OlsOk /\ QueuesOk /\ InfosOk /\ Conserved /\ Mapped /\ Matched
  BY GoodIs
<1>2. o \in lower /\ UnderWay(o)
  BY DEF LowerCompletes, UnderWay
<1>3. OlOk(ol[o]) /\ OlMatched(ol[o]) /\ ol[o].Operation # "absent"
  BY <1>1, <1>2, OnePlace DEF OlsOk, Matched
<1>4. CASE /\ info' = IF Beneficiary(o) = NoInfo THEN info ELSE [info EXCEPT ![Beneficiary(o)].moved = @ + 1]
           /\ ol' = [ol EXCEPT ![o].Operation = IF @ = "recvmsg" THEN "other" ELSE @]
           /\ info[ol[o].SockInfo].ProviderSocket = "open"
  <2>1. Beneficiary(o) \in Infos \cup {NoInfo}
    BY <1>1, <1>3 DEF Beneficiary, OlMatched, OlOk, Mapped
  <2>2. PICK b : b = Beneficiary(o)
    OBVIOUS
  <2>3. PICK v : v = IF ol[o].Operation = "recvmsg" THEN "other" ELSE ol[o].Operation
    OBVIOUS
  <2>4. /\ Alters /\ RefsKept
        /\ \A d \in Infos : info'[d].Bytes = info[d].Bytes /\ info'[d].moved >= info[d].moved
        /\ b # NoInfo => info'[b].moved = info[b].moved + 1
    <3> HIDE DEF Beneficiary
    <3>1. b \in Infos \cup {NoInfo} /\ info' = IF b = NoInfo THEN info ELSE [info EXCEPT ![b].moved = @ + 1]
      BY <1>4, <2>1, <2>2
    <3>2. QED
      BY <1>1, <3>1, MovedOk
  <2>5. CASE v \in Requested \cup {"error", "none"}
    <3>1. ol' = [ol EXCEPT ![o].Operation = v] /\ v \in {ol[o].Operation, "other", "error"}
      BY <1>4, <2>3
    <3>2. /\ DOMAIN ol' = Ols /\ \A y \in Ols : y # o => ol'[y] = ol[y]
          /\ OlOk(ol'[o]) /\ OlKept(o) /\ ol'[o].Operation = v /\ ol'[o].sAcceptSocket = ol[o].sAcceptSocket
      BY <1>1, <2>5, <3>1, AnsweredOk
    <3>3. v # "absent" /\ (v \in {"transfer", "acceptex"} => v = ol[o].Operation)
      BY <2>3, <2>5 DEF Requested
    <3> HIDE DEF Beneficiary
    <3>4. QED
      BY <1>3, <2>2, <2>4, <3>2, <3>3
  <2>6. CASE v \notin Requested \cup {"error", "none"}
    BY <1>3, <2>3, <2>6 DEF OlOk, Requested
  <2>7. QED
    BY <2>5, <2>6
<1>5. CASE ol' = [ol EXCEPT ![o].Operation = "error"] /\ info' = info
  <2>1. /\ DOMAIN ol' = Ols /\ \A y \in Ols : y # o => ol'[y] = ol[y]
        /\ OlOk(ol'[o]) /\ OlKept(o) /\ ol'[o].Operation = "error"
    BY <1>1, <1>5, AnsweredOk
  <2>2. Alters /\ RefsKept /\ KeepsCounts
    BY <1>1, <1>5, InfoSameOk
  <2>3. \A d \in Infos : info'[d].Bytes = info[d].Bytes /\ info'[d].moved >= info[d].moved
    BY <1>1, <1>5 DEF InfosOk, InfoOk
  <2>4. QED
    BY <1>3, <2>1, <2>2, <2>3
<1>6. QED
  BY <1>4, <1>5 DEF LowerCompletes

LEMMA StillPlaces ==
  ASSUME QueuesOk, QueuesOk', thread' = thread, NEW o,
         Copies(pool', o) + Copies(pending', o) + Copies(port', o) + Flag(o, lower') + Flag(o, lost')
           = Copies(pool, o) + Copies(pending, o) + Copies(port, o) + Flag(o, lower) + Flag(o, lost)
  PROVE  Places(o)' = Places(o)
<1>1. /\ Places(o) = Copies(pool, o) + Copies(pending, o) + Copies(port, o)
                     + Cardinality(Carriers(o)) + Flag(o, lower) + Flag(o, lost)
      /\ Copies(pool, o) \in Nat /\ Copies(pending, o) \in Nat /\ Copies(port, o) \in Nat
      /\ Cardinality(Carriers(o)) \in Nat
  BY PlacesAre
<1>2. /\ Places(o)' = Copies(pool', o) + Copies(pending', o) + Copies(port', o)
                     + Cardinality(Carriers(o)') + Flag(o, lower') + Flag(o, lost')
      /\ Copies(pool', o) \in Nat /\ Copies(pending', o) \in Nat /\ Copies(port', o) \in Nat
  BY PlacesNextAre
<1>3. Cardinality(Carriers(o)') = Cardinality(Carriers(o))
  BY DEF Carriers
<1>4. /\ Flag(o, lower) \in {0, 1} /\ Flag(o, lost) \in {0, 1}
      /\ Flag(o, lower') \in {0, 1} /\ Flag(o, lost') \in {0, 1}
  BY DEF Flag
<1> HIDE DEF Places, Carriers, Flag, Copies
<1>5. QED
  BY <1>1, <1>2, <1>3, <1>4

\* Only the structure that is answered becomes due.
LEMMA LowerDue ==
  ASSUME NEW o \in Ols, \A y \in Ols : y # o => ol'[y] = ol[y], thread' = thread,
         \A i \in DOMAIN port' : port'[i] = o \/ \E j \in DOMAIN port : port'[i] = port[j], NEW s
  PROVE  /\ Cardinality(Uncounted(s)') <= Cardinality(Uncounted(s))
                + (IF ol'[o].Operation \in {"transfer", "acceptex"} /\ Target(ol'[o]) = s THEN 1 ELSE 0)
         /\ Cardinality(Uncounted(s)') \in Nat /\ Cardinality(Uncounted(s)) \in Nat
<1>1. IsFiniteSet(Uncounted(s)) /\ Cardinality(Uncounted(s)) \in Nat /\ Cardinality(Uncounted(s)') \in Nat
  BY UncountedFinite
<1>2. \A y \in Ols : Due(y)' /\ y # o => Due(y)
  BY DEF Due
<1>3. \A y \in Uncounted(s)' : y \in Uncounted(s) \/ y = o
  BY <1>2 DEF Uncounted, Target
<1>4. CASE ol'[o].Operation \in {"transfer", "acceptex"} /\ Target(ol'[o]) = s
  <2>1. Uncounted(s)' \in SUBSET (Uncounted(s) \cup {o})
    BY <1>3
  <2>2. /\ IsFiniteSet(Uncounted(s) \cup {o}) /\ Cardinality(Uncounted(s) \cup {o}) \in Nat
        /\ Cardinality(Uncounted(s) \cup {o}) <= Cardinality(Uncounted(s)) + 1
    <3>1. /\ IsFiniteSet(Uncounted(s) \cup {o})
          /\ Cardinality(Uncounted(s) \cup {o})
               = IF o \in Uncounted(s) THEN Cardinality(Uncounted(s)) ELSE Cardinality(Uncounted(s)) + 1
      BY <1>1, FS_AddElement
    <3>2. QED
      BY <1>1, <3>1
  <2>3. Cardinality(Uncounted(s)') <= Cardinality(Uncounted(s) \cup {o})
    BY <2>1, <2>2, FS_Subset
  <2> DEFINE a == Cardinality(Uncounted(s))
             b == Cardinality(Uncounted(s)')
             m == Cardinality(Uncounted(s) \cup {o})
  <2>4. a \in Nat /\ b \in Nat /\ m \in Nat /\ b <= m /\ m <= a + 1
    BY <1>1, <2>2, <2>3
  <2> HIDE DEF a, b, m
  <2>5. b <= a + 1
    BY <2>4
  <2>6. QED
    BY <1>1, <1>4, <2>5 DEF a, b
<1>5. CASE ~(ol'[o].Operation \in {"transfer", "acceptex"} /\ Target(ol'[o]) = s)
  <2>1. o \notin Uncounted(s)'
    BY <1>5 DEF Uncounted
  <2>2. Uncounted(s)' \in SUBSET Uncounted(s)
    BY <1>3, <2>1
  <2>3. Cardinality(Uncounted(s)') <= Cardinality(Uncounted(s))
    BY <1>1, <2>2, FS_Subset
  <2>4. QED
    BY <1>1, <1>5, <2>3
<1>6. QED
  BY <1>4, <1>5

LEMMA LowerBenefits ==
  ASSUME Good, NEW o \in Ols, OlOk(ol[o]), OlMatched(ol[o]), NEW c \in Infos, Live(c), FirstOfHandle(c),
         ol[o].Operation \in {"transfer", "acceptex"}, info[c].given = Target(ol[o])
  PROVE  Beneficiary(o) = c
<1>1. InfosOk /\ Mapped
  BY GoodIs
<1>2. CASE ol[o].Operation = "acceptex"
  <2>1. ol[o].sAcceptSocket \in Handles /\ info[c].given = ol[o].sAcceptSocket
    BY <1>2 DEF OlOk, Target
  <2>2. handle[ol[o].sAcceptSocket] = c /\ c # NoInfo
    BY <1>1, <2>1, OneOpen, LspSocketsAssumption
  <2>3. QED
    BY <1>2, <2>2 DEF Beneficiary, Known
<1>3. CASE ol[o].Operation # "acceptex"
  <2> DEFINE d == ol[o].SockInfo
             s == ol[o].CallerSocket
  <2>1. d \in Infos /\ s \in Handles /\ info[d].state # "none" /\ info[d].given = s /\ info[c].given = s
    BY <1>3 DEF OlMatched, Named, Target
  <2>2. info[d].state # "freed"
    BY <2>1 DEF FirstOfHandle
  <2>3. Live(d)
    BY <1>1, <2>1, <2>2 DEF InfosOk, InfoOk, Live
  <2>4. handle[s] = c /\ handle[s] = d
    BY <1>1, <2>1, <2>3, OneOpen
  <2>5. QED
    BY <1>3, <2>4 DEF Beneficiary
<1>4. QED
  BY <1>2, <1>3

LEMMA LowerOk == ASSUME Good, NEW o \in Ols, LowerCompletes(o) PROVE Good'
<1>1. /\ LspOk /\ ThreadsOk /\ OlsOk /\ QueuesOk /\ InfosOk
      /\ Conserved /\ Balanced /\ Mapped /\ Listed /\ Matched /\ Accounted
  BY GoodIs
<1>2. /\ o \in lower /\ lower' = lower \ {o} /\ port' = Append(port, o)
      /\ lsp' = lsp /\ thread' = thread /\ pool' = pool /\ pending' = pending /\ lost' = lost
      /\ list' = list /\ handle' = handle
  BY DEF LowerCompletes
<1>3. /\ OlOk(ol[o]) /\ OlMatched(ol[o]) /\ ol[o].Operation # "absent"
      /\ DOMAIN ol' = Ols /\ \A y \in Ols : y # o => ol'[y] = ol[y]
      /\ OlOk(ol'[o]) /\ OlKept(o) /\ ol'[o].Operation # "absent"
      /\ Alters /\ RefsKept
      /\ \A d \in Infos : info'[d].Bytes = info[d].Bytes /\ info'[d].moved >= info[d].moved
      /\ ol'[o].Operation \in {"transfer", "acceptex"} =>
              /\ ol'[o].Operation = ol[o].Operation /\ ol'[o].sAcceptSocket = ol[o].sAcceptSocket
              /\ Beneficiary(o) # NoInfo => info'[Beneficiary(o)].moved = info[Beneficiary(o)].moved + 1
  BY LowerFacts
<1>4. /\ port' \in Seq(Ols \cup {NoOl})
      /\ \A y : Copies(port', y) = Copies(port, y) + (IF o = y THEN 1 ELSE 0)
      /\ \A i \in DOMAIN port' : port'[i] = o \/ \E j \in DOMAIN port : port'[i] = port[j]
  <2>1. port \in Seq(Ols \cup {NoOl}) /\ o \in Ols \cup {NoOl}
    BY <1>1 DEF QueuesOk
  <2>2. QED
    BY <1>2, <2>1, CopiesAppend
<1>5. OlsOk' /\ QueuesOk'
  <2>1. OlsOk'
    BY <1>1, <1>3 DEF OlsOk
  <2>2. QED
    BY <1>1, <1>2, <1>4, <2>1 DEF QueuesOk
<1>6. Conserved'
  <2>1. ASSUME NEW y \in Ols PROVE Places(y)' = Places(y)
    <3>1. Flag(y, lower') + (IF o = y THEN 1 ELSE 0) = Flag(y, lower)
      BY <1>2 DEF Flag
    <3>2. Copies(port', y) = Copies(port, y) + (IF o = y THEN 1 ELSE 0)
      BY <1>4
    <3>3. Copies(pool, y) \in Nat /\ Copies(pending, y) \in Nat /\ Copies(port, y) \in Nat
      BY <1>1, PlacesAre
    <3>4. /\ Flag(y, lower) \in Int /\ Flag(y, lost) \in Int /\ Flag(y, lower') \in Int
          /\ (IF o = y THEN 1 ELSE 0) \in Int
      BY DEF Flag
    <3>5. pool' = pool /\ pending' = pending /\ lost' = lost
      BY <1>2
    <3> HIDE DEF Copies, Flag
    <3>6. Copies(pool', y) + Copies(pending', y) + Copies(port', y) + Flag(y, lower') + Flag(y, lost')
           = Copies(pool, y) + Copies(pending, y) + Copies(port, y) + Flag(y, lower) + Flag(y, lost)
      BY <3>1, <3>2, <3>3, <3>4, <3>5
    <3>7. QED
      BY <1>1, <1>2, <1>5, <3>6, StillPlaces
  <2>2. PlacesKept
    BY <1>3, <2>1 DEF PlacesKept
  <2>3. QED
    BY <1>1, <1>2, <2>2, ConservedKept
<1>7. OlsAlike
  <2>1. ASSUME NEW y \in Ols, UnderWay(y)' PROVE UnderWay(y)
    <3>1. CASE y = o
      BY <1>2, <3>1 DEF UnderWay
    <3>2. CASE y # o
      BY <1>2, <1>4, <2>1, <3>2 DEF UnderWay
    <3>3. QED
      BY <3>1, <3>2
  <2>2. QED
    BY <1>3, <2>1 DEF OlsAlike, OlKept
<1>8. LspStep /\ lsp'.leaked = lsp.leaked /\ lsp'.kept = lsp.kept
  BY <1>1, <1>2, LspSame
<1>9. SocketsStay
  BY <1>1, <1>2, <1>3, <1>8, AltersOk
<1>10. /\ Types' /\ Conserved' /\ Balanced' /\ Mapped' /\ Listed' /\ Matched' /\ Ages
       /\ NoThread \notin Threads
  <2>1. LspOk' /\ lsp'.faults <= lsp.faults
    BY <1>8 DEF LspStep
  <2>2. \A d \in Infos : info'[d].RefCount = info[d].RefCount
    BY <1>3 DEF RefsKept
  <2>3. QED
    BY <1>2, <1>5, <1>6, <1>7, <1>8, <1>9, <2>1, <2>2, StillStep
<1>11. ASSUME NEW c \in Infos, NEW s \in Handles \cup {NoHandle}, Live(c)', FirstOfHandle(c)', info'[c].given = s
       PROVE  CountedFor(c, s)'
  <2>1. Live(c)
    BY <1>3, <1>11 DEF Alters, Live
  <2>2. info[c].given = s /\ CountedFor(c, s)
    BY <1>1, <1>10, <1>11, <2>1, AccountedOf
  <2>3. FirstOfHandle(c)
    BY <1>10, <1>11, <2>1, FirstAges DEF Live
  <2>4. PICK k \in Int : k = IF ol'[o].Operation \in {"transfer", "acceptex"} /\ Target(ol'[o]) = s THEN 1 ELSE 0
    OBVIOUS
  <2>5. /\ Cardinality(Uncounted(s)') <= Cardinality(Uncounted(s)) + k
        /\ Cardinality(Uncounted(s)') \in Nat /\ Cardinality(Uncounted(s)) \in Nat
    BY <1>2, <1>3, <1>4, <2>4, LowerDue
  <2>6. /\ info[c].moved \in Int /\ info[c].Bytes \in Int /\ info'[c].moved \in Int
        /\ info'[c].Bytes = info[c].Bytes /\ info'[c].moved >= info[c].moved
    BY <1>1, <1>3 DEF InfosOk, InfoOk, Alters
  <2>7. info'[c].moved >= info[c].moved + k
    <3>1. CASE ol'[o].Operation \in {"transfer", "acceptex"} /\ Target(ol'[o]) = s
      <4>1. ol[o].Operation \in {"transfer", "acceptex"} /\ Target(ol[o]) = s
        BY <1>3, <3>1 DEF Target, OlKept
      <4>2. Beneficiary(o) = c
        BY <1>3, <2>1, <2>2, <2>3, <4>1, LowerBenefits
      <4>3. info'[c].moved = info[c].moved + 1
        BY <1>3, <3>1, <4>2, LspSocketsAssumption
      <4>4. QED
        BY <2>4, <2>6, <3>1, <4>3
    <3>2. CASE ~(ol'[o].Operation \in {"transfer", "acceptex"} /\ Target(ol'[o]) = s)
      BY <2>4, <2>6, <3>2
    <3>3. QED
      BY <3>1, <3>2
  <2>8. info'[c].Bytes + Cardinality(Uncounted(s)') <= info'[c].moved
    <3>1. info[c].Bytes + Cardinality(Uncounted(s)) <= info[c].moved
      BY <2>2 DEF CountedFor
    <3> DEFINE a == Cardinality(Uncounted(s))
               b == Cardinality(Uncounted(s)')
    <3>2. a \in Nat /\ b \in Nat /\ b <= a + k /\ info[c].Bytes + a <= info[c].moved
      BY <2>5, <3>1
    <3> HIDE DEF a, b
    <3>3. info'[c].Bytes + b <= info'[c].moved
      BY <2>6, <2>7, <3>2
    <3>4. QED
      BY <3>3 DEF b
  <2>9. NoThread \notin Threads
    BY <1>10
  <2>10. QED
    BY <1>1, <1>2, <2>2, <2>5, <2>6, <2>7, <2>8, <2>9, CountedForNext
<1>12. QED
  BY <1>10, <1>11 DEF Good, Accounted

-------------------------------------------------------------------------------
(***************************************************************************)
(* The pool and its refills.                                               *)
(***************************************************************************)
LEMMA CopiesOnce ==
  ASSUME NEW S, NEW s \in Seq(S), NoTwice(s), NEW x
  PROVE  Copies(s, x) = IF On(s, x) THEN 1 ELSE 0
<1>1. CASE On(s, x)
  <2>1. PICK i \in DOMAIN s : s[i] = x
    BY <1>1 DEF On
  <2>2. Spots(s, x) = {i}
    BY <2>1 DEF Spots, NoTwice
  <2>3. Cardinality({i}) = 1
    BY FS_Singleton
  <2>4. Copies(s, x) = Cardinality(Spots(s, x))
    BY SpotsFinite
  <2>5. QED
    BY <1>1, <2>2, <2>3, <2>4
<1>2. CASE ~On(s, x)
  BY <1>2, CopiesNone DEF On
<1>3. QED
  BY <1>1, <1>2

LEMMA SetToSeqIs ==
  ASSUME NEW B, IsFiniteSet(B)
  PROVE  LET q == SetToSeq(B)
         IN  /\ q \in Seq(B) /\ NoTwice(q) /\ Len(q) = Cardinality(B)
             /\ \A x \in B : On(q, x)
<1> DEFINE n == Cardinality(B)
           q == SetToSeq(B)
<1>1. n \in Nat /\ ExistsBijection(1..n, B)
  BY FS_CardinalityType
<1>2. \E f \in [1..n -> B] : IsInjective(f)
  BY <1>1 DEF ExistsBijection, Bijection, Injection
<1>3. q \in [1..n -> B] /\ IsInjective(q)
  BY <1>2 DEF SetToSeq
<1>4. Cardinality(1..n) = n
  BY <1>1, FS_Interval
<1> HIDE DEF q, n
<1>5. q \in Seq(B) /\ Len(q) = n /\ DOMAIN q = 1..n
  BY <1>1, <1>3
<1>6. NoTwice(q)
  BY <1>3 DEF IsInjective, NoTwice
<1>7. q \in Injection(1..n, B)
  BY <1>3 DEF Injection
<1>8. q \in Surjection(1..n, B)
  <2>1. Cardinality(1..n) = Cardinality(B)
    BY <1>4 DEF n
  <2>2. QED
    BY <1>7, <2>1, FS_Injection
<1>9. \A x \in B : On(q, x)
  BY <1>5, <1>8 DEF Surjection, On
<1>10. QED
  BY <1>5, <1>6, <1>9 DEF q, n

LEMMA SomeOfSize ==
  ASSUME NEW A, IsFiniteSet(A), NEW n \in Nat, n <= Cardinality(A)
  PROVE  \E B \in SUBSET A : Cardinality(B) = n
<1> DEFINE m == Cardinality(A)
<1>1. m \in Nat /\ ExistsBijection(1..m, A)
  BY FS_CardinalityType
<1>2. PICK f : f \in Bijection(1..m, A)
  BY <1>1 DEF ExistsBijection
<1> HIDE DEF m
<1>3. f \in [1..m -> A] /\ \A i, j \in 1..m : f[i] = f[j] => i = j
  BY <1>2 DEF Bijection, Injection, IsInjective
<1>4. n <= m
  BY DEF m
<1>5. \A i \in 1..n : i \in 1..m
  BY <1>1, <1>4
<1> DEFINE B == {f[i] : i \in 1..n}
           g == [i \in 1..n |-> f[i]]
<1>6. g \in Bijection(1..n, B)
  <2>1. g \in [1..n -> B]
    OBVIOUS
  <2>2. \A i, j \in 1..n : g[i] = g[j] => i = j
    BY <1>3, <1>5
  <2>3. \A x \in B : \E i \in 1..n : g[i] = x
    OBVIOUS
  <2>4. DOMAIN g = 1..n
    OBVIOUS
  <2> HIDE DEF g, B
  <2>5. QED
    BY <2>1, <2>2, <2>3, <2>4 DEF Bijection, Injection, Surjection, IsInjective
<1>7. IsFiniteSet(1..n) /\ Cardinality(1..n) = n
  BY FS_Interval
<1>8. B \in SUBSET A
  BY <1>3, <1>5
<1> HIDE DEF B, g
<1>9. Cardinality(B) = n
  BY <1>6, <1>7, FS_Bijection DEF ExistsBijection
<1>10. QED
  BY <1>8, <1>9

LEMMA BlockIs ==
  ASSUME PoolCount <= Cardinality(Absent)
  PROVE  LET q == AllocateFreePool
         IN  /\ q \in Seq(Ols) /\ NoTwice(q) /\ q # <<>>
             /\ \A x : On(q, x) => x \in Absent
<1> DEFINE B == CHOOSE b \in SUBSET Absent : Cardinality(b) = PoolCount
           q == SetToSeq(B)
<1>1. IsFiniteSet(Absent) /\ Absent \subseteq Ols
  BY FiniteSets, FS_Subset DEF Absent
<1>2. PoolCount \in Nat /\ PoolCount # 0
  <2>1. Cardinality(Ols) \in Nat
    BY FiniteSets, FS_CardinalityType
  <2>2. QED
    BY <2>1, LspAssumption
<1>3. B \in SUBSET Absent /\ Cardinality(B) = PoolCount
  BY <1>1, <1>2, SomeOfSize
<1> HIDE DEF B
<1>4. IsFiniteSet(B)
  BY <1>1, <1>3, FS_Subset
<1>5. q \in Seq(B) /\ NoTwice(q) /\ Len(q) = Cardinality(B)
  BY <1>4, SetToSeqIs
<1>6. AllocateFreePool = q
  BY DEF AllocateFreePool, B
<1> HIDE DEF q
<1>7. \A i \in DOMAIN q : q[i] \in B
  BY <1>5, ElementOfSeq, LenProperties
<1>8. q \in Seq(Ols)
  <2>1. Len(q) \in Nat /\ q \in [1..Len(q) -> B]
    BY <1>5, LenProperties
  <2>2. q \in [1..Len(q) -> Ols]
    BY <1>1, <1>3, <2>1
  <2>3. QED
    BY <2>1, <2>2
<1>9. q # <<>>
  BY <1>2, <1>3, <1>5
<1>10. \A x : On(q, x) => x \in Absent
  BY <1>3, <1>7 DEF On
<1>11. QED
  BY <1>5, <1>6, <1>8, <1>9, <1>10

(* A structure of a block that has just been allocated.                    *)
New(got, o) == o \in Absent /\ On(got, o)

LEMMA GotIs ==
  ASSUME QueuesOk, OlsOk, Conserved, NEW got \in Refill, got # <<>>
  PROVE  /\ got \in Seq(Ols)
         /\ \A o \in Ols : New(got, o) => Copies(got, o) = 1 /\ Copies(pool, o) = 0 /\ Places(o) = 0
         /\ \A o \in Ols : ~New(got, o) => Copies(got, o) = Copies(pool, o)
         /\ \A o \in Ols : Allocated(got)[o] = IF New(got, o) THEN Unused ELSE ol[o]
         /\ DOMAIN Allocated(got) = Ols
<1>1. got \in Seq(Ols) => \A o \in Ols : Allocated(got)[o] = IF New(got, o) THEN Unused ELSE ol[o]
  BY ContainsIs DEF Allocated, New
<1>2. DOMAIN Allocated(got) = Ols
  BY DEF Allocated
<1>3. CASE got = pool
  <2>1. got \in Seq(Ols)
    BY <1>3 DEF QueuesOk
  <2>2. \A o \in Ols : ~New(got, o)
    <3> SUFFICES ASSUME NEW o \in Ols, New(got, o) PROVE FALSE
      OBVIOUS
    <3>1. ol[o].Operation = "absent" /\ Copies(pool, o) # 0
      BY <1>3, <2>1, CopiesNone DEF New, Absent, On
    <3>2. /\ Places(o) = Copies(pool, o) + Copies(pending, o) + Copies(port, o)
                        + Cardinality(Carriers(o)) + Flag(o, lower) + Flag(o, lost)
          /\ Copies(pool, o) \in Nat /\ Copies(pending, o) \in Nat /\ Copies(port, o) \in Nat
          /\ Cardinality(Carriers(o)) \in Nat
      BY PlacesAre
    <3>3. Places(o) = 0
      BY <3>1 DEF Conserved
    <3>4. Flag(o, lower) \in {0, 1} /\ Flag(o, lost) \in {0, 1}
      BY DEF Flag
    <3> HIDE DEF Places, Copies, Carriers, Flag
    <3>5. QED
      BY <3>1, <3>2, <3>3, <3>4
  <2>3. QED
    BY <1>1, <1>2, <1>3, <2>1, <2>2
<1>4. CASE got # pool
  <2>1. pool = <<>> /\ got = AllocateFreePool /\ ~(Cardinality(Absent) < PoolCount)
    BY <1>4 DEF Refill
  <2>2. PoolCount <= Cardinality(Absent)
    <3>1. IsFiniteSet(Absent) /\ IsFiniteSet(Ols)
      BY FiniteSets, FS_Subset DEF Absent
    <3>2. Cardinality(Absent) \in Nat /\ Cardinality(Ols) \in Nat
      BY <3>1, FS_CardinalityType
    <3>3. QED
      BY <2>1, <3>2, LspAssumption
  <2>3. got \in Seq(Ols) /\ NoTwice(got) /\ \A x : On(got, x) => x \in Absent
    BY <2>1, <2>2, BlockIs
  <2>4. \A o \in Ols : Copies(got, o) = IF New(got, o) THEN 1 ELSE 0
    BY <2>3, CopiesOnce DEF New
  <2>5. \A o : Copies(pool, o) = 0
    BY <2>1, CopiesEmpty
  <2>6. \A o \in Ols : New(got, o) => Places(o) = 0
    BY DEF New, Absent, Conserved
  <2>7. QED
    BY <1>1, <1>2, <2>3, <2>4, <2>5, <2>6
<1>5. QED
  BY <1>3, <1>4

LEMMA NotPooled ==
  ASSUME QueuesOk, Conserved, NEW o \in Ols, UnderWay(o)
  PROVE  Copies(pool, o) = 0 /\ Places(o) # 0
<1>1. /\ Places(o) = Copies(pool, o) + Copies(pending, o) + Copies(port, o)
                        + Cardinality(Carriers(o)) + Flag(o, lower) + Flag(o, lost)
      /\ Copies(pool, o) \in Nat /\ Copies(pending, o) \in Nat /\ Copies(port, o) \in Nat
      /\ Cardinality(Carriers(o)) \in Nat
  BY PlacesAre
<1>2. Places(o) = 1
  BY OnePlace
<1>3. \/ Copies(pending, o) # 0 \/ Copies(port, o) # 0 \/ Cardinality(Carriers(o)) # 0
      \/ Flag(o, lower) # 0
  <2>1. \A i \in DOMAIN pending : pending[i] = o => Copies(pending, o) # 0
    BY CopiesNone DEF QueuesOk
  <2>2. \A i \in DOMAIN port : port[i] = o => Copies(port, o) # 0
    BY CopiesNone DEF QueuesOk
  <2>3. \A t \in Threads : thread[t].ol = o => Cardinality(Carriers(o)) # 0
    <3>1. IsFiniteSet(Carriers(o))
      BY FiniteSets, FS_Subset DEF Carriers
    <3>2. QED
      BY <3>1, FS_EmptySet DEF Carriers
  <2>4. QED
    BY <2>1, <2>2, <2>3 DEF UnderWay, Flag
<1>4. Flag(o, lower) \in {0, 1} /\ Flag(o, lost) \in {0, 1}
  BY DEF Flag
<1> HIDE DEF Places, Carriers, Flag, Copies
<1>5. QED
  BY <1>1, <1>2, <1>3, <1>4

(* What the caller does with the head of the pool.                         *)
Takes(t, got) ==
  LET h == Head(got) IN
  /\ got # <<>> /\ pool' = Tail(got)
  /\ ol' = [Allocated(got) EXCEPT ![h] =
       [SockInfo |-> thread[t].ctx, CallerSocket |-> thread[t].s, Operation |-> thread[t].op,
        sAcceptSocket |-> thread[t].a, req |-> thread[t].req]]
  /\ thread' = [thread EXCEPT ![t].ol = h, ![t].pc = IF thread[t].op = "pnp" THEN "complete" ELSE "queue"]
  /\ UNCHANGED <<pending, lower, port, lost>>

LEMMA TakesIs ==
  ASSUME Good, NEW t \in Threads, thread[t].pc = "get", NEW got \in Refill, Takes(t, got)
  PROVE  LET h == Head(got)
             r == thread[t]
         IN  /\ t \in Apps /\ h \in Ols /\ ~UnderWay(h) /\ On(got, h)
             /\ r.ctx \in Infos /\ Named(r.ctx, r.s) /\ r.s \in Handles /\ r.n \in Int
             /\ r.op \in Requested /\ (r.op = "acceptex" => r.a \in Handles /\ r.acc \in Infos /\ Named(r.acc, r.a))
             /\ Only(t)
             /\ Is(thread'[t], IF r.op = "pnp" THEN "complete" ELSE "queue",
                   r.s, r.ctx, r.acc, r.a, NoInfo, h, r.op, r.n)
             /\ DOMAIN ol' = Ols
             /\ ol'[h] = [SockInfo |-> r.ctx, CallerSocket |-> r.s, Operation |-> r.op,
                          sAcceptSocket |-> r.a, req |-> r.req]
             /\ \A y \in Ols : y # h => ol'[y] = IF New(got, y) THEN Unused ELSE ol[y]
             /\ \A y \in Ols : UnderWay(y) => y # h /\ ol'[y] = ol[y]
<1> DEFINE h == Head(got)
<1>1. /\ ThreadsOk /\ OlsOk /\ QueuesOk /\ Conserved /\ Matched
  BY GoodIs
<1>2. ThreadOk(t, thread[t]) /\ ThreadMatched(thread[t]) /\ DOMAIN thread = Threads
  BY <1>1, ThreadIs
<1>3. /\ t \in Apps /\ thread[t].ctx \in Infos /\ thread[t].inner = NoInfo /\ thread[t].ol = NoOl
      /\ thread[t].acc \in Infos \cup {NoInfo} /\ thread[t].n \in Int
  BY <1>1, CallThread DEF Calls
<1>4. /\ thread[t].s \in Handles /\ Named(thread[t].ctx, thread[t].s) /\ thread[t].op \in Requested
      /\ thread[t].op = "acceptex" =>
           thread[t].a \in Handles /\ thread[t].acc \in Infos /\ Named(thread[t].acc, thread[t].a)
  BY <1>2, <1>3, LspSocketsAssumption DEF ThreadOk, ThreadMatched
<1>5. /\ got \in Seq(Ols) /\ got # <<>>
      /\ \A o \in Ols : New(got, o) => Copies(got, o) = 1 /\ Copies(pool, o) = 0 /\ Places(o) = 0
      /\ \A o \in Ols : ~New(got, o) => Copies(got, o) = Copies(pool, o)
      /\ \A o \in Ols : Allocated(got)[o] = IF New(got, o) THEN Unused ELSE ol[o]
      /\ DOMAIN Allocated(got) = Ols
  BY <1>1, GotIs DEF Takes
<1>6. h \in Ols /\ On(got, h)
  BY <1>5, CopiesTail DEF On
<1>7. \A y \in Ols : UnderWay(y) => y # h /\ ~New(got, y)
  <2> SUFFICES ASSUME NEW y \in Ols, UnderWay(y) PROVE y # h /\ ~New(got, y)
    OBVIOUS
  <2>1. Copies(pool, y) = 0 /\ Places(y) # 0
    BY <1>1, NotPooled
  <2>2. ~New(got, y)
    BY <1>5, <2>1
  <2>3. Copies(got, y) = 0
    BY <1>5, <2>1, <2>2
  <2>4. ~On(got, y)
    BY <1>5, <2>3, CopiesNone DEF On
  <2>5. QED
    BY <1>6, <2>2, <2>4
<1>8. /\ ol' = [Allocated(got) EXCEPT ![h] =
           [SockInfo |-> thread[t].ctx, CallerSocket |-> thread[t].s, Operation |-> thread[t].op,
            sAcceptSocket |-> thread[t].a, req |-> thread[t].req]]
      /\ thread' = [thread EXCEPT ![t].ol = h, ![t].pc = IF thread[t].op = "pnp" THEN "complete" ELSE "queue"]
  BY DEF Takes
<1> HIDE DEF h
<1>9. /\ DOMAIN ol' = Ols
      /\ ol'[h] = [SockInfo |-> thread[t].ctx, CallerSocket |-> thread[t].s, Operation |-> thread[t].op,
                   sAcceptSocket |-> thread[t].a, req |-> thread[t].req]
      /\ \A y \in Ols : y # h => ol'[y] = Allocated(got)[y]
  BY <1>5, <1>6, <1>8
<1>10. \A y \in Ols : y # h => ol'[y] = IF New(got, y) THEN Unused ELSE ol[y]
  BY <1>5, <1>9
<1>11. DOMAIN thread[t] = ThreadFields
  BY <1>2 DEF ThreadOk
<1>12. PICK p : p = IF thread[t].op = "pnp" THEN "complete" ELSE "queue"
  OBVIOUS
<1>13. Only(t) /\ LET r == thread[t] IN Is(thread'[t], p, r.s, r.ctx, r.acc, r.a, NoInfo, h, r.op, r.n)
  <2>1. thread' = [thread EXCEPT ![t].ol = h, ![t].pc = p]
    BY <1>8, <1>12
  <2>2. Only(t)
    BY <1>2, <2>1 DEF Only
  <2>3. QED
    BY <1>2, <1>3, <1>11, <2>1, <2>2 DEF Is, ThreadFields
<1>14. \A y \in Ols : UnderWay(y) => y # h /\ ol'[y] = ol[y]
  BY <1>7, <1>10
<1>15. ~UnderWay(h)
  BY <1>6, <1>7
<1> QED
  BY <1>3, <1>4, <1>6, <1>9, <1>10, <1>12, <1>13, <1>14, <1>15 DEF h

LEMMA TakenPlaces ==
  ASSUME Good, NEW t \in Threads, thread[t].pc = "get", NEW got \in Refill, Takes(t, got), lsp'.gBaseInfo = lsp.gBaseInfo
  PROVE  OlsOk' /\ QueuesOk' /\ Conserved'
<1> DEFINE h == Head(got)
<1>1. /\ ThreadsOk /\ OlsOk /\ QueuesOk /\ Conserved /\ Matched
  BY GoodIs
<1>2. PICK r : r = thread[t]
  OBVIOUS
<1>3. PICK p : p = IF r.op = "pnp" THEN "complete" ELSE "queue"
  OBVIOUS
<1>4. /\ t \in Apps /\ h \in Ols /\ ~UnderWay(h) /\ On(got, h)
      /\ r.ctx \in Infos /\ r.s \in Handles /\ r.a \in Handles \cup {NoHandle}
      /\ r.op \in Requested /\ (r.op = "acceptex" => r.a \in Handles)
      /\ Only(t) /\ Is(thread'[t], p, r.s, r.ctx, r.acc, r.a, NoInfo, h, r.op, r.n)
      /\ DOMAIN ol' = Ols
      /\ ol'[h] = [SockInfo |-> r.ctx, CallerSocket |-> r.s, Operation |-> r.op,
                   sAcceptSocket |-> r.a, req |-> r.req]
      /\ \A y \in Ols : y # h => ol'[y] = IF New(got, y) THEN Unused ELSE ol[y]
  BY <1>1, <1>2, <1>3, TakesIs DEF ThreadsOk, ThreadOk
<1>5. /\ got \in Seq(Ols) /\ got # <<>>
      /\ \A o \in Ols : New(got, o) => Copies(got, o) = 1 /\ Copies(pool, o) = 0 /\ Places(o) = 0
      /\ \A o \in Ols : ~New(got, o) => Copies(got, o) = Copies(pool, o)
  BY <1>1, GotIs DEF Takes
<1>6. /\ pool' = Tail(got) /\ pending' = pending /\ lower' = lower /\ port' = port /\ lost' = lost
  BY DEF Takes
<1>7. /\ Tail(got) \in Seq(Ols)
      /\ \A y : Copies(got, y) = Copies(Tail(got), y) + (IF h = y THEN 1 ELSE 0)
  BY <1>5, CopiesTail
<1> HIDE DEF h
<1>8. QueuesOk'
  BY <1>1, <1>6, <1>7 DEF QueuesOk
<1>9. OlOk(ol'[h])
  BY <1>4, LspSocketsAssumption DEF OlOk, OlFields
<1>10. OlOk(Unused) /\ Unused.Operation = "none"
  BY DEF OlOk, OlFields, Unused
<1>11. OlsOk'
  BY <1>1, <1>4, <1>9, <1>10 DEF OlsOk
<1>12. thread[t].ol = NoOl /\ thread'[t].ol = h
  <2>1. thread[t].ol = NoOl
    BY <1>1, CallThread DEF Calls
  <2>2. QED
    BY <1>4, <2>1 DEF Is
<1>13. \A y \in Ols : Places(y)' = Places(y) + Copies(got, y) - Copies(pool, y)
  <2> SUFFICES ASSUME NEW y \in Ols PROVE Places(y)' = Places(y) + Copies(got, y) - Copies(pool, y)
    OBVIOUS
  <2> DEFINE x == IF h = y THEN 1 ELSE 0
  <2>1. /\ Places(y) = Copies(pool, y) + Copies(pending, y) + Copies(port, y)
                        + Cardinality(Carriers(y)) + Flag(y, lower) + Flag(y, lost)
        /\ Copies(pool, y) \in Nat /\ Copies(pending, y) \in Nat /\ Copies(port, y) \in Nat
        /\ Cardinality(Carriers(y)) \in Nat
    BY <1>1, PlacesAre
  <2>2. /\ Places(y)' = Copies(pool', y) + Copies(pending', y) + Copies(port', y)
                        + Cardinality(Carriers(y)') + Flag(y, lower') + Flag(y, lost')
        /\ Copies(pool', y) \in Nat
    BY <1>8, PlacesNextAre
  <2>3. Cardinality(Carriers(y)') = Cardinality(Carriers(y)) + x
    <3>1. Cardinality(Carriers(y)') = Cardinality(Carriers(y))
            + (IF thread'[t].ol = y THEN 1 ELSE 0) - (IF thread[t].ol = y THEN 1 ELSE 0)
      BY <1>4, CarriersChange
    <3>2. (IF thread'[t].ol = y THEN 1 ELSE 0) = x /\ (IF thread[t].ol = y THEN 1 ELSE 0) = 0 /\ x \in Int
      BY <1>12, LspAssumption
    <3> HIDE DEF x, Carriers
    <3>3. QED
      BY <2>1, <3>1, <3>2
  <2>4. Copies(got, y) = Copies(pool', y) + x
    BY <1>6, <1>7
  <2>5. Flag(y, lower) \in Int /\ Flag(y, lost) \in Int /\ x \in Int
    BY DEF Flag
  <2>6. pending' = pending /\ port' = port /\ lower' = lower /\ lost' = lost
    BY <1>6
  <2> HIDE DEF x, Copies, Places, Carriers, Flag
  <2>7. QED
    BY <2>1, <2>2, <2>3, <2>4, <2>5, <2>6
<1>14. ASSUME NEW y \in Ols
       PROVE  /\ Places(y)' <= 1
              /\ ol'[y].Operation = "absent" => Places(y)' = 0
              /\ ol'[y].Operation # "absent" /\ lsp'.gBaseInfo => Places(y)' = 1
  <2>1. CASE New(got, y)
    <3>1. Places(y)' = 1
      <4>1. Places(y)' = Places(y) + Copies(got, y) - Copies(pool, y)
        BY <1>13
      <4>2. Places(y) = 0 /\ Copies(got, y) = 1 /\ Copies(pool, y) = 0
        BY <1>5, <2>1
      <4> HIDE DEF Places, Copies
      <4>3. QED
        BY <4>1, <4>2
    <3>2. ol'[y].Operation # "absent"
      BY <1>4, <1>10, <2>1 DEF Requested
    <3>3. QED
      BY <3>1, <3>2
  <2>2. CASE ~New(got, y)
    <3>1. Places(y)' = Places(y)
      <4>1. Places(y)' = Places(y) + Copies(got, y) - Copies(pool, y)
        BY <1>13
      <4>2. Copies(got, y) = Copies(pool, y) /\ Places(y) \in Int
        BY <1>1, <1>5, <2>2, OnePlace
      <4>3. Copies(pool, y) \in Nat
        BY <1>1, PlacesAre
      <4> HIDE DEF Places, Copies
      <4>4. QED
        BY <4>1, <4>2, <4>3
    <3>2. Places(y) <= 1 /\ (ol[y].Operation = "absent" => Places(y) = 0)
          /\ (ol[y].Operation # "absent" /\ lsp.gBaseInfo => Places(y) = 1)
      BY <1>1 DEF Conserved
    <3>3. ol'[y].Operation = "absent" <=> ol[y].Operation = "absent"
      <4>1. CASE y = h
        <5>1. ol[h].Operation # "absent"
          BY <1>4, <2>2, <4>1 DEF New, Absent
        <5>2. QED
          BY <1>4, <4>1, <5>1 DEF Requested
      <4>2. CASE y # h
        BY <1>4, <2>2, <4>2
      <4>3. QED
        BY <4>1, <4>2
    <3> HIDE DEF Places
    <3>4. QED
      BY <3>1, <3>2, <3>3
  <2>3. QED
    BY <2>1, <2>2
<1>15. Conserved'
  BY <1>14 DEF Conserved
<1>16. QED
  BY <1>8, <1>11, <1>15

LEMMA TakenOk ==
  ASSUME Good, NEW t \in Threads, thread[t].pc = "get", NEW got \in Refill, Takes(t, got), lsp' = lsp,
         Alters, KeepsCounts, RefsKept, list' = list, handle' = handle
  PROVE  Good'
<1> DEFINE h == Head(got)
<1>1. /\ LspOk /\ ThreadsOk /\ OlsOk /\ QueuesOk /\ InfosOk
      /\ Conserved /\ Balanced /\ Mapped /\ Listed /\ Matched /\ Accounted
  BY GoodIs
<1>2. PICK r : r = thread[t]
  OBVIOUS
<1>3. PICK p : p = IF r.op = "pnp" THEN "complete" ELSE "queue"
  OBVIOUS
<1>4. /\ t \in Apps /\ h \in Ols /\ ~UnderWay(h)
      /\ r.ctx \in Infos /\ Named(r.ctx, r.s) /\ r.s \in Handles /\ r.n \in Int
      /\ r.op \in Requested /\ (r.op = "acceptex" => r.a \in Handles /\ r.acc \in Infos /\ Named(r.acc, r.a))
      /\ Only(t) /\ Is(thread'[t], p, r.s, r.ctx, r.acc, r.a, NoInfo, h, r.op, r.n)
      /\ ol'[h] = [SockInfo |-> r.ctx, CallerSocket |-> r.s, Operation |-> r.op,
                   sAcceptSocket |-> r.a, req |-> r.req]
      /\ \A y \in Ols : UnderWay(y) => y # h /\ ol'[y] = ol[y]
  BY <1>2, <1>3, TakesIs
<1>5. ThreadOk(t, r) /\ ThreadMatched(r) /\ r.inner = NoInfo
  <2>1. ThreadOk(t, r) /\ ThreadMatched(r)
    BY <1>1, <1>2, ThreadIs
  <2>2. QED
    BY <1>1, <1>2, <2>1, CallThread DEF Calls
<1>6. LspStep /\ lsp'.leaked = lsp.leaked /\ lsp'.kept = lsp.kept /\ lsp'.gBaseInfo = lsp.gBaseInfo
  BY <1>1, LspSame
<1>7. OlsOk' /\ QueuesOk' /\ Conserved'
  BY <1>6, TakenPlaces
<1>8. pending' = pending /\ port' = port /\ lower' = lower
  BY DEF Takes
<1> HIDE DEF h
<1>9. \A y \in Ols : UnderWay(y)' /\ y # h => UnderWay(y)
  BY <1>4, <1>8 DEF UnderWay, Only, Is
<1>10. SocketsStay /\ LeaksOk /\ CountsStay
  BY <1>1, <1>6, AltersOk
<1>11. OlsFollow
  <2>1. \A d \in Infos : info'[d].state = info[d].state /\ info'[d].given = info[d].given
    BY <1>10 DEF SocketsStay, StaysAs
  <2>2. OlMatched(ol[h])'
    BY <1>4, <2>1 DEF OlMatched, Named
  <2>3. \A y \in Ols : UnderWay(y)' /\ y # h => UnderWay(y) /\ OlKept(y)
    BY <1>4, <1>9 DEF OlKept
  <2>4. QED
    BY <2>2, <2>3 DEF OlsFollow
<1>12. \A u \in Threads : u # t => thread'[u] = thread[u]
  BY <1>4 DEF Only
<1>13. OthersOl(t)
  <2>1. ASSUME NEW u \in Threads, u # t, thread[u].ol # NoOl
        PROVE  ol'[thread[u].ol].CallerSocket = ol[thread[u].ol].CallerSocket
    <3>1. thread[u].ol \in Ols
      BY <1>1, <2>1 DEF ThreadsOk, ThreadOk
    <3>2. \A o : thread[u].ol = o => UnderWay(o)
      BY DEF UnderWay
    <3>3. QED
      BY <1>4, <3>1, <3>2
  <2>2. QED
    BY <2>1 DEF OthersOl
<1>14. p \in Working /\ p \notin Inner /\ p \notin Alone /\ p \notin {"close", "closed", "get", "select", "setsockopt", "count"}
  BY <1>3 DEF Working, Inner, Alone
<1>15. ThreadOk(t, thread'[t])
  <2>1. h # NoOl /\ r.ctx # NoInfo
    BY <1>4, LspAssumption, LspSocketsAssumption
  <2>2. r.acc \in Infos \cup {NoInfo} /\ r.a \in Handles \cup {NoHandle}
    BY <1>5 DEF ThreadOk
  <2>3. QED
    BY <1>4, <1>14, <2>1, <2>2 DEF ThreadOk, Is
<1>16. Refs(t)
  <2>1. \A d \in Infos : Held(thread'[t], d) = Held(thread[t], d)
    BY <1>2, <1>4, <1>5, <1>14 DEF Held, Is
  <2>2. QED
    BY <1>1, <1>6, <2>1, RefsKeptOk
<1>17. ThreadMatched(thread'[t]) /\ thread'[t].inner = NoInfo
  BY <1>4, <1>5 DEF ThreadMatched, Is
<1>18. ThreadMatched(thread[t])'
  <2>1. thread'[t].ctx \in Infos \cup {NoInfo} /\ thread'[t].acc \in Infos \cup {NoInfo}
    BY <1>15 DEF ThreadOk
  <2>2. QED
    BY <1>10, <1>17, <2>1, MatchedNext
<1>19. Types' /\ Conserved' /\ Balanced' /\ Mapped' /\ Listed' /\ Matched' /\ Ages
  <2>1. LspOk' /\ lsp'.faults <= lsp.faults
    BY <1>6 DEF LspStep
  <2>2. QED
    BY <1>4, <1>7, <1>10, <1>11, <1>13, <1>15, <1>16, <1>18, <2>1, ShiftStep
<1>20. NoneDue
  <2>1. ASSUME NEW y \in Ols, Due(y)', ol'[y].Operation \in {"transfer", "acceptex"}
        PROVE  Due(y) /\ ol'[y] = ol[y]
    <3>1. y # h
      <4>1. ASSUME y = h PROVE FALSE
        <5>1. \A i \in DOMAIN port' : port'[i] # h
          BY <1>4, <1>8 DEF UnderWay
        <5>2. \A u \in Threads : u # t => thread'[u].ol # h
          BY <1>4, <1>12 DEF UnderWay
        <5>3. p \in {"complete", "account"}
          BY <1>4, <2>1, <4>1, <5>1, <5>2 DEF Due, Is
        <5>4. r.op = "pnp"
          BY <1>3, <5>3
        <5>5. QED
          BY <1>4, <2>1, <4>1, <5>4
      <4>2. QED
        BY <4>1
    <3>2. Due(y)
      BY <1>4, <1>8, <1>12, <2>1, <3>1 DEF Due, Is
    <3>3. UnderWay(y)
      BY <3>2 DEF Due, UnderWay
    <3>4. QED
      BY <1>4, <3>2, <3>3
  <2>2. QED
    BY <2>1 DEF NoneDue
<1>21. thread'[t].pc # "count"
  BY <1>4, <1>14 DEF Is
<1>22. Accounted'
  BY <1>1, <1>10, <1>12, <1>19, <1>20, <1>21, AccountedStep
<1>23. QED
  BY <1>19, <1>22 DEF Good

LEMMA GetOk ==
  ASSUME Good, NEW t \in Threads, GetOverlappedStructure(t), lsp'.health = "ok"
  PROVE  Good'
<1>1. LspOk /\ ThreadsOk /\ InfosOk /\ ~Wild
  BY GoodIs, NotOver
<1>2. PICK got \in Refill :
        IF got = <<>> THEN Exit(t) /\ lsp' = Fault /\ UNCHANGED <<ol, pool>>
        ELSE /\ pool' = Tail(got)
             /\ ol' = [Allocated(got) EXCEPT ![Head(got)] =
                       [SockInfo |-> thread[t].ctx, CallerSocket |-> thread[t].s, Operation |-> thread[t].op,
                        sAcceptSocket |-> thread[t].a, req |-> thread[t].req]]
             /\ thread' = [thread EXCEPT ![t].ol = Head(got),
                             ![t].pc = IF thread[t].op = "pnp" THEN "complete" ELSE "queue"]
             /\ UNCHANGED lsp
  BY <1>1 DEF GetOverlappedStructure
<1>3. /\ thread[t].pc = "get" /\ thread[t].pc \in Calls \ {"setsockopt"}
      /\ UNCHANGED <<pending, lower, port, lost>> /\ list' = list /\ handle' = handle
      /\ info' = [info EXCEPT ![thread[t].ctx].dwOutstandingAsync = @ + 1]
  BY <1>1 DEF GetOverlappedStructure, At, Calls
<1>4. thread[t].ctx \in Infos
  BY <1>1, <1>3, CallThread
<1>5. Alters /\ KeepsCounts /\ RefsKept
  BY <1>1, <1>3, <1>4, MarkOk
<1>6. CASE got = <<>>
  <2>1. Exit(t) /\ lsp' = Fault /\ UNCHANGED structures
    BY <1>2, <1>3, <1>6 DEF structures
  <2>2. LspStep /\ lsp'.leaked = lsp.leaked /\ lsp'.kept = lsp.kept
    BY <1>1, <2>1, LspFault
  <2>3. QED
    BY <1>3, <1>5, <2>1, <2>2, ExitOk
<1>7. CASE got # <<>>
  <2>1. Takes(t, got) /\ lsp' = lsp
    BY <1>2, <1>3, <1>7 DEF Takes
  <2>2. QED
    BY <1>3, <1>5, <2>1, TakenOk
<1>8. QED
  BY <1>6, <1>7

-------------------------------------------------------------------------------
(***************************************************************************)
(* Starting and stopping.                                                  *)
(***************************************************************************)
LEMMA SumIsNone ==
  ASSUME NEW a \in Nat, NEW b \in Nat, NEW c \in Nat, NEW d \in Nat, NEW e \in Nat, NEW f \in Nat,
         a + b + c + d + e + f = 0
  PROVE  b = 0 /\ c = 0 /\ d = 0 /\ e = 0 /\ f = 0
OBVIOUS

LEMMA ManagerStarts ==
  ASSUME Good, Absent = Ols, NEW b \in BOOLEAN,
         lsp' = [lsp EXCEPT !.gEntryCount = 1, !.gBaseInfo = TRUE, !.ghIocp = b],
         pool' = AllocateFreePool, ol' = Allocated(AllocateFreePool),
         UNCHANGED <<thread, pending, lower, port, lost, sockets>>
  PROVE  Good'
<1>1. /\ LspOk /\ ThreadsOk /\ OlsOk /\ QueuesOk /\ InfosOk
      /\ Conserved /\ Balanced /\ Mapped /\ Listed /\ Matched /\ Accounted
  BY GoodIs
<1>2. /\ thread' = thread /\ pending' = pending /\ lower' = lower /\ port' = port /\ lost' = lost
      /\ info' = info /\ list' = list /\ handle' = handle
  BY DEF sockets
<1>3. PICK q : q = AllocateFreePool
  OBVIOUS
<1>4. PoolCount <= Cardinality(Absent)
  <2>1. Cardinality(Ols) \in Nat
    BY FiniteSets, FS_CardinalityType
  <2>2. QED
    BY <2>1, LspAssumption
<1>5. q \in Seq(Ols) /\ NoTwice(q) /\ q # <<>>
  BY <1>3, <1>4, BlockIs
<1>6. /\ DOMAIN ol' = Ols
      /\ \A o \in Ols : ol'[o] = IF On(q, o) THEN Unused ELSE ol[o]
  BY <1>3, <1>5, ContainsIs DEF Allocated
<1>7. \A o \in Ols : ol[o].Operation = "absent" /\ Places(o) = 0 /\ ~UnderWay(o)
  <2>1. \A o \in Ols : ol[o].Operation = "absent"
    BY DEF Absent
  <2>2. QED
    BY <1>1, <2>1, OnePlace DEF Conserved
<1>8. OlOk(Unused) /\ Unused.Operation = "none"
  BY DEF OlOk, OlFields, Unused
<1>9. OlsOk'
  BY <1>1, <1>6, <1>8 DEF OlsOk
<1>10. QueuesOk'
  BY <1>1, <1>2, <1>3, <1>5 DEF QueuesOk
<1>11. \A o \in Ols : Places(o)' = IF On(q, o) THEN 1 ELSE 0
  <2> SUFFICES ASSUME NEW o \in Ols PROVE Places(o)' = IF On(q, o) THEN 1 ELSE 0
    OBVIOUS
  <2>1. /\ Places(o) = Copies(pool, o) + Copies(pending, o) + Copies(port, o)
                        + Cardinality(Carriers(o)) + Flag(o, lower) + Flag(o, lost)
        /\ Copies(pool, o) \in Nat /\ Copies(pending, o) \in Nat /\ Copies(port, o) \in Nat
        /\ Cardinality(Carriers(o)) \in Nat
    BY <1>1, PlacesAre
  <2>2. Places(o)' = Copies(pool', o) + Copies(pending', o) + Copies(port', o)
                        + Cardinality(Carriers(o)') + Flag(o, lower') + Flag(o, lost')
    BY <1>10, PlacesNextAre
  <2>3. Copies(pool', o) = IF On(q, o) THEN 1 ELSE 0
    BY <1>3, <1>5, CopiesOnce
  <2>4. Cardinality(Carriers(o)') = Cardinality(Carriers(o))
    BY <1>2 DEF Carriers
  <2>5. Flag(o, lower) \in Nat /\ Flag(o, lost) \in Nat
    BY DEF Flag
  <2>6. Places(o) = 0 /\ pending' = pending /\ port' = port /\ lower' = lower /\ lost' = lost
    BY <1>2, <1>7
  <2>7. PICK x \in {0, 1} : x = IF On(q, o) THEN 1 ELSE 0
    OBVIOUS
  <2>8. Copies(pool', o) = x
    BY <2>3, <2>7
  <2> HIDE DEF Places, Copies, Carriers, Flag, On
  <2>9. /\ Copies(pending, o) = 0 /\ Copies(port, o) = 0 /\ Cardinality(Carriers(o)) = 0
        /\ Flag(o, lower) = 0 /\ Flag(o, lost) = 0
    BY <2>1, <2>5, <2>6, SumIsNone
  <2>10. Places(o)' = x + 0 + 0 + 0 + 0 + 0
    BY <2>2, <2>4, <2>6, <2>8, <2>9
  <2>11. Places(o)' = x
    BY <2>7, <2>10
  <2>12. QED
    BY <2>7, <2>11
<1>12. Conserved'
  <2>1. ASSUME NEW o \in Ols
        PROVE  /\ Places(o)' <= 1
               /\ ol'[o].Operation = "absent" => Places(o)' = 0
               /\ ol'[o].Operation # "absent" /\ lsp'.gBaseInfo => Places(o)' = 1
    <3>1. Places(o)' = IF On(q, o) THEN 1 ELSE 0
      BY <1>11
    <3>2. ol'[o].Operation = "absent" <=> ~On(q, o)
      BY <1>6, <1>7, <1>8
    <3> HIDE DEF Places, On
    <3>3. QED
      BY <3>1, <3>2
  <2>2. QED
    BY <2>1 DEF Conserved
<1>13. OlsAlike
  BY <1>2, <1>7 DEF OlsAlike, UnderWay
<1>14. NoneDue
  <2>1. \A o \in Ols : ~Due(o)'
    BY <1>2, <1>7 DEF Due, UnderWay
  <2>2. QED
    BY <2>1 DEF NoneDue
<1>15. LspOk' /\ lsp'.faults <= lsp.faults /\ lsp'.leaked = lsp.leaked /\ lsp'.kept = lsp.kept
  BY <1>1 DEF LspOk, LspFields
<1>16. Alters /\ KeepsCounts /\ RefsKept
  BY <1>1, <1>2, InfoSameOk
<1>17. SocketsStay /\ CountsStay
  BY <1>1, <1>2, <1>15, <1>16, AltersOk
<1>18. /\ Types' /\ Conserved' /\ Balanced' /\ Mapped' /\ Listed' /\ Matched' /\ Ages
       /\ NoThread \notin Threads
  <2>1. \A c \in Infos : info'[c].RefCount = info[c].RefCount
    BY <1>2
  <2>2. QED
    BY <1>2, <1>9, <1>10, <1>12, <1>13, <1>15, <1>17, <2>1, StillStep
<1>19. Accounted'
  BY <1>1, <1>2, <1>14, <1>17, <1>18, AccountedStep
<1>20. QED
  BY <1>18, <1>19 DEF Good

LEMMA StartupOk == ASSUME Good, NEW t \in Threads, WSPStartup(t) PROVE Good'
<1>1. LspOk
  BY GoodIs
<1>2. UNCHANGED <<thread, pending, lower, port, lost, user, sockets>>
  BY DEF WSPStartup
<1>3. CASE lsp.gEntryCount = 0 /\ Absent = Ols /\ InitOverlappedManager
  <2>1. PICK b \in BOOLEAN : lsp' = [lsp EXCEPT !.gEntryCount = 1, !.gBaseInfo = TRUE, !.ghIocp = b]
    BY <1>3 DEF InitOverlappedManager
  <2>2. pool' = AllocateFreePool /\ ol' = Allocated(AllocateFreePool)
    BY <1>3 DEF InitOverlappedManager
  <2>3. UNCHANGED <<thread, pending, lower, port, lost, sockets>>
    BY <1>2
  <2>4. QED
    BY <1>3, <2>1, <2>2, <2>3, ManagerStarts
<1>4. CASE UNCHANGED <<pool, ol>> /\ \E g : \/ lsp' = [Fault EXCEPT !.gEntryCount = 1, !.global = g]
                                            \/ lsp' = [lsp EXCEPT !.gEntryCount = g, !.calls = @ - 1]
  <2>1. LspStep /\ lsp'.leaked = lsp.leaked /\ lsp'.kept = lsp.kept
    BY <1>1, <1>4, LspFaultGlobal
  <2>2. UNCHANGED <<thread, structures, sockets>>
    BY <1>2, <1>4 DEF structures
  <2>3. QED
    BY <2>1, <2>2, QuietStep
<1>5. CASE lsp.gEntryCount = 0 /\ Absent = Ols
  <2>1. \/ InitOverlappedManager
        \/ /\ UNCHANGED <<pool, ol>>
           /\ \E g : lsp' = [Fault EXCEPT !.gEntryCount = 1, !.global = g]
    <3> HIDE DEF Absent, InitOverlappedManager
    <3>1. QED
      BY <1>5 DEF WSPStartup
  <2>2. QED
    BY <1>3, <1>4, <1>5, <2>1
<1>6. CASE ~(lsp.gEntryCount = 0 /\ Absent = Ols)
  <2>1. UNCHANGED <<pool, ol>> /\ lsp' = [lsp EXCEPT !.gEntryCount = @ + 1, !.calls = @ - 1]
    BY <1>6 DEF WSPStartup
  <2>2. QED
    BY <1>4, <2>1
<1>7. QED
  BY <1>5, <1>6

LEMMA CleanupOk == ASSUME Good, NEW t \in Threads, WSPCleanup(t) PROVE Good'
<1>1. /\ LspOk /\ ThreadsOk /\ OlsOk /\ QueuesOk /\ InfosOk
      /\ Conserved /\ Balanced /\ Mapped /\ Listed /\ Matched /\ Accounted
  BY GoodIs
<1>2. /\ t \in Apps /\ thread[t].pc = "idle"
      /\ ol' = ol /\ pool' = pool /\ pending' = pending /\ lower' = lower /\ lost' = lost
      /\ info' = info /\ list' = list /\ handle' = handle
  BY DEF WSPCleanup, At, sockets
<1>3. CASE lsp' = [lsp EXCEPT !.gEntryCount = @ - 1] /\ UNCHANGED <<thread, port>>
  <2>1. LspStep /\ lsp'.leaked = lsp.leaked /\ lsp'.kept = lsp.kept
    BY <1>1, <1>3, LspFaultGlobal
  <2>2. UNCHANGED <<thread, structures, sockets>>
    BY <1>2, <1>3 DEF structures, sockets
  <2>3. QED
    BY <2>1, <2>2, QuietStep
<1>4. CASE /\ lsp' = [lsp EXCEPT !.gEntryCount = 0, !.global = t,
                                 !.window = IF @ = "up" THEN "stopped" ELSE @]
           /\ port' = IF lsp.ghIocp THEN port \o [i \in 1..Cardinality(Workers) |-> NoOl] ELSE port
           /\ Goto(t, IF lsp.ghIocp THEN "stopping" ELSE "freeing")
  <2>1. LspStep /\ lsp'.leaked = lsp.leaked /\ lsp'.kept = lsp.kept
    <3>1. /\ DOMAIN lsp' = LspFields /\ lsp'.leaked = lsp.leaked /\ lsp'.kept = lsp.kept /\ lsp'.faults = lsp.faults
          /\ lsp'.gBaseInfo = lsp.gBaseInfo
      BY <1>1, <1>4 DEF LspOk, LspFields
    <3>2. QED
      BY <1>1, <3>1 DEF LspOk, LspStep
  <2>2. /\ port' \in Seq(Ols \cup {NoOl})
        /\ \A x : x # NoOl => Copies(port', x) = Copies(port, x)
        /\ \A i \in DOMAIN port' : port'[i] = NoOl \/ \E j \in DOMAIN port : port'[i] = port[j]
    <3>1. port \in Seq(Ols \cup {NoOl}) /\ NoOl \in Ols \cup {NoOl}
      BY <1>1 DEF QueuesOk
    <3>2. Cardinality(Workers) \in Nat
      BY LspAssumption, FS_CardinalityType
    <3>3. CASE lsp.ghIocp
      <4>1. PICK n \in Nat : n = Cardinality(Workers)
        BY <3>2
      <4>2. PICK q : q = [i \in 1..n |-> NoOl]
        OBVIOUS
      <4>3. PICK S : S = Ols \cup {NoOl}
        OBVIOUS
      <4>4. q \in Seq(S) /\ (\A i \in DOMAIN q : q[i] = NoOl) /\ port \in Seq(S) /\ NoOl \in S
        BY <3>1, <4>2, <4>3
      <4>5. /\ port \o q \in Seq(S)
            /\ \A x : x # NoOl => Copies(port \o q, x) = Copies(port, x)
            /\ \A i \in DOMAIN (port \o q) :
                 (port \o q)[i] = NoOl \/ \E j \in DOMAIN port : (port \o q)[i] = port[j]
        BY <4>4, CopiesPad
      <4>6. port' = port \o q
        BY <1>4, <3>3, <4>1, <4>2
      <4>7. QED
        BY <4>3, <4>5, <4>6
    <3>4. CASE ~lsp.ghIocp
      BY <1>4, <3>1, <3>4
    <3>5. QED
      BY <3>3, <3>4
  <2>3. PICK p : p = IF lsp.ghIocp THEN "stopping" ELSE "freeing"
    OBVIOUS
  <2>4. Goto(t, p)
    BY <1>4, <2>3
  <2>5. /\ Only(t)
        /\ LET r == thread[t] IN Is(thread'[t], p, r.s, r.ctx, r.acc, r.a, r.inner, r.ol, r.op, r.n)
    BY <1>1, <2>4, GotoIs
  <2>6. ThreadOk(t, thread[t]) /\ ThreadMatched(thread[t])
    BY <1>1, ThreadIs
  <2>7. /\ thread[t].ctx = NoInfo /\ thread[t].acc = NoInfo /\ thread[t].inner = NoInfo /\ thread[t].ol = NoOl
    BY <1>1, <1>2, IdleThread
  <2>8. p \in Alone /\ p \notin Working /\ p \notin Inner /\ p \notin {"select", "setsockopt", "close", "closed", "get"}
    BY <2>3, PcsDiffer DEF Alone
  <2>9. ThreadOk(t, thread'[t])
    BY <1>2, <2>5, <2>6, <2>7, <2>8 DEF ThreadOk, Is
  <2>10. ThreadMatched(thread'[t]) /\ thread'[t].inner = NoInfo /\ thread'[t].ol = NoOl
    BY <2>5, <2>6, <2>7 DEF ThreadMatched, Is
  <2>11. thread'[t].pc \notin {"count", "complete", "account"}
    BY <2>3, <2>5 DEF Is
  <2>12. \A d \in Infos : Held(thread'[t], d) = Held(thread[t], d)
    BY <2>5, <2>7, LspSocketsAssumption DEF Held, Is
  <2>13. OlsOk' /\ QueuesOk'
    BY <1>1, <1>2, <2>2 DEF OlsOk, QueuesOk
  <2>14. PlacesKept
    <3>1. ASSUME NEW y \in Ols PROVE Places(y)' = Places(y)
      <4>1. (IF thread'[t].ol = y THEN 1 ELSE 0) = (IF thread[t].ol = y THEN 1 ELSE 0)
        BY <2>7, <2>10
      <4>2. Copies(port', y) = Copies(port, y)
        BY <2>2, LspAssumption
      <4> HIDE DEF Copies
      <4>3. QED
        BY <1>1, <1>2, <2>5, <2>13, <4>1, <4>2, PlacesSame
    <3>2. QED
      BY <1>2, <3>1 DEF PlacesKept
  <2>15. OlsAlike
    <3>1. ASSUME NEW y \in Ols, UnderWay(y)' PROVE UnderWay(y)
      BY <1>2, <2>2, <2>5, <2>10, <3>1, LspAssumption DEF UnderWay, Only
    <3>2. QED
      BY <1>2, <3>1 DEF OlsAlike, OlKept
  <2>16. NoneDue
    <3>1. ASSUME NEW y \in Ols, Due(y)' PROVE Due(y)
      BY <1>2, <2>2, <2>5, <2>10, <3>1, LspAssumption DEF Due, Only
    <3>2. QED
      BY <1>2, <3>1 DEF NoneDue
  <2>17. Alters /\ KeepsCounts /\ RefsKept
    BY <1>1, <1>2, InfoSameOk
  <2>18. QED
    BY <1>2, <2>1, <2>5, <2>9, <2>10, <2>11, <2>12, <2>13, <2>14, <2>15, <2>16, <2>17, CarryStep
<1>5. QED
  BY <1>3, <1>4 DEF WSPCleanup

(* WSPCleanup ends: every context of the list is freed, and the heap of    *)
(* the structures.  The threads keep the names they have.                  *)
LEMMA FreeSocketsAndMemoryOk ==
  ASSUME Good, NEW t \in Threads, FreeSocketsAndMemory(t), lsp'.health = "ok"
  PROVE  Good'
<1>1. /\ LspOk /\ ThreadsOk /\ OlsOk /\ QueuesOk /\ InfosOk
      /\ Conserved /\ Balanced /\ Mapped /\ Listed /\ Matched /\ Accounted
      /\ ~Wild
  BY GoodIs, NotOver
<1>2. /\ thread[t].pc = "freeing"
      /\ info' = CloseAndFreeSocketInfo /\ list' = <<>>
      /\ handle' = [s \in Handles |-> IF handle[s] \in lsp.kept THEN handle[s] ELSE NoInfo]
      /\ lsp' = [lsp EXCEPT !.gBaseInfo = FALSE, !.ghIocp = FALSE, !.global = NoThread]
      /\ Return(t) /\ ol' = ol
      /\ pool' = <<>> /\ pending' = <<>> /\ lower' = {} /\ port' = <<>> /\ lost' = {}
  BY <1>1 DEF FreeSocketsAndMemory, At
<1>3. ThreadOk(t, thread[t]) /\ ThreadMatched(thread[t]) /\ DOMAIN thread = Threads
  BY <1>1, ThreadIs
<1>4. /\ Only(t)
      /\ Is(thread'[t], "idle", NoHandle, NoInfo, NoInfo, NoHandle, NoInfo, NoOl, "none", 0)
  BY <1>2, <1>3, ReturnIs
<1>5. "idle" \in Alone /\ "idle" \notin Working /\ "idle" \notin Inner
  BY PcsDiffer DEF Alone
<1>6. t \in Apps /\ thread[t].ol = NoOl
  BY <1>2, <1>3 DEF ThreadOk, Working
<1>7. ThreadsOk'
  <2>1. ThreadOk(t, thread'[t])
    BY <1>4, <1>5, <1>6 DEF ThreadOk, Is
  <2>2. QED
    BY <1>1, <1>4, <2>1, ThreadsOkStep
<1>8. /\ DOMAIN lsp' = LspFields /\ ~lsp'.gBaseInfo /\ lsp'.gBaseInfo \in BOOLEAN
      /\ lsp'.faults = lsp.faults /\ lsp'.leaked = lsp.leaked /\ lsp'.kept = lsp.kept
  BY <1>1, <1>2 DEF LspOk, LspFields
<1>9. LspOk' /\ lsp'.faults <= lsp.faults
  BY <1>1, <1>8 DEF LspOk
<1>10. OlsOk' /\ QueuesOk'
  BY <1>1, <1>2, EmptySeq DEF OlsOk, QueuesOk
<1>11. \A c \in lsp.kept : c \in Infos /\ info[c].state # "none"
  BY <1>1 DEF LspOk, Listed
<1>12. /\ DOMAIN info' = Infos
       /\ \A c \in Infos : \/ info'[c] = Remains(c) /\ info[c].state # "none"
                           \/ info'[c] = info[c] /\ ~Live(c)
  BY <1>2 DEF CloseAndFreeSocketInfo, Live
<1>13. \A c \in Infos :
         /\ DOMAIN Remains(c) = InfoFields /\ Remains(c).state = "freed" /\ Remains(c).given = info[c].given
         /\ Remains(c).ProviderSocket = "invalid" /\ Remains(c).LayeredSocket = NoHandle
         /\ Remains(c).RefCount = 0 /\ Remains(c).Bytes = 0 /\ Remains(c).moved = 0
  BY DEF Remains, Blank, InfoFields
<1>14. \A c \in Infos : InfoOk(info'[c]) /\ ~Live(c)'
  <2>1. \A c \in Infos : InfoOk(info[c]) /\ info[c].given \in Handles \cup {NoHandle}
    BY <1>1 DEF InfosOk, InfoOk
  <2>2. ASSUME NEW c \in Infos, info'[c] = Remains(c) PROVE InfoOk(info'[c]) /\ ~Live(c)'
    BY <1>13, <2>1, <2>2 DEF InfoOk, Live
  <2>3. ASSUME NEW c \in Infos, info'[c] = info[c], ~Live(c) PROVE InfoOk(info'[c]) /\ ~Live(c)'
    BY <2>1, <2>3 DEF Live
  <2>4. QED
    BY <1>12, <2>2, <2>3
<1>15. InfosOk'
  BY <1>12, <1>14 DEF InfosOk
<1>16. Ages
  BY <1>12, <1>13 DEF Ages, Live
<1>17. \A y \in Ols : ~UnderWay(y)' \/ UnderWay(y)
  BY <1>2, <1>4, <1>6, LspAssumption DEF UnderWay, Only, Is
<1>18. Conserved'
  <2> SUFFICES ASSUME NEW y \in Ols
               PROVE  Places(y)' <= 1 /\ (ol[y].Operation = "absent" => Places(y)' = 0)
    BY <1>2, <1>8 DEF Conserved
  <2>1. /\ Places(y) = Copies(pool, y) + Copies(pending, y) + Copies(port, y)
                        + Cardinality(Carriers(y)) + Flag(y, lower) + Flag(y, lost)
        /\ Copies(pool, y) \in Nat /\ Copies(pending, y) \in Nat /\ Copies(port, y) \in Nat
        /\ Cardinality(Carriers(y)) \in Nat
    BY <1>1, PlacesAre
  <2>2. Places(y)' = Copies(pool', y) + Copies(pending', y) + Copies(port', y)
                        + Cardinality(Carriers(y)') + Flag(y, lower') + Flag(y, lost')
    BY <1>10, PlacesNextAre
  <2>3. Copies(pool', y) = 0 /\ Copies(pending', y) = 0 /\ Copies(port', y) = 0
    BY <1>2, CopiesEmpty
  <2>4. Flag(y, lower') = 0 /\ Flag(y, lost') = 0 /\ Flag(y, lower) \in Nat /\ Flag(y, lost) \in Nat
    BY <1>2 DEF Flag
  <2>5. Cardinality(Carriers(y)') = Cardinality(Carriers(y))
    <3>1. (IF thread'[t].ol = y THEN 1 ELSE 0) = (IF thread[t].ol = y THEN 1 ELSE 0)
      BY <1>4, <1>6 DEF Is
    <3>2. /\ Cardinality(Carriers(y)) \in Nat /\ Cardinality(Carriers(y)') \in Nat
          /\ Cardinality(Carriers(y)') = Cardinality(Carriers(y))
               + (IF thread'[t].ol = y THEN 1 ELSE 0) - (IF thread[t].ol = y THEN 1 ELSE 0)
      BY <1>4, CarriersChange
    <3> HIDE DEF Carriers
    <3>3. QED
      BY <3>1, <3>2
  <2>6. /\ Places(y) <= 1 /\ (ol[y].Operation = "absent" => Places(y) = 0)
    BY <1>1 DEF Conserved
  <2>7. Places(y)' = Cardinality(Carriers(y))
    <3> HIDE DEF Places, Copies, Carriers, Flag
    <3>1. QED
      BY <2>1, <2>2, <2>3, <2>4, <2>5
  <2>8. Places(y)' <= Places(y) /\ Places(y)' \in Nat
    <3> HIDE DEF Places, Copies, Carriers, Flag
    <3>1. QED
      BY <2>1, <2>4, <2>7
  <2>9. Places(y) \in Int
    <3> HIDE DEF Places, Copies, Carriers, Flag
    <3>1. QED
      BY <2>1, <2>4
  <2> HIDE DEF Places
  <2>10. QED
    BY <2>6, <2>8, <2>9
<1>19. Balanced' /\ Accounted'
  BY <1>14 DEF Balanced, Accounted
<1>20. Mapped'
  <2>1. /\ DOMAIN handle' = Handles
        /\ \A s \in Handles : /\ handle'[s] \in Infos \cup {NoInfo}
                              /\ handle'[s] # NoInfo => handle'[s] \in lsp'.kept
    BY <1>2, <1>8, <1>11
  <2>2. \A c \in Infos : ~Live(c)'
    BY <1>14
  <2>3. QED
    BY <2>1, <2>2, LspSocketsAssumption DEF Mapped
<1>21. Listed'
  <2>1. \A c \in lsp'.kept : info'[c].state # "none"
    BY <1>8, <1>11, <1>16 DEF Ages
  <2>2. QED
    BY <1>2, <1>14, <2>1, EmptySeq DEF Listed
<1>22. Matched'
  <2>1. ThreadMatched(thread[t])'
    BY <1>4, LspSocketsAssumption DEF ThreadMatched, Is
  <2>2. LeaksOk
    BY <1>1, <1>8, <1>16, <1>12, <1>13 DEF LeaksOk, Matched
  <2>3. \A y \in Ols : UnderWay(y)' => OlMatched(ol[y])'
    <3>1. \A y \in Ols : OlKept(y)
      BY <1>2 DEF OlKept
    <3>2. QED
      BY <1>1, <1>16, <1>17, <3>1, OlMatchedAges DEF Matched
  <2>4. \A u \in Threads : u # t => thread'[u] = thread[u]
    BY <1>4 DEF Only
  <2>5. OthersOl(t)
    BY <1>2 DEF OthersOl
  <2>6. QED
    BY <1>1, <1>16, <2>1, <2>2, <2>3, <2>4, <2>5, MatchedStep
<1>23. QED
  BY <1>7, <1>9, <1>10, <1>15, <1>18, <1>19, <1>20, <1>21, <1>22 DEF Good, Types

-------------------------------------------------------------------------------
(***************************************************************************)
(* Every step.                                                             *)
(***************************************************************************)
LEMMA RequestedOps ==
  {"transfer", "other", "pnp", "recvmsg"} \subseteq Requested \ {"acceptex"}
BY DEF Requested

LEMMA ForwardOk ==
  ASSUME Good, NEW t \in Threads, NEW s \in Handles, Forward(t, s)
  PROVE  Good'
BY EnterOk DEF Forward

LEMMA OverlappedOk ==
  ASSUME Good, NEW t \in Threads, NEW s \in Handles, NEW op \in {"transfer", "other", "pnp", "recvmsg"},
         NEW r, Overlapped(t, s, op, r)
  PROVE  Good'
<1>1. op \in Requested \ {"acceptex"}
  BY RequestedOps
<1>2. Enter(t, s, "get", op, r)
  BY DEF Overlapped
<1>3. QED
  BY <1>1, <1>2, EnterOk

LEMMA NameCallOk ==
  ASSUME Good, NEW t \in Threads, NEW s \in Handles, NameCall(t, s)
  PROVE  Good'
<1>1. Forward(t, s)
  BY DEF NameCall, WSPBind, WSPConnect, WSPDuplicateSocket, WSPEnumNetworkEvents, WSPEventSelect,
         WSPGetPeerName, WSPGetSockName, WSPGetSockOpt, WSPGetQOSByName, WSPListen,
         WSPRecvDisconnect, WSPSendDisconnect, WSPShutdown
<1>2. QED
  BY <1>1, ForwardOk

LEMMA SocketCallOk ==
  ASSUME Good, NEW t \in Threads, NEW s \in Handles, SocketCall(t, s), lsp'.health = "ok"
  PROVE  Good'
<1>1. CASE WSPSelect(t, s)
  BY <1>1, SelectOk
<1>2. CASE WSPAsyncSelect(t, s)
  BY <1>2, AsyncSelectOk
<1>3. CASE WSPAccept(t, s)
  BY <1>3, EnterOk DEF WSPAccept
<1>4. CASE WSPJoinLeaf(t, s)
  BY <1>4, EnterOk DEF WSPJoinLeaf
<1>5. CASE WSPCloseSocket(t, s)
  BY <1>5, EnterOk DEF WSPCloseSocket
<1>6. CASE WSPIoctlExtension(t, s)
  BY <1>6, ForwardOk DEF WSPIoctlExtension
<1>7. CASE \E l \in Handles \cup {NoHandle} : WSPSetSockOpt(t, s, l)
  BY <1>7, SetSockOptOk
<1>8. ~LookupFreed(t, s)
  BY GoodIs, NotOver DEF LookupFreed
<1>9. QED
  BY <1>1, <1>2, <1>3, <1>4, <1>5, <1>6, <1>7, <1>8 DEF SocketCall

LEMMA TransferCallOk ==
  ASSUME Good, NEW t \in Threads, NEW s \in Handles, NEW r, TransferCall(t, s, r)
  PROVE  Good'
<1>1. \/ Blocking(t, s) \/ Forward(t, s)
      \/ \E op \in {"transfer", "other", "pnp", "recvmsg"} : Overlapped(t, s, op, r)
      \/ \E a \in Handles : ExtAcceptEx(t, s, a, r)
  BY DEF TransferCall, WSPRecv, WSPRecvFrom, WSPSend, WSPSendTo, WSPIoctl, WSPIoctlPnpHandle, Extension,
         ExtTransmitFile, ExtConnectEx, ExtTransmitPackets, ExtDisconnectEx, ExtWSARecvMsg
<1>2. CASE Blocking(t, s)
  BY <1>2, EnterOk DEF Blocking
<1>3. CASE Forward(t, s)
  BY <1>3, ForwardOk
<1>4. CASE \E op \in {"transfer", "other", "pnp", "recvmsg"} : Overlapped(t, s, op, r)
  BY <1>4, OverlappedOk
<1>5. CASE \E a \in Handles : ExtAcceptEx(t, s, a, r)
  BY <1>5, AcceptExOk
<1>6. QED
  BY <1>1, <1>2, <1>3, <1>4, <1>5

LEMMA InCallOk ==
  ASSUME Good, NEW t \in Threads, InCall(t), lsp'.health = "ok"
  PROVE  Good'
<1>1. ~StructureGone(t)
  BY GoodIs, NotOver DEF StructureGone
<1>2. CASE \/ UpdateAcceptContext(t) \/ SelectLower(t) \/ CloseProvider(t) \/ CloseLayered(t)
           \/ NoNewSocket(t) \/ Transfer(t) \/ Count(t)
  BY <1>2, UpdateAcceptContextOk, SelectLowerOk, CloseProviderOk, CloseLayeredOk, NoNewSocketOk,
     TransferOk, CountOk
<1>3. CASE \/ GetWorkerWindow(t) \/ AsyncSelectLower(t)
           \/ GetOverlappedStructure(t) \/ QueueOverlappedOperation(t) \/ EnqueueOverlappedOperation(t)
  BY <1>3, GetWorkerWindowOk, AsyncSelectLowerOk, GetOk, QueueOk, EnqueueOk
<1>4. CASE \/ CompleteFind(t) \/ Account(t) \/ Release(t) \/ Notify(t)
           \/ CleanupFind(t) \/ Decrement(t) \/ CleanupUnlock(t)
  BY <1>4, CompleteFindOk, AccountOk, ReleaseOk, NotifyOk, CleanupFindOk, DecrementOk, CleanupUnlockOk
<1>5. CASE \/ PutbackOverlappedStructure(t) \/ Leave(t)
           \/ StopOverlappedManager(t) \/ FreeSocketsAndMemory(t)
  BY <1>5, PutbackOk, LeaveOk, StopOverlappedManagerOk, FreeSocketsAndMemoryOk
<1>6. QED
  BY <1>1, <1>2, <1>3, <1>4, <1>5 DEF InCall

LEMMA ApplicationOk ==
  ASSUME Good, NEW t \in Apps, lsp'.health = "ok",
         \/ WSPStartup(t) \/ WSPCleanup(t) \/ WSPCancelBlockingCall(t)
         \/ \E s \in Handles : NameCall(t, s) \/ SocketCall(t, s)
         \/ \E s \in Handles, r \in Requests : TransferCall(t, s, r)
         \/ \E c \in Infos, s \in Handles : WSPSocket(t, c, s)
         \/ \E c \in Infos : WSPSocketNoHandle(t, c)
         \/ \E c \in Infos, s \in Handles \cup {NoHandle} : NewSocket(t, c, s)
  PROVE  Good'
<1>1. t \in Threads
  BY DEF Threads
<1>2. /\ ~WSPCancelBlockingCall(t)
      /\ \A c \in Infos : ~WSPSocketNoHandle(t, c)
  BY GoodIs, NotOver DEF WSPCancelBlockingCall, WSPSocketNoHandle
<1>3. CASE WSPStartup(t) \/ WSPCleanup(t)
  BY <1>1, <1>3, StartupOk, CleanupOk
<1>4. CASE \E s \in Handles : NameCall(t, s) \/ SocketCall(t, s)
  BY <1>1, <1>4, NameCallOk, SocketCallOk
<1>5. CASE \E s \in Handles, r \in Requests : TransferCall(t, s, r)
  BY <1>1, <1>5, TransferCallOk
<1>6. CASE \E c \in Infos, s \in Handles : WSPSocket(t, c, s)
  BY <1>1, <1>6, WSPSocketOk
<1>7. CASE \E c \in Infos, s \in Handles \cup {NoHandle} : NewSocket(t, c, s)
  BY <1>1, <1>7, NewSocketOk
<1>8. QED
  BY <1>2, <1>3, <1>4, <1>5, <1>6, <1>7

LEMMA NextOk == ASSUME Good, Next, lsp'.health = "ok" PROVE Good'
<1>1. CASE \E t \in Apps :
             \/ WSPStartup(t) \/ WSPCleanup(t) \/ WSPCancelBlockingCall(t)
             \/ \E s \in Handles : NameCall(t, s) \/ SocketCall(t, s)
             \/ \E s \in Handles, r \in Requests : TransferCall(t, s, r)
             \/ \E c \in Infos, s \in Handles : WSPSocket(t, c, s)
             \/ \E c \in Infos : WSPSocketNoHandle(t, c)
             \/ \E c \in Infos, s \in Handles \cup {NoHandle} : NewSocket(t, c, s)
  BY <1>1, ApplicationOk
<1>2. CASE \E t \in Threads : InCall(t)
  BY <1>2, InCallOk
<1>3. CASE \E w \in Workers : WorkerWait(w)
  BY <1>3, ManagerOk, DequeueOk DEF WorkerWait
<1>4. CASE \E o \in Ols : LowerCompletes(o)
  BY <1>4, LowerOk
<1>5. CASE \E c \in Infos : AsyncWndProc(c)
  BY <1>5, AsyncWndProcOk
<1>6. CASE \E r \in Requests : WSPGetOverlappedResult(r)
  BY <1>6, WSPGetOverlappedResultOk
<1>7. CASE AsyncWndProcPost
  BY <1>7, AsyncWndProcPostOk
<1>8. ~DllMain
  BY GoodIs, NotOver DEF DllMain
<1>9. QED
  BY <1>1, <1>2, <1>3, <1>4, <1>5, <1>6, <1>7, <1>8 DEF Next

(* Every step is one of a process that has not gone wrong.                 *)
LEMMA EnterNeeds == ASSUME NEW t, NEW s, NEW p, NEW op, NEW r, Enter(t, s, p, op, r) PROVE lsp.health = "ok"
BY DEF Enter, Calling, At

LEMMA CallsNeed ==
  ASSUME NEW t, NEW s, NameCall(t, s) \/ SocketCall(t, s) \/ \E r \in Requests : TransferCall(t, s, r)
  PROVE  lsp.health = "ok"
<1>1. CASE NameCall(t, s)
  BY <1>1, EnterNeeds
     DEF NameCall, WSPBind, WSPConnect, WSPDuplicateSocket, WSPEnumNetworkEvents, WSPEventSelect,
         WSPGetPeerName, WSPGetSockName, WSPGetSockOpt, WSPGetQOSByName, WSPListen,
         WSPRecvDisconnect, WSPSendDisconnect, WSPShutdown, Forward
<1>2. CASE SocketCall(t, s)
  BY <1>2, EnterNeeds
     DEF SocketCall, WSPSelect, WSPAsyncSelect, WSPAccept, WSPJoinLeaf, WSPCloseSocket,
         WSPIoctlExtension, WSPSetSockOpt, LookupFreed, Forward, Calling, At
<1>3. CASE \E r \in Requests : TransferCall(t, s, r)
  <2>1. PICK r \in Requests : TransferCall(t, s, r)
    BY <1>3
  <2>2. \/ Blocking(t, s) \/ Forward(t, s)
        \/ \E op : Overlapped(t, s, op, r)
        \/ \E a \in Handles : ExtAcceptEx(t, s, a, r)
    BY <2>1
       DEF TransferCall, WSPRecv, WSPRecvFrom, WSPSend, WSPSendTo, WSPIoctl, WSPIoctlPnpHandle, Extension,
           ExtTransmitFile, ExtConnectEx, ExtTransmitPackets, ExtDisconnectEx, ExtWSARecvMsg
  <2>3. QED
    BY <2>2, EnterNeeds DEF Blocking, Forward, Overlapped, ExtAcceptEx, Calling, At
<1>4. QED
  BY <1>1, <1>2, <1>3

LEMMA InCallNeeds == ASSUME NEW t, InCall(t) PROVE lsp.health = "ok"
<1>1. CASE \/ UpdateAcceptContext(t) \/ SelectLower(t) \/ CloseProvider(t) \/ CloseLayered(t)
           \/ NoNewSocket(t) \/ Transfer(t) \/ Count(t)
  BY <1>1 DEF UpdateAcceptContext, SelectLower, CloseProvider, CloseLayered, NoNewSocket, Transfer, Count, At
<1>2. CASE \/ GetWorkerWindow(t) \/ AsyncSelectLower(t)
           \/ GetOverlappedStructure(t) \/ QueueOverlappedOperation(t) \/ EnqueueOverlappedOperation(t)
  BY <1>2 DEF GetWorkerWindow, AsyncSelectLower, GetOverlappedStructure, QueueOverlappedOperation,
              EnqueueOverlappedOperation, At
<1>3. CASE \/ CompleteFind(t) \/ Account(t) \/ Release(t) \/ Notify(t)
           \/ CleanupFind(t) \/ Decrement(t) \/ CleanupUnlock(t)
  BY <1>3 DEF CompleteFind, Account, Release, Notify, CleanupFind, Decrement, CleanupUnlock, At
<1>4. CASE \/ PutbackOverlappedStructure(t) \/ Leave(t) \/ StructureGone(t)
           \/ StopOverlappedManager(t) \/ FreeSocketsAndMemory(t)
  BY <1>4 DEF PutbackOverlappedStructure, Leave, StructureGone, StopOverlappedManager, FreeSocketsAndMemory, At
<1>5. QED
  BY <1>1, <1>2, <1>3, <1>4 DEF InCall

LEMMA NextNeeds == ASSUME Next PROVE lsp.health = "ok"
<1>1. ASSUME NEW t \in Apps,
             \/ WSPStartup(t) \/ WSPCleanup(t) \/ WSPCancelBlockingCall(t)
             \/ \E s \in Handles : NameCall(t, s) \/ SocketCall(t, s)
             \/ \E s \in Handles, r \in Requests : TransferCall(t, s, r)
             \/ \E c \in Infos, s \in Handles : WSPSocket(t, c, s)
             \/ \E c \in Infos : WSPSocketNoHandle(t, c)
             \/ \E c \in Infos, s \in Handles \cup {NoHandle} : NewSocket(t, c, s)
      PROVE  lsp.health = "ok"
  BY <1>1, CallsNeed
     DEF WSPStartup, WSPCleanup, WSPCancelBlockingCall, WSPSocket, WSPSocketNoHandle, NewSocket, Calling, At
<1>2. ASSUME \/ \E w \in Workers : WorkerWait(w)
             \/ \E o \in Ols : LowerCompletes(o)
             \/ \E c \in Infos : AsyncWndProc(c)
             \/ \E r \in Requests : WSPGetOverlappedResult(r)
             \/ AsyncWndProcPost \/ DllMain
      PROVE  lsp.health = "ok"
  BY <1>2 DEF WorkerWait, OverlappedManagerThread, DequeueOverlappedOperation, LowerCompletes, AsyncWndProc,
              WSPGetOverlappedResult, AsyncWndProcPost, DllMain, At
<1>3. QED
  BY <1>1, <1>2, InCallNeeds DEF Next

-------------------------------------------------------------------------------
(***************************************************************************)
(* The initial state, and the theorems.                                    *)
(***************************************************************************)
LEMMA InitGood == ASSUME Init PROVE Good
<1>1. /\ thread = [t \in Threads |-> Idle] /\ ol = [o \in Ols |-> Unallocated]
      /\ pool = <<>> /\ pending = <<>> /\ lower = {} /\ port = <<>> /\ lost = {}
      /\ info = [c \in Infos |-> Blank] /\ list = <<>> /\ handle = [s \in Handles |-> NoInfo]
      /\ DOMAIN lsp = LspFields /\ lsp.gBaseInfo = FALSE /\ lsp.faults = MaxFaults
      /\ lsp.leaked = [c \in Infos |-> 0] /\ lsp.kept = {}
  BY DEF Init, SocketsInit, LspFields
<1>2. /\ DOMAIN Blank = InfoFields /\ Blank.state = "none" /\ Blank.ProviderSocket = "invalid"
      /\ Blank.LayeredSocket = NoHandle /\ Blank.given = NoHandle
      /\ Blank.RefCount = 0 /\ Blank.Bytes = 0 /\ Blank.moved = 0
  BY DEF Blank, InfoFields
<1>3. LspOk
  <2>1. DOMAIN lsp.leaked = Infos /\ \A c \in Infos : lsp.leaked[c] \in Int
    BY <1>1
  <2>2. lsp.faults \in Int /\ lsp.faults <= MaxFaults
    BY <1>1, LspAssumption
  <2>3. lsp.gBaseInfo \in BOOLEAN
    BY <1>1
  <2>4. DOMAIN lsp = LspFields
    BY <1>1
  <2>5. QED
    BY <1>1, <2>1, <2>2, <2>3, <2>4 DEF LspOk
<1>4. Idle.ol = NoOl /\ Idle.pc = "idle"
  BY IdleIs DEF Is
<1>5. ThreadsOk
  <2>1. "idle" \in Alone /\ "idle" \notin Working /\ "idle" \notin Inner
    BY PcsDiffer DEF Alone
  <2>2. \A t \in Threads : ThreadOk(t, Idle)
    BY <2>1, IdleIs DEF ThreadOk, Is
  <2>3. QED
    BY <1>1, <2>2 DEF ThreadsOk
<1>6. OlOk(Unallocated) /\ Unallocated.Operation = "absent"
  BY DEF OlOk, OlFields, Unallocated, Unused
<1>7. OlsOk
  BY <1>1, <1>6 DEF OlsOk
<1>8. QueuesOk
  BY <1>1, EmptySeq DEF QueuesOk
<1>9. \A c \in Infos : InfoOk(info[c]) /\ info[c].state = "none" /\ ~Live(c)
  BY <1>1, <1>2 DEF InfoOk, Live
<1>10. InfosOk
  BY <1>1, <1>9 DEF InfosOk
<1>11. Conserved
  <2> SUFFICES ASSUME NEW o \in Ols PROVE Places(o) = 0 /\ ol[o].Operation = "absent"
    BY DEF Conserved
  <2>1. Copies(pool, o) = 0 /\ Copies(pending, o) = 0 /\ Copies(port, o) = 0
    BY <1>1, CopiesEmpty
  <2>2. Flag(o, lower) = 0 /\ Flag(o, lost) = 0
    BY <1>1 DEF Flag
  <2>3. Cardinality(Carriers(o)) = 0
    <3>1. Carriers(o) = {}
      BY <1>1, <1>4, LspAssumption DEF Carriers
    <3>2. QED
      BY <3>1, FS_EmptySet
  <2>4. Places(o) = Copies(pool, o) + Copies(pending, o) + Copies(port, o)
                      + Cardinality(Carriers(o)) + Flag(o, lower) + Flag(o, lost)
    BY <1>8, PlacesAre
  <2>5. Places(o) = 0
    <3> HIDE DEF Places, Copies, Carriers, Flag
    <3>1. QED
      BY <2>1, <2>2, <2>3, <2>4
  <2>6. QED
    BY <1>1, <1>6, <2>5
<1>12. Balanced /\ Accounted
  BY <1>9 DEF Balanced, Accounted
<1>13. Mapped
  BY <1>1, <1>9 DEF Mapped
<1>14. Listed
  BY <1>1, <1>9, EmptySeq DEF Listed
<1>15. Matched
  <2>1. \A t \in Threads : ThreadMatched(thread[t])
    <3>1. ThreadMatched(Idle)
      BY IdleIs, LspSocketsAssumption DEF ThreadMatched, Is
    <3>2. QED
      BY <1>1, <3>1
  <2>2. \A o \in Ols : ~UnderWay(o)
    BY <1>1, <1>4, LspAssumption DEF UnderWay
  <2>3. QED
    BY <1>1, <2>1, <2>2 DEF Matched
<1>16. QED
  BY <1>3, <1>5, <1>7, <1>8, <1>10, <1>11, <1>12, <1>13, <1>14, <1>15 DEF Good, Types

LEMMA StutterOk == ASSUME IInv, UNCHANGED vars PROVE IInv'
<1>1. /\ lsp' = lsp /\ UNCHANGED <<thread, structures, sockets>>
  BY DEF vars
<1>2. ASSUME lsp.health = "ok" PROVE Good'
  <2>1. Good
    BY <1>2 DEF IInv
  <2>2. LspOk
    BY <2>1, GoodIs
  <2>3. LspStep /\ lsp'.leaked = lsp.leaked /\ lsp'.kept = lsp.kept
    BY <1>1, <2>2, LspSame
  <2>4. QED
    BY <1>1, <2>1, <2>3, QuietStep
<1>3. QED
  BY <1>1, <1>2 DEF IInv

(* The invariant of the layered service provider: as long as no memory has *)
(* been misused and the process is there, the references, the list, the    *)
(* handles, the structures and the counters fit together, whatever the     *)
(* interleaving of SPI calls, workers and completions.                     *)
THEOREM IInvHolds == Spec => []IInv
<1>1. Init => IInv
  BY InitGood DEF IInv
<1>2. IInv /\ [Next]_vars => IInv'
  <2> SUFFICES ASSUME IInv, [Next]_vars PROVE IInv'
    OBVIOUS
  <2>1. CASE Next
    <3>1. Good
      BY <2>1, NextNeeds DEF IInv
    <3>2. QED
      BY <2>1, <3>1, NextOk DEF IInv
  <2>2. CASE UNCHANGED vars
    BY <2>2, StutterOk
  <2>3. QED
    BY <2>1, <2>2
<1>3. QED
  BY <1>1, <1>2, PTL DEF Spec

(* A WSAOVERLAPPEDPLUS is in one place at a time, from the pool to the     *)
(* provider below, the port or the pending list, a worker, and back        *)
(* (GetOverlappedStructure to PutbackOverlappedStructure): none is handed  *)
(* out twice, none disappears.                                             *)
THEOREM StructuresAreConserved == Spec => []StructuresConserved
<1>1. IInv => StructuresConserved
  <2> SUFFICES ASSUME IInv, Up, NEW o \in Ols
               PROVE  Places(o) = IF ol[o].Operation = "absent" THEN 0 ELSE 1
    BY DEF StructuresConserved
  <2>1. Conserved /\ lsp.gBaseInfo
    BY GoodIs DEF IInv, Up
  <2> HIDE DEF Places
  <2>2. QED
    BY <2>1 DEF Conserved
<1>2. QED
  BY <1>1, IInvHolds, PTL

(* RefCount counts the threads that are between FindAndLockSocketContext   *)
(* and UnlockSocketContext, what WSPSetSockOpt forgets and what a failing  *)
(* WSPCloseSocket leaves; a handle that ws2_32 knows leads to an allocated *)
(* context that is on the list once, unless it could not be closed, when   *)
(* it leads to what is off the list and may be freed; without a failure    *)
(* every listed context is allocated.                                      *)
THEOREM ContextsAreConsistent == Spec => []ContextsConsistent
<1>1. IInv => RefsBalanced
  BY GoodIs DEF IInv, RefsBalanced, Balanced, Up
<1>2. IInv => ContextsAgree
  <2> SUFFICES ASSUME IInv, Up PROVE ContextsAgree
    BY DEF ContextsAgree
  <2>1. Mapped /\ Listed
    BY GoodIs DEF IInv, Up
  <2>2. ASSUME NEW s \in Handles, handle[s] # NoInfo
        PROVE  /\ Live(handle[s]) => info[handle[s]].LayeredSocket = s
               /\ IF handle[s] \in lsp.kept THEN Copies(list, handle[s]) = 0
                  ELSE Live(handle[s]) /\ Copies(list, handle[s]) = 1
    <3>1. /\ handle[s] \in Infos /\ (Live(handle[s]) \/ handle[s] \in lsp.kept)
          /\ Live(handle[s]) => info[handle[s]].LayeredSocket = s
      BY <2>1, <2>2 DEF Mapped
    <3>2. list \in Seq(Infos) /\ NoTwice(list)
      BY <2>1, ListedIs
    <3>3. Copies(list, handle[s]) = IF On(list, handle[s]) THEN 1 ELSE 0
      BY <3>2, CopiesOnce
    <3>4. IF handle[s] \in lsp.kept THEN ~On(list, handle[s]) ELSE Live(handle[s]) /\ On(list, handle[s])
      BY <2>1, <3>1, ListedIs
    <3>5. QED
      BY <3>1, <3>3, <3>4
  <2>3. lsp.faults = MaxFaults => \A i \in DOMAIN list : Live(list[i])
    BY <2>1 DEF Listed
  <2>4. QED
    BY <2>2, <2>3 DEF ContextsAgree
<1>3. QED
  BY <1>1, <1>2, IInvHolds, PTL DEF ContextsConsistent

(* The bytes counted for a socket whose handle was never another's are no  *)
(* more than the provider below has moved: a completion is counted at most *)
(* once, and an update that is lost loses bytes.                           *)
THEOREM CountersNeverOvercount == Spec => []NeverOvercounted
<1>1. IInv => NeverOvercounted
  <2> SUFFICES ASSUME IInv, Up, NEW c \in Infos, Live(c), FirstOfHandle(c)
               PROVE  info[c].Bytes <= info[c].moved
    BY DEF NeverOvercounted
  <2>1. Accounted /\ InfosOk
    BY GoodIs DEF IInv, Up
  <2> DEFINE s == info[c].given
             due == Cardinality(Uncounted(s))
  <2>2. s \in Handles \cup {NoHandle} /\ info[c].Bytes \in Int /\ info[c].moved \in Int
    BY <2>1 DEF InfosOk, InfoOk
  <2>3. CountedFor(c, s)
    BY <2>1, <2>2 DEF Accounted
  <2>4. info[c].Bytes + due <= info[c].moved /\ due \in Nat
    BY <2>3, UncountedFinite DEF CountedFor
  <2> HIDE DEF due
  <2>5. QED
    BY <2>2, <2>4
<1>2. QED
  BY <1>1, IInvHolds, PTL
===============================================================================
