------------------------ MODULE NetworkProgramsProofs ------------------------
(***************************************************************************)
(* Proofs about the programs of NetworkPrograms, one program at a time: a  *)
(* step of another program leaves the variable of this one as it is.       *)
(***************************************************************************)
EXTENDS NetworkPrograms, FiniteSetTheorems, TLAPS

-----------------------------------------------------------------------------
(***************************************************************************)
(* tracert (IcmpProbe).  The time to live never gets smaller while the     *)
(* program runs, so that what was sent before, what has answered it and    *)
(* what will is no farther away than the line it can still appear in.      *)
(***************************************************************************)
ProbeFields == {"prog", "af", "dist", "pc", "ttl", "i", "icmpbuf", "posted", "got", "inbox",
                "flying", "sent", "lines", "hops", "last", "late", "misled", "unrouted", "faults"}

ReplyTypes == {"none", "time exceeded", "echo reply", "other, code not 0"}
Replies == [from : Nat, type : ReplyTypes]
TraceLines == [ttl : Nat, from : Nat]

ProbeTyped(p) ==
  /\ DOMAIN p = ProbeFields
  /\ p.ttl \in Nat /\ p.dist \in Nat /\ p.hops \in Nat /\ p.faults \in Nat
  /\ p.got \in Replies /\ p.last \in Replies /\ p.inbox \in Seq(Replies)
  /\ p.lines \in Seq(TraceLines)
  /\ \A q \in p.flying : q.ttl \in Nat

\* What AnalyzePacket lets pass is within the present distance.
Within(r, ttl) == Probe!AnalyzePacket(r) => r.from <= ttl

AnswersWithin(p) ==
  /\ Within(p.got, p.ttl) /\ Within(p.last, p.ttl)
  /\ p.hops <= p.ttl
  /\ \A k \in DOMAIN p.inbox : Within(p.inbox[k], p.ttl)
  /\ \A q \in p.flying : q.ttl <= p.ttl

LinesWithin(p) == \A k \in DOMAIN p.lines : p.lines[k].from <= p.lines[k].ttl

ProbeOk(p) == ProbeTyped(p) /\ (~p.misled => AnswersWithin(p) /\ LinesWithin(p))

\* Each line names the router that its number says, or the destination.
AllNamed(p) ==
  \A k \in DOMAIN p.lines : p.lines[k].from = IF p.lines[k].ttl < p.dist THEN p.lines[k].ttl ELSE p.dist

NothingComes(p) == p.flying = {} /\ p.inbox = <<>> /\ p.got = Probe!None

\* While no wait has timed out and nothing has failed one request of
\* tracert is under way at a time, with the present time to live, and one
\* answer.
OneAtATime(p) ==
  /\ AllNamed(p)
  /\ p.pc \in {"sending", "waiting", "ended"}
  /\ p.pc # "ended" => p.ttl > 0
  /\ p.pc # "waiting" => NothingComes(p)
  /\ p.pc = "sending" => p.posted
  /\ p.pc = "waiting" =>
       /\ p.inbox = <<>>
       /\ \/ p.got = Probe!None /\ p.posted /\ \A q \in p.flying : q.ttl = p.ttl /\ p.flying = {q}
          \/ p.flying = {} /\ p.got = Probe!Answer(p.ttl, p.dist)

OnTime(p) == p.prog = "tracert" /\ ~p.late /\ p.faults = 0

Punctual(p) == (p.prog = "tracert" \/ p.lines = <<>>) /\ (OnTime(p) => OneAtATime(p))

LEMMA SequenceSteps ==
  ASSUME NEW S, NEW q \in Seq(S), NEW x \in S
  PROVE  /\ Append(q, x) \in Seq(S)
         /\ \A k \in DOMAIN Append(q, x) : (k \in DOMAIN q /\ Append(q, x)[k] = q[k]) \/ Append(q, x)[k] = x
         /\ q # <<>> =>
              /\ Head(q) \in S /\ Tail(q) \in Seq(S)
              /\ 1 \in DOMAIN q /\ Head(q) = q[1]
              /\ \A k \in DOMAIN Tail(q) : k + 1 \in DOMAIN q /\ Tail(q)[k] = q[k + 1]
<1>1. Append(q, x) \in Seq(S)
  OBVIOUS
<1>2. \A k \in DOMAIN Append(q, x) : (k \in DOMAIN q /\ Append(q, x)[k] = q[k]) \/ Append(q, x)[k] = x
  OBVIOUS
<1>3. ASSUME q # <<>> PROVE /\ Head(q) \in S /\ Tail(q) \in Seq(S)
                           /\ 1 \in DOMAIN q /\ Head(q) = q[1]
  BY <1>3
<1>4. ASSUME q # <<>> PROVE \A k \in DOMAIN Tail(q) : k + 1 \in DOMAIN q /\ Tail(q)[k] = q[k + 1]
  BY <1>4
<1>5. QED
  BY <1>1, <1>2, <1>3, <1>4

LEMMA NoReply == Probe!None \in Replies /\ \A ttl \in Nat : Within(Probe!None, ttl)
<1>1. Probe!None.from = 0 /\ Probe!None.type = "none"
  BY DEF Probe!None
<1>2. Probe!None \in Replies
  BY DEF Replies, ReplyTypes, Probe!None
<1>3. QED
  BY <1>1, <1>2 DEF Within

LEMMA ReplyFrom == \A r \in Replies : r.from \in Nat
BY DEF Replies

LEMMA ProbeStarts ==
  ASSUME Probe!ProbeInit
  PROVE  ProbeOk(probe) /\ Punctual(probe)
<1>1. PICK af \in {4, 6}, dist \in Distances, id \in Ids, tick \in Ticks :
        probe \in {Probe!StartPing(af, dist, id, tick), Probe!StartTracert(af, dist, id, tick)}
  BY DEF Probe!ProbeInit
<1>2. dist \in Nat /\ PingTtl \in Nat
  BY ProbeAssumption
<1>3. ASSUME NEW prog, NEW ttl \in Nat, prog = "tracert" => ttl = 1, probe = Probe!Setup(prog, ttl, af, dist, id, tick)
      PROVE  ProbeOk(probe) /\ Punctual(probe)
  <2>1. DOMAIN probe = ProbeFields
    BY <1>3 DEF Probe!Setup, ProbeFields
  <2>2. /\ probe.ttl = ttl /\ probe.dist = dist /\ probe.flying = {} /\ probe.inbox = <<>>
        /\ probe.lines = <<>> /\ probe.got = Probe!None /\ probe.last = Probe!None
        /\ probe.hops = 0 /\ probe.faults = 0
    BY <1>3 DEF Probe!Setup
  <2>3. ProbeTyped(probe)
    BY <1>2, <1>3, <2>1, <2>2, NoReply DEF ProbeTyped
  <2>4. AnswersWithin(probe) /\ LinesWithin(probe)
    BY <1>3, <2>2, NoReply DEF AnswersWithin, LinesWithin
  <2>5. Punctual(probe)
    BY <1>3, <2>2 DEF Punctual, OnTime, OneAtATime, Probe!Setup, AllNamed, NothingComes
  <2>6. QED
    BY <2>3, <2>4, <2>5 DEF ProbeOk
<1>4. CASE probe = Probe!StartPing(af, dist, id, tick)
  BY <1>2, <1>3, <1>4 DEF Probe!StartPing
<1>5. CASE probe = Probe!StartTracert(af, dist, id, tick)
  BY <1>3, <1>5 DEF Probe!StartTracert
<1>6. QED
  BY <1>1, <1>4, <1>5

LEMMA EndedOk ==
  ASSUME NEW p, ProbeOk(p)
  PROVE  ProbeOk(Probe!Ended(p))
<1> DEFINE e == Probe!Ended(p)
<1>1. /\ DOMAIN e = ProbeFields /\ e.ttl = 0 /\ e.dist = p.dist /\ e.flying = {} /\ e.inbox = <<>>
      /\ e.lines = p.lines /\ e.got = Probe!None /\ e.last = Probe!None /\ e.hops = 0
      /\ e.misled = p.misled /\ e.faults = p.faults
  BY DEF ProbeOk, ProbeTyped, ProbeFields, Probe!Ended
<1> HIDE DEF e
<1>2. ProbeTyped(e)
  BY <1>1, NoReply DEF ProbeOk, ProbeTyped
<1>3. AnswersWithin(e) /\ (LinesWithin(p) => LinesWithin(e))
  BY <1>1, NoReply DEF AnswersWithin, LinesWithin
<1>4. QED
  BY <1>1, <1>2, <1>3 DEF ProbeOk, e

LEMMA PostRecvfromOk ==
  ASSUME NEW p, ProbeOk(p), NEW ok
  PROVE  ProbeOk(Probe!PostRecvfrom(p, ok))
<1> DEFINE e == Probe!PostRecvfrom(p, ok)
<1>1. /\ DOMAIN e = ProbeFields /\ e.ttl = p.ttl /\ e.dist = p.dist /\ e.flying = p.flying
      /\ e.lines = p.lines /\ e.misled = p.misled /\ e.hops = p.hops /\ e.faults \in Nat
  BY DEF ProbeOk, ProbeTyped, ProbeFields, Probe!PostRecvfrom
<1>2. \/ e.got = Probe!None /\ e.last = p.last /\ e.inbox = p.inbox
      \/ p.inbox # <<>> /\ e.got = Head(p.inbox) /\ e.last = Head(p.inbox) /\ e.inbox = Tail(p.inbox)
  BY DEF ProbeOk, ProbeTyped, ProbeFields, Probe!PostRecvfrom
<1> HIDE DEF e
<1>t. p.inbox \in Seq(Replies) /\ p.got \in Replies /\ p.last \in Replies
  BY DEF ProbeOk, ProbeTyped
<1>s. e.inbox \in Seq(Replies) /\ e.got \in Replies /\ e.last \in Replies
  <2>1. CASE e.got = Probe!None /\ e.last = p.last /\ e.inbox = p.inbox
    BY <1>t, <2>1, NoReply
  <2>2. CASE p.inbox # <<>> /\ e.got = Head(p.inbox) /\ e.last = Head(p.inbox) /\ e.inbox = Tail(p.inbox)
    BY <1>t, <2>2, SequenceSteps, NoReply
  <2>3. QED
    BY <1>2, <2>1, <2>2
<1>3. ProbeTyped(e)
  BY <1>1, <1>s DEF ProbeOk, ProbeTyped
<1>4. ASSUME AnswersWithin(p) PROVE AnswersWithin(e)
  <2>1. CASE e.got = Probe!None /\ e.last = p.last /\ e.inbox = p.inbox
    BY <1>1, <1>4, <2>1, NoReply DEF ProbeOk, ProbeTyped, AnswersWithin
  <2>2. CASE p.inbox # <<>> /\ e.got = Head(p.inbox) /\ e.last = Head(p.inbox) /\ e.inbox = Tail(p.inbox)
    BY <1>1, <1>4, <2>2 DEF ProbeOk, ProbeTyped, AnswersWithin
  <2>3. QED
    BY <1>2, <2>1, <2>2
<1>5. QED
  BY <1>1, <1>3, <1>4 DEF ProbeOk, LinesWithin, e

LEMMA ArrivesOk ==
  ASSUME NEW p, ProbeOk(p), NEW r \in Replies, ~p.misled => Within(r, p.ttl)
  PROVE  ProbeOk(Probe!Arrives(p, r))
<1> DEFINE e == Probe!Arrives(p, r)
<1>1. /\ DOMAIN e = ProbeFields /\ e.ttl = p.ttl /\ e.dist = p.dist /\ e.flying = p.flying
      /\ e.lines = p.lines /\ e.misled = p.misled /\ e.hops = p.hops /\ e.faults = p.faults
  BY DEF ProbeOk, ProbeTyped, ProbeFields, Probe!Arrives
<1>2. \/ e.got = r /\ e.last = r /\ e.inbox = p.inbox
      \/ e.got = p.got /\ e.last = p.last /\ e.inbox = Append(p.inbox, r)
  BY DEF ProbeOk, ProbeTyped, ProbeFields, Probe!Arrives
<1> HIDE DEF e
<1>t. p.inbox \in Seq(Replies) /\ p.got \in Replies /\ p.last \in Replies
  BY DEF ProbeOk, ProbeTyped
<1>s. e.inbox \in Seq(Replies) /\ e.got \in Replies /\ e.last \in Replies
  <2>1. Append(p.inbox, r) \in Seq(Replies)
    BY <1>t, SequenceSteps
  <2>2. QED
    BY <1>2, <1>t, <2>1
<1>3. ProbeTyped(e)
  BY <1>1, <1>s DEF ProbeOk, ProbeTyped
<1>4. ASSUME AnswersWithin(p), Within(r, p.ttl) PROVE AnswersWithin(e)
  <2>1. \A k \in DOMAIN e.inbox : (k \in DOMAIN p.inbox /\ e.inbox[k] = p.inbox[k]) \/ e.inbox[k] = r
    BY <1>2, <1>t, SequenceSteps
  <2>2. Within(e.got, p.ttl) /\ Within(e.last, p.ttl)
    BY <1>2, <1>4 DEF AnswersWithin
  <2>3. QED
    BY <1>1, <1>4, <2>1, <2>2 DEF AnswersWithin
<1>5. QED
  BY <1>1, <1>3, <1>4 DEF ProbeOk, LinesWithin, e

\* The rest of the record is not looked at.
LEMMA SameProbe ==
  ASSUME NEW p, ProbeOk(p), NEW e, DOMAIN e = ProbeFields,
         e.ttl = p.ttl, e.dist = p.dist, e.got = p.got, e.inbox = p.inbox, e.lines = p.lines,
         e.flying = p.flying, e.misled = p.misled, e.hops = p.hops, e.last = p.last, e.faults \in Nat
  PROVE  ProbeOk(e)
<1>1. ProbeTyped(e)
  BY DEF ProbeOk, ProbeTyped
<1>2. (AnswersWithin(p) => AnswersWithin(e)) /\ (LinesWithin(p) => LinesWithin(e))
  BY DEF AnswersWithin, LinesWithin
<1>3. QED
  BY <1>1, <1>2 DEF ProbeOk

LEMMA NextPingOk ==
  ASSUME NEW p, ProbeOk(p)
  PROVE  ProbeOk(Probe!NextPing(p))
<1> DEFINE e == Probe!Again([p EXCEPT !.i = @ + 1])
<1>1. ProbeOk(e)
  <2>1. /\ DOMAIN e = ProbeFields
        /\ e.ttl = p.ttl /\ e.dist = p.dist /\ e.got = p.got /\ e.inbox = p.inbox /\ e.lines = p.lines
        /\ e.flying = p.flying /\ e.misled = p.misled /\ e.hops = p.hops /\ e.last = p.last
        /\ e.faults \in Nat
    BY DEF ProbeOk, ProbeTyped, ProbeFields, Probe!Again
  <2>2. QED
    BY <2>1, SameProbe
<1>2. QED
  BY <1>1, EndedOk DEF Probe!NextPing

LEMMA NextHopOk ==
  ASSUME NEW p, ProbeOk(p), NEW notdone
  PROVE  ProbeOk(Probe!NextHop(p, notdone))
<1> DEFINE e == Probe!Again(p)
<1>1. ProbeOk(e)
  <2>1. /\ DOMAIN e = ProbeFields
        /\ e.ttl = p.ttl /\ e.dist = p.dist /\ e.got = p.got /\ e.inbox = p.inbox /\ e.lines = p.lines
        /\ e.flying = p.flying /\ e.misled = p.misled /\ e.hops = p.hops /\ e.last = p.last
        /\ e.faults \in Nat
    BY DEF ProbeOk, ProbeTyped, ProbeFields, Probe!Again
  <2>2. QED
    BY <2>1, SameProbe
<1>2. QED
  BY <1>1, EndedOk DEF Probe!NextHop

\* A router answers, and the line it gets is at least its distance.
LEMMA TakenOk ==
  ASSUME NEW p, ProbeOk(p), Probe!AnalyzePacket(p.got)
  PROVE  ProbeOk([p EXCEPT !.lines = Append(@, [ttl |-> p.ttl, from |-> p.got.from]), !.ttl = @ + 1])
<1> DEFINE line == [ttl |-> p.ttl, from |-> p.got.from]
           e == [p EXCEPT !.lines = Append(@, line), !.ttl = @ + 1]
<1>1. /\ p.ttl \in Nat /\ p.got.from \in Nat /\ p.lines \in Seq(TraceLines)
      /\ p.inbox \in Seq(Replies) /\ p.last.from \in Nat /\ p.hops \in Nat
  BY ReplyFrom DEF ProbeOk, ProbeTyped
<1>2. /\ DOMAIN e = ProbeFields /\ e.ttl = p.ttl + 1 /\ e.dist = p.dist /\ e.got = p.got
      /\ e.inbox = p.inbox /\ e.lines = Append(p.lines, line)
      /\ e.flying = p.flying /\ e.misled = p.misled /\ e.hops = p.hops /\ e.last = p.last
      /\ e.faults = p.faults
  BY DEF ProbeOk, ProbeTyped, ProbeFields
<1>3. line \in TraceLines /\ line.ttl = p.ttl /\ line.from = p.got.from
  BY <1>1 DEF TraceLines
<1> HIDE DEF e, line
<1>4. /\ Append(p.lines, line) \in Seq(TraceLines)
      /\ \A k \in DOMAIN Append(p.lines, line) :
           (k \in DOMAIN p.lines /\ Append(p.lines, line)[k] = p.lines[k]) \/ Append(p.lines, line)[k] = line
  BY <1>1, <1>3, SequenceSteps
<1>5. ProbeTyped(e)
  BY <1>1, <1>2, <1>4 DEF ProbeOk, ProbeTyped
<1>6. ASSUME AnswersWithin(p) PROVE AnswersWithin(e)
  <2>1. ASSUME NEW r, Within(r, p.ttl), r.from \in Nat PROVE Within(r, e.ttl)
    BY <1>1, <1>2, <2>1 DEF Within
  <2>2. Within(e.got, e.ttl) /\ Within(e.last, e.ttl) /\ e.hops <= e.ttl
    BY <1>1, <1>2, <1>6, <2>1 DEF AnswersWithin
  <2>3. ASSUME NEW k \in DOMAIN e.inbox PROVE Within(e.inbox[k], e.ttl)
    <3>1. p.inbox[k] \in Replies
      BY <1>1, <1>2
    <3>2. QED
      BY <1>2, <1>6, <2>1, <3>1, ReplyFrom DEF AnswersWithin
  <2>4. ASSUME NEW q \in e.flying PROVE q.ttl <= e.ttl
    BY <1>1, <1>2, <1>6 DEF AnswersWithin, ProbeOk, ProbeTyped
  <2>5. QED
    BY <2>2, <2>3, <2>4 DEF AnswersWithin
<1>7. ASSUME AnswersWithin(p), LinesWithin(p) PROVE LinesWithin(e)
  <2>1. line.from <= line.ttl
    BY <1>3, <1>7 DEF AnswersWithin, Within
  <2>2. QED
    BY <1>2, <1>4, <1>7, <2>1 DEF LinesWithin
<1>8. ProbeOk(e)
  BY <1>2, <1>5, <1>6, <1>7 DEF ProbeOk
<1>9. QED
  BY <1>8 DEF e, line

LEMMA SendOk ==
  ASSUME ProbeOk(probe), Probe!Send
  PROVE  ProbeOk(probe')
<1>1. PICK hops, request :
        /\ hops = probe.ttl \/ hops = probe.hops
        /\ request.ttl = Probe!OnTheWire(hops)
        /\ DOMAIN probe' = ProbeFields
        /\ probe'.ttl = probe.ttl /\ probe'.dist = probe.dist /\ probe'.got = probe.got
        /\ probe'.last = probe.last /\ probe'.hops = hops /\ probe'.faults \in Nat
        /\ probe'.inbox = probe.inbox /\ probe'.lines = probe.lines
        /\ probe'.misled = (probe.misled \/ hops = 0)
        /\ probe'.flying = probe.flying \cup {request}
  <2>1. PICK tick \in Ticks, found \in BOOLEAN, ok \in BOOLEAN :
          LET words == Probe!ComputeIcmpChecksum(probe.af, Probe!SetIcmpSequence(probe.icmpbuf, tick), found)
              hops == IF Probe!SetsTtl(probe) THEN Probe!SetTtl(probe, ok) ELSE probe.hops
          IN probe' = Probe!Sent([probe EXCEPT !.unrouted = @ \/ ~found], words, hops, ~(found /\ ok))
    BY DEF Probe!Send
  <2> DEFINE hops == IF Probe!SetsTtl(probe) THEN Probe!SetTtl(probe, ok) ELSE probe.hops
             request == [n |-> probe.sent + 1, ttl |-> Probe!OnTheWire(hops)]
  <2>2. hops = probe.ttl \/ hops = probe.hops
    BY DEF Probe!SetTtl
  <2>3. request.ttl = Probe!OnTheWire(hops)
    OBVIOUS
  <2> HIDE DEF hops
  <2>4. /\ DOMAIN probe' = ProbeFields
        /\ probe'.ttl = probe.ttl /\ probe'.dist = probe.dist /\ probe'.got = probe.got
        /\ probe'.last = probe.last /\ probe'.hops = hops /\ probe'.faults \in Nat
        /\ probe'.inbox = probe.inbox /\ probe'.lines = probe.lines
        /\ probe'.misled = (probe.misled \/ hops = 0)
        /\ probe'.flying = probe.flying \cup {request}
    BY <2>1 DEF ProbeOk, ProbeTyped, ProbeFields, hops, Probe!Sent
  <2> HIDE DEF request
  <2>5. QED
    BY <2>2, <2>3, <2>4
<1>2. hops \in Nat /\ request.ttl \in Nat /\ (hops # 0 => request.ttl = hops)
  BY <1>1, ProbeAssumption DEF ProbeOk, ProbeTyped, Probe!OnTheWire
<1>3. ProbeTyped(probe')
  BY <1>1, <1>2 DEF ProbeOk, ProbeTyped
<1>4. ASSUME AnswersWithin(probe), hops # 0 PROVE AnswersWithin(probe')
  <2>1. hops <= probe.ttl
    BY <1>1, <1>4 DEF AnswersWithin, ProbeOk, ProbeTyped
  <2>2. \A q \in probe'.flying : q.ttl <= probe'.ttl
    BY <1>1, <1>2, <1>4, <2>1 DEF AnswersWithin
  <2>3. QED
    BY <1>1, <1>4, <2>1, <2>2 DEF AnswersWithin
<1>5. QED
  BY <1>1, <1>3, <1>4 DEF ProbeOk, LinesWithin

LEMMA AnswerOk ==
  ASSUME NEW ttl \in Nat, NEW dist \in Nat
  PROVE  /\ Probe!Answer(ttl, dist) \in Replies
         /\ Probe!Answer(ttl, dist).from = IF ttl < dist THEN ttl ELSE dist
         /\ Probe!AnalyzePacket(Probe!Answer(ttl, dist))
<1>1. CASE ttl < dist
  BY <1>1 DEF Probe!Answer, Replies, ReplyTypes, Probe!AnalyzePacket
<1>2. CASE ~(ttl < dist)
  BY <1>2 DEF Probe!Answer, Replies, ReplyTypes, Probe!AnalyzePacket
<1>3. QED
  BY <1>1, <1>2

LEMMA AnsweredOk ==
  ASSUME ProbeOk(probe), Probe!Answered
  PROVE  ProbeOk(probe')
<1> DEFINE without(q) == [probe EXCEPT !.flying = @ \ {q}]
           answer(q) == Probe!Answer(q.ttl, probe.dist)
<1>1. PICK q \in probe.flying : probe' = without(q) \/ probe' = Probe!Arrives(without(q), answer(q))
  BY DEF Probe!Answered
<1>2. /\ DOMAIN without(q) = ProbeFields
      /\ without(q).ttl = probe.ttl /\ without(q).dist = probe.dist /\ without(q).got = probe.got
      /\ without(q).inbox = probe.inbox /\ without(q).lines = probe.lines
      /\ without(q).last = probe.last /\ without(q).hops = probe.hops /\ without(q).faults = probe.faults
      /\ without(q).misled = probe.misled /\ without(q).flying = probe.flying \ {q}
  BY DEF ProbeOk, ProbeTyped, ProbeFields
<1>3. /\ answer(q) \in Replies /\ answer(q).from <= q.ttl
  <2>1. q.ttl \in Nat /\ probe.dist \in Nat
    BY DEF ProbeOk, ProbeTyped
  <2>2. QED
    BY <2>1, AnswerOk
<1> HIDE DEF without, answer
<1>4. ProbeTyped(without(q))
  BY <1>2 DEF ProbeOk, ProbeTyped
<1>5. AnswersWithin(probe) => AnswersWithin(without(q))
  BY <1>2 DEF AnswersWithin
<1>6. ProbeOk(without(q))
  BY <1>2, <1>4, <1>5 DEF ProbeOk, LinesWithin
<1>7. ~without(q).misled => Within(answer(q), without(q).ttl)
  BY <1>2, <1>3, ReplyFrom DEF ProbeOk, ProbeTyped, AnswersWithin, Within
<1>8. QED
  BY <1>1, <1>3, <1>6, <1>7, ArrivesOk

\* A reply meant for another program counts only when it sets "misled".
LEMMA ForeignOk ==
  ASSUME ProbeOk(probe), Probe!Foreign
  PROVE  ProbeOk(probe')
<1>n. probe.faults + 1 \in Nat
  BY DEF ProbeOk, ProbeTyped
<1>1. PICK type \in {"echo reply", "other, code not 0"}, from \in Distances :
        probe' = Probe!Arrives([probe EXCEPT !.faults = @ + 1, !.misled = @ \/ type = "echo reply"],
                               [from |-> from, type |-> type])
  BY DEF Probe!Foreign
<1> DEFINE heard == [probe EXCEPT !.faults = @ + 1, !.misled = @ \/ type = "echo reply"]
<1>d. DOMAIN probe = ProbeFields /\ probe.faults \in Nat
  BY DEF ProbeOk, ProbeTyped
<1>2. /\ DOMAIN heard = ProbeFields
      /\ heard.ttl = probe.ttl /\ heard.dist = probe.dist /\ heard.got = probe.got
      /\ heard.inbox = probe.inbox /\ heard.lines = probe.lines
      /\ heard.flying = probe.flying /\ heard.last = probe.last
      /\ heard.hops = probe.hops
      /\ heard.misled = (probe.misled \/ type = "echo reply")
  BY <1>d DEF ProbeFields
<1>f. heard.faults = probe.faults + 1
  BY <1>d DEF ProbeFields
<1>a. probe' = Probe!Arrives(heard, [from |-> from, type |-> type])
  BY <1>1
<1> HIDE DEF heard
<1>g. heard.faults \in Nat
  BY <1>n, <1>f, Zenon
<1>3. ProbeTyped(heard)
  BY <1>2, <1>g DEF ProbeOk, ProbeTyped
<1>4. ProbeOk(heard)
  BY <1>2, <1>3 DEF ProbeOk, AnswersWithin, LinesWithin
<1>5. [from |-> from, type |-> type] \in Replies
  BY ProbeAssumption DEF Replies, ReplyTypes
<1>6. ~heard.misled => Within([from |-> from, type |-> type], heard.ttl)
  BY <1>2 DEF Within, Probe!AnalyzePacket
<1>7. QED
  BY <1>a, <1>4, <1>5, <1>6, ArrivesOk

\* What is taken for the answer is the last packet, or sets "misled".
LEMMA ReceiveFailsOk ==
  ASSUME ProbeOk(probe), Probe!ReceiveFails
  PROVE  ProbeOk(probe')
<1>1. PICK reply \in Probe!Leftovers(probe.last) :
        probe' = [probe EXCEPT !.posted = FALSE, !.got = reply, !.faults = @ + 1,
                               !.misled = @ \/ (probe.last = Probe!None /\ reply.type = "echo reply")]
  BY DEF Probe!ReceiveFails
<1>2. /\ DOMAIN probe' = ProbeFields
      /\ probe'.ttl = probe.ttl /\ probe'.dist = probe.dist /\ probe'.got = reply
      /\ probe'.inbox = probe.inbox /\ probe'.lines = probe.lines
      /\ probe'.flying = probe.flying /\ probe'.last = probe.last
      /\ probe'.hops = probe.hops /\ probe'.faults \in Nat
      /\ probe'.misled = (probe.misled \/ (probe.last = Probe!None /\ reply.type = "echo reply"))
  BY <1>1 DEF ProbeOk, ProbeTyped, ProbeFields
<1>3. /\ reply \in Replies
      /\ reply = probe.last \/ (probe.last = Probe!None /\ reply.type \in {"echo reply", "other, code not 0"})
  <2>1. CASE probe.last # Probe!None
    <3>1. reply = probe.last
      BY <2>1 DEF Probe!Leftovers
    <3>2. QED
      BY <3>1 DEF ProbeOk, ProbeTyped
  <2>2. CASE probe.last = Probe!None
    <3>1. reply \in [from : Distances \cup {0}, type : {"echo reply", "other, code not 0"}]
      BY <2>2 DEF Probe!Leftovers
    <3>2. Distances \cup {0} \subseteq Nat
      BY ProbeAssumption
    <3>3. QED
      BY <2>2, <3>1, <3>2 DEF Replies, ReplyTypes
  <2>3. QED
    BY <2>1, <2>2
<1>4. ProbeTyped(probe')
  BY <1>2, <1>3 DEF ProbeOk, ProbeTyped
<1>5. ASSUME ~probe'.misled, AnswersWithin(probe) PROVE AnswersWithin(probe')
  <2>1. Within(reply, probe.ttl)
    BY <1>2, <1>3, <1>5 DEF AnswersWithin, Within, Probe!AnalyzePacket
  <2>2. QED
    BY <1>2, <1>5, <2>1 DEF AnswersWithin
<1>6. QED
  BY <1>2, <1>4, <1>5 DEF ProbeOk, LinesWithin

LEMMA ReceivesOk ==
  ASSUME ProbeOk(probe), NEW ok, Probe!PingReceives(ok) \/ Probe!TracertReceives(ok)
  PROVE  ProbeOk(probe')
<1>1. CASE Probe!PingReceives(ok)
  BY <1>1, PostRecvfromOk, NextPingOk DEF Probe!PingReceives
<1>2. CASE Probe!TracertReceives(ok)
  <2> DEFINE taken == Probe!AnalyzePacket(probe.got)
             notdone == ~(taken /\ Probe!IsSockaddrEqual(probe, probe.got))
             p == IF taken THEN [probe EXCEPT !.lines = Append(@, [ttl |-> probe.ttl, from |-> probe.got.from]),
                                              !.ttl = @ + 1]
                  ELSE probe
  <2>1. probe' = Probe!NextHop(IF notdone THEN Probe!PostRecvfrom(p, ok) ELSE p, notdone)
    BY <1>2 DEF Probe!TracertReceives
  <2>2. ProbeOk(p)
    BY TakenOk
  <2> HIDE DEF p
  <2>3. ProbeOk(IF notdone THEN Probe!PostRecvfrom(p, ok) ELSE p)
    BY <2>2, PostRecvfromOk
  <2>4. QED
    BY <2>1, <2>3, NextHopOk
<1>3. QED
  BY <1>1, <1>2

LEMMA ProbeSteps ==
  ASSUME ProbeOk(probe), Probe!ProbeNext
  PROVE  ProbeOk(probe')
<1>1. CASE Probe!SendFails
  <2> DEFINE e == [probe EXCEPT !.faults = @ + 1]
  <2>1. /\ DOMAIN e = ProbeFields
        /\ e.ttl = probe.ttl /\ e.dist = probe.dist /\ e.got = probe.got /\ e.inbox = probe.inbox
        /\ e.lines = probe.lines /\ e.flying = probe.flying /\ e.misled = probe.misled
        /\ e.hops = probe.hops /\ e.last = probe.last /\ e.faults \in Nat
    BY DEF ProbeOk, ProbeTyped, ProbeFields
  <2>2. ProbeOk(e)
    BY <2>1, SameProbe
  <2>3. QED
    BY <1>1, <2>2, EndedOk DEF Probe!SendFails
<1>2. CASE Probe!TimesOut
  <2> DEFINE e == [probe EXCEPT !.late = TRUE]
  <2>1. /\ DOMAIN e = ProbeFields
        /\ e.ttl = probe.ttl /\ e.dist = probe.dist /\ e.got = probe.got /\ e.inbox = probe.inbox
        /\ e.lines = probe.lines /\ e.flying = probe.flying /\ e.misled = probe.misled
        /\ e.hops = probe.hops /\ e.last = probe.last /\ e.faults \in Nat
    BY DEF ProbeOk, ProbeTyped, ProbeFields
  <2>2. ProbeOk(e)
    BY <2>1, SameProbe
  <2> HIDE DEF e
  <2>3. probe' = Probe!NextPing(e) \/ probe' = Probe!NextHop(e, TRUE)
    BY <1>2 DEF Probe!TimesOut, e
  <2>4. QED
    BY <2>2, <2>3, NextPingOk, NextHopOk
<1>3. CASE Probe!Receives
  BY <1>3, ReceivesOk DEF Probe!Receives
<1>4. QED
  BY <1>1, <1>2, <1>3, SendOk, AnsweredOk, ForeignOk, ReceiveFailsOk DEF Probe!ProbeNext

\* A turn of the loop that ends on time, with the answer taken.
LEMMA TurnEnds ==
  ASSUME NEW p, AllNamed(p), NEW e, e.lines = p.lines, e.dist = p.dist,
         NothingComes(e),
         \/ e.pc = "sending" /\ e.posted /\ e.ttl > 0
         \/ e.pc = "ended"
  PROVE  OneAtATime(e)
<1>1. AllNamed(e)
  BY DEF AllNamed
<1>2. QED
  BY <1>1 DEF OneAtATime

LEMMA TracertReceivesOk ==
  ASSUME ProbeOk(probe), OnTime(probe), OneAtATime(probe), OnTime(probe'),
         NEW ok, Probe!TracertReceives(ok)
  PROVE  OneAtATime(probe')
<1> DEFINE line == [ttl |-> probe.ttl, from |-> probe.got.from]
           p == [probe EXCEPT !.lines = Append(@, line), !.ttl = @ + 1]
           notdone == ~Probe!IsSockaddrEqual(probe, probe.got)
           r == Probe!PostRecvfrom(p, ok)
<1>1. /\ DOMAIN probe = ProbeFields /\ probe.ttl \in Nat /\ probe.dist \in Nat /\ probe.faults = 0
      /\ probe.lines \in Seq(TraceLines)
  BY DEF ProbeOk, ProbeTyped, OnTime
<1>2. /\ probe.got = Probe!Answer(probe.ttl, probe.dist) /\ probe.inbox = <<>> /\ probe.flying = {}
      /\ AllNamed(probe)
  BY DEF OneAtATime, Probe!TracertReceives
<1>3. Probe!AnalyzePacket(probe.got) /\ probe.got.from = IF probe.ttl < probe.dist THEN probe.ttl ELSE probe.dist
  BY <1>1, <1>2, AnswerOk
<1>4. probe' = Probe!NextHop(IF notdone THEN r ELSE p, notdone)
  BY <1>3 DEF Probe!TracertReceives
<1>5. /\ DOMAIN p = ProbeFields /\ p.ttl = probe.ttl + 1 /\ p.dist = probe.dist /\ p.faults = 0
      /\ p.lines = Append(probe.lines, line) /\ p.inbox = <<>> /\ p.flying = {}
  BY <1>1, <1>2 DEF ProbeFields
<1>6. AllNamed(p)
  <2>1. line.ttl = probe.ttl /\ line.from = IF probe.ttl < probe.dist THEN probe.ttl ELSE probe.dist
    BY <1>3
  <2>2. probe.got.from \in Nat
    BY <1>1, <1>3
  <2>3. line \in TraceLines
    BY <1>1, <2>2 DEF TraceLines
  <2> HIDE DEF line, p
  <2>4. \A k \in DOMAIN p.lines : (k \in DOMAIN probe.lines /\ p.lines[k] = probe.lines[k]) \/ p.lines[k] = line
    BY <1>1, <1>5, <2>3, SequenceSteps
  <2>5. QED
    BY <1>2, <1>5, <2>1, <2>4 DEF AllNamed
<1> HIDE DEF p, line, notdone
<1>7. /\ DOMAIN r = ProbeFields /\ r.lines = p.lines /\ r.dist = p.dist /\ r.ttl = p.ttl
      /\ r.flying = {} /\ r.inbox = <<>> /\ r.got = Probe!None
      /\ (r.posted /\ r.faults = 0) \/ r.faults = 1
  BY <1>5 DEF Probe!PostRecvfrom, ProbeFields
<1> HIDE DEF r
<1>8. CASE notdone /\ probe' = Probe!Again(r)
  <2>1. /\ probe'.pc = "sending" /\ probe'.lines = p.lines /\ probe'.dist = p.dist /\ probe'.ttl = p.ttl
        /\ NothingComes(probe') /\ probe'.posted = r.posted /\ probe'.faults = r.faults
    BY <1>7, <1>8 DEF Probe!Again, ProbeFields, NothingComes
  <2>2. probe'.posted /\ probe'.ttl > 0
    BY <1>1, <1>5, <1>7, <2>1 DEF OnTime
  <2>3. QED
    BY <1>6, <2>1, <2>2, TurnEnds
<1>9. ASSUME NEW e, DOMAIN e = ProbeFields, e.lines = p.lines, e.dist = p.dist, probe' = Probe!Ended(e)
      PROVE  OneAtATime(probe')
  <2>1. /\ probe'.pc = "ended" /\ probe'.lines = p.lines /\ probe'.dist = p.dist
        /\ NothingComes(probe')
    BY <1>9 DEF Probe!Ended, ProbeFields, NothingComes
  <2>2. QED
    BY <1>6, <2>1, TurnEnds
<1>10. CASE notdone /\ probe' = Probe!Ended(r)
  BY <1>7, <1>9, <1>10
<1>11. CASE ~notdone /\ probe' = Probe!Ended(p)
  BY <1>5, <1>9, <1>11
<1>12. QED
  BY <1>4, <1>8, <1>10, <1>11 DEF Probe!NextHop

LEMMA PunctualSteps ==
  ASSUME ProbeOk(probe), Punctual(probe), Probe!ProbeNext
  PROVE  Punctual(probe')
<1>d. /\ DOMAIN probe = ProbeFields /\ probe.faults \in Nat /\ probe.ttl \in Nat /\ probe.dist \in Nat
      /\ ProbeOk(probe')
  BY ProbeSteps DEF ProbeOk, ProbeTyped
<1> DEFINE More == probe'.faults = probe.faults + 1 \/ probe'.late
           Kept == probe'.faults = probe.faults /\ probe'.late = probe.late
           Other == probe'.prog = probe.prog /\ (probe.prog # "tracert" => probe'.lines = probe.lines)
<1>1. CASE Probe!SendFails
  <2>1. More /\ Other
    BY <1>1, <1>d DEF Probe!SendFails, Probe!Ended, ProbeFields
  <2>2. QED
    BY <1>d, <2>1 DEF Punctual, OnTime
<1>2. CASE Probe!TimesOut
  <2>1. More /\ Other
    BY <1>2, <1>d DEF Probe!TimesOut, Probe!NextPing, Probe!NextHop, Probe!Again, Probe!Ended, ProbeFields
  <2>2. QED
    BY <1>d, <2>1 DEF Punctual, OnTime
<1>3. CASE Probe!Foreign
  <2>1. More /\ Other
    BY <1>3, <1>d DEF Probe!Foreign, Probe!Arrives, ProbeFields
  <2>2. QED
    BY <1>d, <2>1 DEF Punctual, OnTime
<1>4. CASE Probe!ReceiveFails
  <2>1. More /\ Other
    BY <1>4, <1>d DEF Probe!ReceiveFails, ProbeFields
  <2>2. QED
    BY <1>d, <2>1 DEF Punctual, OnTime
<1>5. CASE Probe!Send
  <2>1. PICK tick \in Ticks, found \in BOOLEAN, ok \in BOOLEAN :
          LET words == Probe!ComputeIcmpChecksum(probe.af, Probe!SetIcmpSequence(probe.icmpbuf, tick), found)
              hops == IF Probe!SetsTtl(probe) THEN Probe!SetTtl(probe, ok) ELSE probe.hops
          IN probe' = Probe!Sent([probe EXCEPT !.unrouted = @ \/ ~found], words, hops, ~(found /\ ok))
    BY <1>5 DEF Probe!Send
  <2> DEFINE hops == IF Probe!SetsTtl(probe) THEN Probe!SetTtl(probe, ok) ELSE probe.hops
             request == [n |-> probe.sent + 1, ttl |-> Probe!OnTheWire(hops)]
  <2>2. /\ Other /\ probe'.late = probe.late /\ probe'.lines = probe.lines /\ probe'.dist = probe.dist
        /\ probe'.ttl = probe.ttl /\ probe'.got = probe.got /\ probe'.inbox = probe.inbox
        /\ probe'.posted = probe.posted /\ probe'.pc = "waiting" /\ probe'.flying = probe.flying \cup {request}
        /\ probe'.faults = IF found /\ ok THEN probe.faults ELSE probe.faults + 1
    BY <2>1, <1>d DEF ProbeFields, Probe!Sent
  <2>3. ASSUME OnTime(probe') PROVE OneAtATime(probe')
    <3>1. ok /\ OnTime(probe) /\ probe.prog = "tracert"
      BY <1>d, <2>2, <2>3 DEF OnTime
    <3>2. /\ AllNamed(probe) /\ probe.ttl > 0 /\ probe.flying = {} /\ probe.inbox = <<>>
          /\ probe.got = Probe!None /\ probe.posted
      BY <1>5, <3>1 DEF Punctual, OneAtATime, NothingComes, Probe!Send
    <3>3. request.ttl = probe.ttl
      BY <3>1, <3>2 DEF Probe!SetsTtl, Probe!SetTtl, Probe!OnTheWire
    <3> HIDE DEF request
    <3>4. AllNamed(probe')
      BY <2>2, <3>2 DEF AllNamed
    <3>5. QED
      BY <2>2, <3>2, <3>3, <3>4 DEF OneAtATime
  <2>4. QED
    BY <2>2, <2>3 DEF Punctual
<1>6. CASE Probe!Answered
  <2> DEFINE without(q) == [probe EXCEPT !.flying = @ \ {q}]
  <2>1. PICK q \in probe.flying :
          probe' = without(q) \/ probe' = Probe!Arrives(without(q), Probe!Answer(q.ttl, probe.dist))
    BY <1>6 DEF Probe!Answered
  <2>2. /\ Other /\ Kept /\ probe'.lines = probe.lines /\ probe'.dist = probe.dist /\ probe'.ttl = probe.ttl
        /\ probe'.pc = probe.pc /\ probe'.flying = probe.flying \ {q}
        /\ \/ probe'.got = probe.got /\ probe'.inbox = probe.inbox /\ probe'.posted = probe.posted
           \/ ~probe.posted
           \/ probe'.got = Probe!Answer(q.ttl, probe.dist) /\ probe'.inbox = probe.inbox
    BY <2>1, <1>d DEF Probe!Arrives, ProbeFields
  <2>3. ASSUME OnTime(probe') PROVE OneAtATime(probe')
    <3>1. OneAtATime(probe)
      BY <2>2, <2>3 DEF OnTime, Punctual
    <3>2. /\ AllNamed(probe) /\ probe.pc = "waiting" /\ probe.inbox = <<>> /\ probe.ttl > 0
          /\ probe.got = Probe!None /\ probe.posted /\ q.ttl = probe.ttl /\ probe.flying = {q}
      BY <2>1, <3>1 DEF OneAtATime, NothingComes
    <3>3. AllNamed(probe')
      BY <2>2, <3>2 DEF AllNamed
    <3>4. QED
      BY <2>2, <3>2, <3>3 DEF OneAtATime
  <2>4. QED
    BY <2>2, <2>3 DEF Punctual
<1>7. ASSUME NEW ok, Probe!PingReceives(ok) PROVE Punctual(probe')
  <2>1. probe.prog = "ping" /\ Other
    BY <1>7, <1>d DEF Probe!PingReceives, Probe!PostRecvfrom, Probe!NextPing, Probe!Again, Probe!Ended, ProbeFields
  <2>2. QED
    BY <2>1 DEF Punctual, OnTime
<1>8. ASSUME NEW ok, Probe!TracertReceives(ok) PROVE Punctual(probe')
  <2> DEFINE reply == probe.got
             taken == Probe!AnalyzePacket(reply)
             notdone == ~(taken /\ Probe!IsSockaddrEqual(probe, reply))
             p == IF taken THEN [probe EXCEPT !.lines = Append(@, [ttl |-> probe.ttl, from |-> reply.from]),
                                              !.ttl = @ + 1]
                  ELSE probe
             r == IF notdone THEN Probe!PostRecvfrom(p, ok) ELSE p
  <2>1. probe.prog = "tracert" /\ probe' = Probe!NextHop(r, notdone)
    BY <1>8 DEF Probe!TracertReceives
  <2>2. /\ DOMAIN p = ProbeFields /\ p.prog = probe.prog /\ p.late = probe.late /\ p.faults = probe.faults
    BY <1>d DEF ProbeFields
  <2> HIDE DEF p, notdone
  <2>3. /\ DOMAIN r = ProbeFields /\ r.prog = probe.prog /\ r.late = probe.late
        /\ r.faults \in {probe.faults, probe.faults + 1}
    BY <2>2 DEF Probe!PostRecvfrom, ProbeFields
  <2> HIDE DEF r
  <2>4. /\ probe'.prog = probe.prog /\ probe'.late = probe.late
        /\ probe'.faults \in {probe.faults, probe.faults + 1}
    BY <2>1, <2>3 DEF Probe!NextHop, Probe!Again, Probe!Ended, ProbeFields
  <2>5. OnTime(probe') => OnTime(probe)
    BY <1>d, <2>4 DEF OnTime
  <2>6. QED
    BY <1>8, <2>1, <2>4, <2>5, TracertReceivesOk DEF Punctual
<1>9. QED
  BY <1>1, <1>2, <1>3, <1>4, <1>5, <1>6, <1>7, <1>8 DEF Probe!ProbeNext, Probe!Receives

(***************************************************************************)
(* However late answers are, in whatever order, and however far the        *)
(* destination is: no line of a trace names a router that is farther away  *)
(* than the number of the line, and as long as nothing is late or fails    *)
(* every line names the right one (tracert.cpp, main).                     *)
(***************************************************************************)
THEOREM TracesAreTrue == Spec => []TraceIsTrue
<1> DEFINE Inv == Runs(probe) => ProbeOk(probe) /\ Punctual(probe)
<1>1. Init => Inv
  BY ProbeStarts DEF Init, Runs
<1>2. ASSUME Inv, [Next]_vars PROVE Inv'
  <2>1. CASE ProbeRuns
    BY <1>2, <2>1, ProbeSteps, PunctualSteps DEF ProbeRuns
  <2>2. CASE UNCHANGED probe
    BY <1>2, <2>2 DEF Runs
  <2>3. QED
    BY <1>2, <2>1, <2>2
       DEF Next, OverRuns, ListeningRuns, ClientRuns, BlockingClientRuns, GatewayRuns, InstallerRuns, vars
<1>3. Inv => TraceIsTrue
  <2> SUFFICES ASSUME Runs(probe), ProbeOk(probe), Punctual(probe)
               PROVE  Probe!NeverAhead /\ Probe!ExactOnTime
    BY DEF TraceIsTrue, Probe!TraceIsTrue
  <2>1. Probe!NeverAhead
    BY DEF Probe!NeverAhead, ProbeOk, LinesWithin
  <2>2. Probe!ExactOnTime
    BY DEF Probe!ExactOnTime, Punctual, OnTime, OneAtATime, AllNamed
  <2>3. QED
    BY <2>1, <2>2
<1>4. QED
  BY <1>1, <1>2, <1>3, PTL DEF Spec

-----------------------------------------------------------------------------
(***************************************************************************)
(* authpf (Authpf).  Whoever is past Flock holds the lock of the file that *)
(* its descriptor names; as long as no file has been locked that had lost  *)
(* its name, that is the one file with a name, so that one session at a    *)
(* time is there.                                                          *)
(***************************************************************************)
Places == {"start", "open", "flock", "kill", "sleep", "dogdeath", "checks", "stale", "mark", "filter",
           "table", "active", "untable", "states", "unlink", "exit", "dead"}

Held == {"checks", "stale", "mark", "filter", "table", "active", "untable", "states"}

GatewayFields == {"user_ip", "pc", "pidfd", "otherpid", "lockcnt", "want_death", "pidfile", "content", "flock",
                  "rulesets", "table", "states", "orphaned", "refused", "killed", "faults"}

FilesTyped(a) ==
  /\ DOMAIN a = GatewayFields
  /\ a.pc \in [Gateway!Sessions -> Places]
  /\ a.pidfd \in [Gateway!Sessions -> Gateway!Inodes \cup {Gateway!None}]
  /\ a.flock \in [Gateway!Inodes -> Gateway!Sessions \cup {Gateway!None}]
  /\ a.pidfile \in Gateway!Inodes \cup {Gateway!None}

HoldsLock(a) ==
  \A p \in Gateway!Sessions :
    /\ a.pc[p] \in Held \cup {"flock"} => a.pidfd[p] \in Gateway!Inodes
    /\ a.pc[p] \in Held => a.flock[a.pidfd[p]] = p

HoldsNamed(a) == ~a.orphaned => \A p \in Gateway!Sessions : a.pc[p] \in Held => a.pidfd[p] = a.pidfile

LockInv(a) == FilesTyped(a) /\ HoldsLock(a) /\ HoldsNamed(a)

(***************************************************************************)
(* What the packet filter knows belongs to the one session there, or to    *)
(* one that was killed.  A session that has purged the rulesets finds none *)
(* until it has loaded its own.                                            *)
(***************************************************************************)
RulesOwned(a) ==
  /\ a.rulesets \subseteq Gateway!Sessions
  /\ \A q \in a.rulesets : a.pc[q] \in {"table", "active"} \/ (a.pc[q] = "dead" /\ a.killed)
  /\ \A p \in Gateway!Sessions :
       /\ a.pc[p] \in {"mark", "filter", "untable", "states"} => a.rulesets = {}
       /\ a.pc[p] \in {"table", "active"} => a.rulesets = {p}

TableOwned(a) ==
  /\ \A p \in Gateway!Sessions : a.pc[p] = "active" => a.table = a.user_ip
  /\ a.table /\ ~a.killed => \E p \in Gateway!Sessions : a.pc[p] \in {"active", "untable"}
  /\ a.states /\ a.user_ip /\ ~a.killed =>
       \E p \in Gateway!Sessions : a.pc[p] \in {"table", "active", "untable", "states"}

TableByAddress(a) ==
  /\ a.user_ip \in BOOLEAN /\ a.table \in BOOLEAN /\ a.states \in BOOLEAN
  /\ a.orphaned \in BOOLEAN /\ a.refused \in BOOLEAN /\ a.killed \in BOOLEAN
  /\ a.table => a.user_ip
  /\ \A p \in Gateway!Sessions : a.pc[p] \in {"table", "untable", "states"} => a.user_ip

AccessInv(a) ==
  /\ TableByAddress(a)
  /\ ~a.orphaned /\ ~a.refused => RulesOwned(a) /\ TableOwned(a)

(***************************************************************************)
(* What a step may do: to the packet filter nothing; to the files nothing; *)
(* or p is not, or not any more, past Flock.                               *)
(***************************************************************************)
SameFilter(a, e) ==
  /\ e.user_ip = a.user_ip /\ e.rulesets = a.rulesets /\ e.table = a.table /\ e.states = a.states
  /\ e.refused = a.refused /\ e.killed = a.killed

SameFiles(a, e) ==
  /\ DOMAIN e = GatewayFields
  /\ e.pidfd = a.pidfd /\ e.flock = a.flock /\ e.pidfile = a.pidfile /\ e.orphaned = a.orphaned

Same(a, e) == SameFiles(a, e) /\ SameFilter(a, e) /\ e.pc = a.pc

Goes(a, e, p, to) == SameFiles(a, e) /\ e.pc = [a.pc EXCEPT ![p] = to]

Away == Places \ (Held \cup {"flock"})

GoesAway(a, e, p) ==
  /\ DOMAIN e = GatewayFields
  /\ \E to \in Away : e.pc = [a.pc EXCEPT ![p] = to]
  /\ e.pidfd \in {a.pidfd, [a.pidfd EXCEPT ![p] = Gateway!None]}
  /\ e.flock \in {a.flock, [i \in Gateway!Inodes |-> IF a.flock[i] = p THEN Gateway!None ELSE a.flock[i]]}
  /\ e.pidfile = a.pidfile /\ e.orphaned = a.orphaned

LEMMA NoneIsNobody ==
  /\ Gateway!None \notin Gateway!Sessions /\ Gateway!None \notin Gateway!Inodes
  /\ NSessions \in Nat
BY BoundsAssumption DEF Gateway!None, Gateway!Sessions, Gateway!Inodes

LEMMA OneInside ==
  ASSUME NEW a, LockInv(a), ~a.orphaned,
         NEW p \in Gateway!Sessions, a.pc[p] \in Held, NEW q \in Gateway!Sessions, a.pc[q] \in Held
  PROVE  p = q
BY DEF LockInv, HoldsLock, HoldsNamed

LEMMA GoesAwayOk ==
  ASSUME NEW a, LockInv(a), NEW p \in Gateway!Sessions, NEW e, GoesAway(a, e, p)
  PROVE  LockInv(e)
<1>1. PICK to \in Away : e.pc = [a.pc EXCEPT ![p] = to]
  BY DEF GoesAway
<1>2. to \in Places /\ to \notin Held \cup {"flock"}
  BY DEF Away
<1> HIDE DEF Held
<1>3. e.pc \in [Gateway!Sessions -> Places] /\ \A q \in Gateway!Sessions : e.pc[q] = IF q = p THEN to ELSE a.pc[q]
  BY <1>1, <1>2 DEF LockInv, FilesTyped
<1>4. /\ e.pidfd \in [Gateway!Sessions -> Gateway!Inodes \cup {Gateway!None}]
      /\ \A q \in Gateway!Sessions \ {p} : e.pidfd[q] = a.pidfd[q]
  BY DEF GoesAway, LockInv, FilesTyped
<1>5. /\ e.flock \in [Gateway!Inodes -> Gateway!Sessions \cup {Gateway!None}]
      /\ \A i \in Gateway!Inodes : a.flock[i] # p => e.flock[i] = a.flock[i]
  BY DEF GoesAway, LockInv, FilesTyped
<1>6. FilesTyped(e)
  BY <1>3, <1>4, <1>5 DEF GoesAway, LockInv, FilesTyped
<1>7. HoldsLock(e)
  BY <1>2, <1>3, <1>4, <1>5 DEF LockInv, HoldsLock
<1>8. HoldsNamed(e)
  BY <1>2, <1>3, <1>4 DEF GoesAway, LockInv, HoldsNamed
<1>9. QED
  BY <1>6, <1>7, <1>8 DEF LockInv

LEMMA GoesOk ==
  ASSUME NEW a, LockInv(a), NEW p \in Gateway!Sessions, NEW to \in Places, NEW e, Goes(a, e, p, to),
         \/ a.pc[p] \in Held
         \/ to = "flock" /\ a.pidfd[p] \in Gateway!Inodes
  PROVE  LockInv(e)
<1>1. e.pc \in [Gateway!Sessions -> Places] /\ \A q \in Gateway!Sessions : e.pc[q] = IF q = p THEN to ELSE a.pc[q]
  BY DEF Goes, LockInv, FilesTyped
<1>2. FilesTyped(e)
  BY <1>1 DEF Goes, SameFiles, LockInv, FilesTyped
<1>3. HoldsLock(e)
  BY <1>1 DEF Goes, SameFiles, LockInv, HoldsLock, Held
<1>4. HoldsNamed(e)
  BY <1>1 DEF Goes, SameFiles, LockInv, HoldsNamed, Held
<1>5. QED
  BY <1>2, <1>3, <1>4 DEF LockInv

LEMMA SameOk ==
  ASSUME NEW a, LockInv(a), NEW e, SameFiles(a, e), e.pc = a.pc
  PROVE  LockInv(e)
BY DEF SameFiles, LockInv, FilesTyped, HoldsLock, HoldsNamed

LEMMA FaultSame ==
  ASSUME NEW a, FilesTyped(a)
  PROVE  Same(a, Gateway!Fault(a)) /\ FilesTyped(Gateway!Fault(a))
<1>1. Same(a, Gateway!Fault(a))
  BY DEF FilesTyped, GatewayFields, Gateway!Fault, Same, SameFiles, SameFilter
<1>2. QED
  BY <1>1 DEF FilesTyped, Same, SameFiles

LEMMA CloseEffect ==
  ASSUME NEW a, FilesTyped(a), NEW p \in Gateway!Sessions
  PROVE  LET e == Gateway!Close(a, p)
         IN /\ DOMAIN e = GatewayFields /\ SameFilter(a, e) /\ e.pc = a.pc
            /\ e.pidfd = [a.pidfd EXCEPT ![p] = Gateway!None] /\ e.flock = a.flock
            /\ e.pidfile = a.pidfile /\ e.orphaned = a.orphaned
<1> DEFINE b == [a EXCEPT !.pidfd[p] = Gateway!None]
<1>1. /\ DOMAIN b = GatewayFields /\ SameFilter(a, b) /\ b.pc = a.pc
      /\ b.pidfd = [a.pidfd EXCEPT ![p] = Gateway!None] /\ b.flock = a.flock
      /\ b.pidfile = a.pidfile /\ b.orphaned = a.orphaned
  BY DEF FilesTyped, GatewayFields, SameFilter
<1> HIDE DEF b
<1>2. Gateway!Close(a, p) = Gateway!Swept(b)
  BY DEF Gateway!Close, b
<1>3. QED
  BY <1>1, <1>2 DEF GatewayFields, Gateway!Swept, SameFilter

LEMMA ExitEffect ==
  ASSUME NEW a, FilesTyped(a), NEW p \in Gateway!Sessions
  PROVE  /\ GoesAway(a, Gateway!Exit(a, p), p) /\ SameFilter(a, Gateway!Exit(a, p))
         /\ Gateway!Exit(a, p).pc = [a.pc EXCEPT ![p] = "dead"]
<1> DEFINE b == Gateway!Close(a, p)
           e == Gateway!Exit(a, p)
<1>1. /\ DOMAIN b = GatewayFields /\ SameFilter(a, b) /\ b.pc = a.pc
      /\ b.pidfd = [a.pidfd EXCEPT ![p] = Gateway!None] /\ b.flock = a.flock
      /\ b.pidfile = a.pidfile /\ b.orphaned = a.orphaned
  BY CloseEffect
<1> HIDE DEF b
<1>2. e = [b EXCEPT !.pc[p] = "dead", !.otherpid[p] = Gateway!None, !.lockcnt[p] = 0, !.want_death[p] = FALSE,
                    !.flock = [i \in Gateway!Inodes |-> IF a.flock[i] = p THEN Gateway!None ELSE a.flock[i]]]
  BY DEF Gateway!Exit, b
<1>3. /\ DOMAIN e = GatewayFields /\ SameFilter(a, e) /\ e.pc = [a.pc EXCEPT ![p] = "dead"]
      /\ e.pidfd = b.pidfd /\ e.pidfile = b.pidfile /\ e.orphaned = b.orphaned
      /\ e.flock = [i \in Gateway!Inodes |-> IF a.flock[i] = p THEN Gateway!None ELSE a.flock[i]]
  BY <1>1, <1>2 DEF GatewayFields, SameFilter
<1>4. "dead" \in Away
  BY DEF Away, Places, Held
<1>5. GoesAway(a, e, p)
  BY <1>1, <1>3, <1>4 DEF GoesAway
<1>6. QED
  BY <1>3, <1>5

LEMMA DoDeathEffect ==
  ASSUME NEW a, FilesTyped(a), NEW p \in Gateway!Sessions
  PROVE  /\ GoesAway(a, Gateway!DoDeath(a, p), p) /\ SameFilter(a, Gateway!DoDeath(a, p))
         /\ \E to \in {"dead", "unlink"} : Gateway!DoDeath(a, p).pc = [a.pc EXCEPT ![p] = to]
<1>1. CASE a.pidfd[p] = Gateway!None
  BY <1>1, ExitEffect DEF Gateway!DoDeath
<1>2. CASE a.pidfd[p] # Gateway!None
  <2> DEFINE e == [a EXCEPT !.pc[p] = "unlink"]
  <2>1. Gateway!DoDeath(a, p) = e
    BY <1>2 DEF Gateway!DoDeath
  <2>2. Goes(a, e, p, "unlink") /\ SameFilter(a, e)
    BY DEF FilesTyped, GatewayFields, Goes, SameFiles, SameFilter
  <2>3. "unlink" \in Away
    BY DEF Away, Places, Held
  <2> HIDE DEF e
  <2>4. QED
    BY <2>1, <2>2, <2>3 DEF Goes, GoesAway, SameFiles
<1>3. QED
  BY <1>1, <1>2

(***************************************************************************)
(* Steps of sessions that have nothing in the packet filter.               *)
(***************************************************************************)
GatewayInv(a) == LockInv(a) /\ AccessInv(a)

Serving == {"table", "active", "untable", "states"}

LEMMA QuietOk ==
  ASSUME NEW a, FilesTyped(a), AccessInv(a), NEW p \in Gateway!Sessions,
         a.pc[p] \notin Serving \cup {"dead"},
         NEW to \in Places, to \notin Serving \cup {"mark", "filter"},
         NEW e, e.pc = [a.pc EXCEPT ![p] = to], SameFilter(a, e),
         e.orphaned \in BOOLEAN, a.orphaned => e.orphaned
  PROVE  AccessInv(e)
<1>1. \A q \in Gateway!Sessions : e.pc[q] = IF q = p THEN to ELSE a.pc[q]
  BY DEF FilesTyped
<1>2. TableByAddress(e)
  BY <1>1 DEF SameFilter, AccessInv, TableByAddress, Serving
<1>3. ASSUME RulesOwned(a) PROVE RulesOwned(e)
  BY <1>1, <1>3 DEF SameFilter, RulesOwned, Serving
<1>4. ASSUME TableOwned(a) PROVE TableOwned(e)
  <2>1. \A q \in Gateway!Sessions : e.pc[q] = "active" => a.pc[q] = "active"
    BY <1>1 DEF Serving
  <2>2. \A q \in Gateway!Sessions : a.pc[q] \in Serving => e.pc[q] = a.pc[q]
    BY <1>1
  <2>3. QED
    BY <1>4, <2>1, <2>2 DEF SameFilter, TableOwned, Serving
<1>5. QED
  BY <1>2, <1>3, <1>4 DEF SameFilter, AccessInv

LEMMA FaultOk ==
  ASSUME NEW a, GatewayInv(a)
  PROVE  GatewayInv(Gateway!Fault(a)) /\ Gateway!Fault(a).pc = a.pc
<1> DEFINE e == Gateway!Fault(a)
<1>1. Same(a, e)
  BY FaultSame DEF GatewayInv, LockInv
<1> HIDE DEF e
<1>2. LockInv(e)
  BY <1>1, SameOk DEF GatewayInv, Same
<1>3. AccessInv(e)
  BY <1>1 DEF GatewayInv, Same, SameFiles, SameFilter, AccessInv, TableByAddress, RulesOwned, TableOwned
<1>4. QED
  BY <1>1, <1>2, <1>3 DEF GatewayInv, Same, e

\* p goes where nothing is held.
LEMMA AwayOk ==
  ASSUME NEW a, GatewayInv(a), NEW p \in Gateway!Sessions, a.pc[p] \notin Serving \cup {"dead"},
         NEW e, GoesAway(a, e, p), SameFilter(a, e)
  PROVE  GatewayInv(e)
<1>1. PICK to \in Away : e.pc = [a.pc EXCEPT ![p] = to]
  BY DEF GoesAway
<1>2. to \in Places /\ to \notin Serving \cup {"mark", "filter"}
  BY DEF Away, Held, Serving
<1>3. FilesTyped(a) /\ AccessInv(a) /\ e.orphaned = a.orphaned /\ a.orphaned \in BOOLEAN
  BY DEF GatewayInv, LockInv, GoesAway, AccessInv, TableByAddress
<1>4. AccessInv(e)
  BY <1>1, <1>2, <1>3, QuietOk
<1>5. QED
  BY <1>4, GoesAwayOk DEF GatewayInv

LEMMA DoDeathOk ==
  ASSUME NEW a, GatewayInv(a), NEW p \in Gateway!Sessions, a.pc[p] \notin Serving \cup {"dead"}
  PROVE  GatewayInv(Gateway!DoDeath(a, p))
BY DoDeathEffect, AwayOk DEF GatewayInv, LockInv

LEMMA ExitOk ==
  ASSUME NEW a, GatewayInv(a), NEW p \in Gateway!Sessions, a.pc[p] \notin Serving \cup {"dead"}
  PROVE  GatewayInv(Gateway!Exit(a, p))
BY ExitEffect, AwayOk DEF GatewayInv, LockInv

\* p goes on where it holds the lock or is about to take it.
LEMMA GoesQuietly ==
  ASSUME NEW a, GatewayInv(a), NEW p \in Gateway!Sessions, a.pc[p] \notin Serving \cup {"dead"},
         NEW to \in Places, to \notin Serving \cup {"mark", "filter"},
         \/ a.pc[p] \in Held
         \/ to = "flock" /\ a.pidfd[p] \in Gateway!Inodes
         \/ to \in Away,
         NEW e, Goes(a, e, p, to), SameFilter(a, e)
  PROVE  GatewayInv(e)
<1>1. AccessInv(e)
  BY QuietOk DEF GatewayInv, LockInv, Goes, SameFiles, AccessInv, TableByAddress
<1>2. LockInv(e)
  <2>1. CASE to \in Away
    BY <2>1, GoesAwayOk DEF GatewayInv, Goes, GoesAway, SameFiles
  <2>2. CASE to \notin Away
    BY <2>2, GoesOk DEF GatewayInv
  <2>3. QED
    BY <2>1, <2>2
<1>3. QED
  BY <1>1, <1>2 DEF GatewayInv

LEMMA StartOk ==
  ASSUME GatewayInv(authpf), NEW p \in Gateway!Sessions, Gateway!Start(p)
  PROVE  GatewayInv(authpf')
<1>1. authpf.pc[p] = "start"
  BY DEF Gateway!Start, Gateway!At
<1>2. CASE authpf' = Gateway!DoDeath(authpf, p)
  BY <1>1, <1>2, DoDeathOk DEF Serving
<1>3. CASE authpf' = [authpf EXCEPT !.pc[p] = "open"]
  <2>1. Goes(authpf, authpf', p, "open") /\ SameFilter(authpf, authpf')
    BY <1>3 DEF GatewayInv, LockInv, FilesTyped, GatewayFields, Goes, SameFiles, SameFilter
  <2>2. QED
    BY <1>1, <2>1, GoesQuietly DEF Serving, Away, Places, Held
<1>4. QED
  BY <1>2, <1>3 DEF Gateway!Start

(***************************************************************************)
(* There is always an inode for a new file: each session has at most one   *)
(* open, and there is one more than sessions.                              *)
(***************************************************************************)
LEMMA InodeLeft ==
  ASSUME FilesTyped(authpf), authpf.pidfile = Gateway!None
  PROVE  Gateway!NewInode \in Gateway!Inodes
<1> DEFINE Open == {authpf.pidfd[p] : p \in Gateway!Sessions}
<1>1. /\ IsFiniteSet(Gateway!Sessions) /\ Cardinality(Gateway!Sessions) = NSessions
      /\ IsFiniteSet(Gateway!Inodes) /\ Cardinality(Gateway!Inodes) = NSessions + 1
  BY NoneIsNobody, FS_Interval DEF Gateway!Sessions, Gateway!Inodes
<1>2. IsFiniteSet(Open) /\ Cardinality(Open) <= NSessions
  <2>1. authpf.pidfd \in [Gateway!Sessions -> Open]
    BY DEF FilesTyped
  <2>2. authpf.pidfd \in Surjection(Gateway!Sessions, Open)
    BY <2>1 DEF Surjection
  <2>3. QED
    BY <1>1, <2>2, FS_Surjection
<1>3. ~(Gateway!Inodes \subseteq Open)
  BY <1>1, <1>2, FS_Subset, FS_CardinalityType, NoneIsNobody
<1>4. PICK i \in Gateway!Inodes : i \notin Open
  BY <1>3
<1>5. i \in Gateway!Gone(authpf)
  BY <1>4, NoneIsNobody DEF Gateway!Gone
<1>6. QED
  BY <1>5 DEF Gateway!NewInode, Gateway!Gone

\* A file that is created has no rival: whoever holds a lock holds the named file.
LEMMA OpenPidfileOk ==
  ASSUME GatewayInv(authpf), NEW p \in Gateway!Sessions, Gateway!OpenPidfile(p)
  PROVE  GatewayInv(authpf')
<1> DEFINE i == IF authpf.pidfile = Gateway!None THEN Gateway!NewInode ELSE authpf.pidfile
           opened == [authpf EXCEPT !.pidfile = i, !.pidfd[p] = i]
<1>1. authpf.pc[p] = "open" /\ FilesTyped(authpf)
  BY DEF Gateway!OpenPidfile, Gateway!At, GatewayInv, LockInv
<1>2. i \in Gateway!Inodes
  BY <1>1, InodeLeft DEF FilesTyped
<1>3. /\ DOMAIN opened = GatewayFields /\ opened.pc = authpf.pc /\ opened.pidfile = i
      /\ opened.pidfd = [authpf.pidfd EXCEPT ![p] = i]
      /\ opened.flock = authpf.flock /\ opened.orphaned = authpf.orphaned
      /\ SameFilter(authpf, opened)
  BY <1>1 DEF FilesTyped, GatewayFields, SameFilter
<1>4. \/ authpf' = [opened EXCEPT !.pc[p] = "flock"]
      \/ authpf' = Gateway!Fault(Gateway!DoDeath(authpf, p))
      \/ authpf' = Gateway!Fault(Gateway!DoDeath(opened, p))
  BY DEF Gateway!OpenPidfile
<1> HIDE DEF opened, i
<1>5. opened.pidfd[p] = i /\ \A q \in Gateway!Sessions \ {p} : opened.pidfd[q] = authpf.pidfd[q]
  BY <1>1, <1>3 DEF FilesTyped
<1>6. FilesTyped(opened)
  BY <1>1, <1>2, <1>3 DEF FilesTyped
<1>7. HoldsLock(opened)
  BY <1>1, <1>2, <1>3, <1>5 DEF GatewayInv, LockInv, HoldsLock, Held
<1>8. HoldsNamed(opened)
  <2> SUFFICES ASSUME ~authpf.orphaned, NEW q \in Gateway!Sessions, authpf.pc[q] \in Held
               PROVE  opened.pidfd[q] = i
    BY <1>3 DEF HoldsNamed
  <2>1. q # p
    BY <1>1 DEF Held
  <2>2. authpf.pidfd[q] = authpf.pidfile /\ authpf.pidfd[q] \in Gateway!Inodes
    BY DEF GatewayInv, LockInv, HoldsLock, HoldsNamed
  <2>3. QED
    BY <1>5, <2>1, <2>2, NoneIsNobody DEF i
<1>9. AccessInv(opened)
  BY <1>3 DEF GatewayInv, SameFilter, AccessInv, TableByAddress, RulesOwned, TableOwned
<1>10. GatewayInv(opened)
  BY <1>6, <1>7, <1>8, <1>9 DEF GatewayInv, LockInv
<1>11. CASE authpf' = [opened EXCEPT !.pc[p] = "flock"]
  <2>1. Goes(opened, authpf', p, "flock") /\ SameFilter(opened, authpf')
    BY <1>3, <1>11 DEF GatewayFields, Goes, SameFiles, SameFilter
  <2>2. QED
    BY <1>1, <1>2, <1>3, <1>5, <1>10, <2>1, GoesQuietly DEF Serving, Places
<1>12. CASE authpf' = Gateway!Fault(Gateway!DoDeath(authpf, p))
  BY <1>1, <1>12, DoDeathOk, FaultOk DEF Serving
<1>13. CASE authpf' = Gateway!Fault(Gateway!DoDeath(opened, p))
  BY <1>1, <1>3, <1>10, <1>13, DoDeathOk, FaultOk DEF Serving
<1>14. QED
  BY <1>4, <1>11, <1>12, <1>13

\* Nobody else holds the lock of the file that p can lock.
LEMMA FlockOk ==
  ASSUME GatewayInv(authpf), NEW p \in Gateway!Sessions, Gateway!Flock(p)
  PROVE  GatewayInv(authpf')
<1> DEFINE i == authpf.pidfd[p]
<1>1. authpf.pc[p] = "flock" /\ FilesTyped(authpf) /\ HoldsLock(authpf) /\ HoldsNamed(authpf)
  BY DEF Gateway!Flock, Gateway!At, GatewayInv, LockInv
<1>2. i \in Gateway!Inodes
  BY <1>1 DEF HoldsLock
<1>3. CASE authpf.flock[i] = Gateway!None
  <2>1. authpf' = [authpf EXCEPT !.flock[i] = p, !.lockcnt[p] = 0, !.pc[p] = "checks",
                                 !.orphaned = @ \/ i # authpf.pidfile]
    BY <1>3 DEF Gateway!Flock
  <2>2. /\ DOMAIN authpf' = GatewayFields /\ SameFilter(authpf, authpf')
        /\ authpf'.pc = [authpf.pc EXCEPT ![p] = "checks"] /\ authpf'.pidfd = authpf.pidfd
        /\ authpf'.flock = [authpf.flock EXCEPT ![i] = p] /\ authpf'.pidfile = authpf.pidfile
        /\ authpf'.orphaned = (authpf.orphaned \/ i # authpf.pidfile)
    BY <1>1, <2>1 DEF FilesTyped, GatewayFields, SameFilter
  <2>3. \A q \in Gateway!Sessions : authpf'.pc[q] = IF q = p THEN "checks" ELSE authpf.pc[q]
    BY <1>1, <2>2 DEF FilesTyped
  <2>4. FilesTyped(authpf')
    BY <1>1, <1>2, <2>2 DEF FilesTyped, Places
  <2>5. HoldsLock(authpf')
    <3> SUFFICES ASSUME NEW q \in Gateway!Sessions
                 PROVE  /\ authpf'.pc[q] \in Held \cup {"flock"} => authpf'.pidfd[q] \in Gateway!Inodes
                        /\ authpf'.pc[q] \in Held => authpf'.flock[authpf'.pidfd[q]] = q
      BY DEF HoldsLock
    <3>1. CASE q = p
      BY <1>1, <1>2, <2>2, <3>1 DEF FilesTyped
    <3>2. CASE q # p
      BY <1>1, <1>2, <1>3, <2>2, <2>3, <3>2, NoneIsNobody DEF FilesTyped, HoldsLock
    <3>3. QED
      BY <3>1, <3>2
  <2>6. HoldsNamed(authpf')
    BY <1>1, <2>2, <2>3 DEF HoldsNamed
  <2>7. AccessInv(authpf')
    <3>1. authpf'.orphaned \in BOOLEAN /\ (authpf.orphaned => authpf'.orphaned)
      BY <2>2
    <3>2. QED
      BY <1>1, <2>2, <3>1, QuietOk DEF GatewayInv, Serving, Places
  <2>8. QED
    BY <2>4, <2>5, <2>6, <2>7 DEF GatewayInv, LockInv
<1>4. CASE authpf.flock[i] # Gateway!None
  <2>1. authpf' = [authpf EXCEPT !.otherpid[p] = authpf.content[i], !.pc[p] = "kill"]
    BY <1>4 DEF Gateway!Flock
  <2>2. Goes(authpf, authpf', p, "kill") /\ SameFilter(authpf, authpf')
    BY <1>1, <2>1 DEF FilesTyped, GatewayFields, Goes, SameFiles, SameFilter
  <2>3. QED
    BY <1>1, <2>2, GoesQuietly DEF Serving, Away, Places, Held
<1>5. QED
  BY <1>3, <1>4

LEMMA NeedDeathSame ==
  ASSUME NEW a, FilesTyped(a), NEW q
  PROVE  Same(a, Gateway!NeedDeath(a, q))
BY DEF FilesTyped, GatewayFields, Gateway!NeedDeath, Same, SameFiles, SameFilter

LEMMA KillOtherOk ==
  ASSUME GatewayInv(authpf), NEW p \in Gateway!Sessions, Gateway!KillOther(p)
  PROVE  GatewayInv(authpf')
<1> DEFINE b == Gateway!NeedDeath(authpf, authpf.otherpid[p])
           a == [b EXCEPT !.otherpid[p] = Gateway!None]
           c == Gateway!Close(a, p)
<1>1. authpf.pc[p] = "kill" /\ FilesTyped(authpf)
  BY DEF Gateway!KillOther, Gateway!At, GatewayInv, LockInv
<1>2. Same(authpf, b)
  BY <1>1, NeedDeathSame
<1>3. \/ authpf' = [c EXCEPT !.lockcnt[p] = 0, !.pc[p] = "dogdeath"]
      \/ authpf' = [a EXCEPT !.lockcnt[p] = @ + 1, !.pc[p] = "sleep"]
  BY DEF Gateway!KillOther
<1> HIDE DEF b
<1>4. Same(authpf, a)
  BY <1>2 DEF GatewayFields, Same, SameFiles, SameFilter
<1> HIDE DEF a
<1>5. FilesTyped(a)
  BY <1>1, <1>4 DEF FilesTyped, Same, SameFiles
<1>6. CASE authpf' = [c EXCEPT !.lockcnt[p] = 0, !.pc[p] = "dogdeath"]
  <2>1. /\ DOMAIN c = GatewayFields /\ SameFilter(a, c) /\ c.pc = a.pc
        /\ c.pidfd = [a.pidfd EXCEPT ![p] = Gateway!None] /\ c.flock = a.flock
        /\ c.pidfile = a.pidfile /\ c.orphaned = a.orphaned
    BY <1>5, CloseEffect
  <2> HIDE DEF c
  <2>2. /\ DOMAIN authpf' = GatewayFields /\ SameFilter(authpf, authpf')
        /\ authpf'.pc = [authpf.pc EXCEPT ![p] = "dogdeath"]
        /\ authpf'.pidfd = [authpf.pidfd EXCEPT ![p] = Gateway!None] /\ authpf'.flock = authpf.flock
        /\ authpf'.pidfile = authpf.pidfile /\ authpf'.orphaned = authpf.orphaned
    BY <1>4, <1>6, <2>1 DEF GatewayFields, Same, SameFiles, SameFilter
  <2>3. "dogdeath" \in Away
    BY DEF Away, Places, Held
  <2>4. GoesAway(authpf, authpf', p)
    BY <2>2, <2>3 DEF GoesAway
  <2>5. QED
    BY <1>1, <2>2, <2>4, AwayOk DEF Serving
<1>7. CASE authpf' = [a EXCEPT !.lockcnt[p] = @ + 1, !.pc[p] = "sleep"]
  <2>1. Goes(authpf, authpf', p, "sleep") /\ SameFilter(authpf, authpf')
    BY <1>4, <1>7 DEF GatewayFields, Same, Goes, SameFiles, SameFilter
  <2>2. QED
    BY <1>1, <2>1, GoesQuietly DEF Serving, Away, Places, Held
<1>8. QED
  BY <1>3, <1>6, <1>7

LEMMA ReopenOk ==
  ASSUME GatewayInv(authpf), NEW p \in Gateway!Sessions, Gateway!Reopen(p)
  PROVE  GatewayInv(authpf')
<1> DEFINE c == Gateway!Close(authpf, p)
<1>1. authpf.pc[p] = "sleep" /\ FilesTyped(authpf)
  BY DEF Gateway!Reopen, Gateway!At, GatewayInv, LockInv
<1>2. authpf' = [c EXCEPT !.pc[p] = "open"]
  BY DEF Gateway!Reopen
<1>3. /\ DOMAIN c = GatewayFields /\ SameFilter(authpf, c) /\ c.pc = authpf.pc
      /\ c.pidfd = [authpf.pidfd EXCEPT ![p] = Gateway!None] /\ c.flock = authpf.flock
      /\ c.pidfile = authpf.pidfile /\ c.orphaned = authpf.orphaned
  BY <1>1, CloseEffect
<1> HIDE DEF c
<1>4. /\ DOMAIN authpf' = GatewayFields /\ SameFilter(authpf, authpf')
      /\ authpf'.pc = [authpf.pc EXCEPT ![p] = "open"]
      /\ authpf'.pidfd = [authpf.pidfd EXCEPT ![p] = Gateway!None] /\ authpf'.flock = authpf.flock
      /\ authpf'.pidfile = authpf.pidfile /\ authpf'.orphaned = authpf.orphaned
  BY <1>2, <1>3 DEF GatewayFields, SameFilter
<1>5. "open" \in Away
  BY DEF Away, Places, Held
<1>6. GoesAway(authpf, authpf', p)
  BY <1>4, <1>5 DEF GoesAway
<1>7. QED
  BY <1>1, <1>4, <1>6, AwayOk DEF Serving

LEMMA DogdeathOk ==
  ASSUME GatewayInv(authpf), NEW p \in Gateway!Sessions, Gateway!Dogdeath(p)
  PROVE  GatewayInv(authpf')
BY DoDeathOk DEF Gateway!Dogdeath, Gateway!At, Serving

LEMMA CheckUserOk ==
  ASSUME GatewayInv(authpf), NEW p \in Gateway!Sessions, Gateway!CheckUser(p)
  PROVE  GatewayInv(authpf')
<1>1. authpf.pc[p] = "checks" /\ FilesTyped(authpf)
  BY DEF Gateway!CheckUser, Gateway!At, GatewayInv, LockInv
<1>2. \/ authpf' = Gateway!Fault(Gateway!DoDeath(authpf, p))
      \/ authpf' = Gateway!Fault(Gateway!Exit(authpf, p))
      \/ authpf' = Gateway!DoDeath(authpf, p)
      \/ authpf' = Gateway!Exit(authpf, p)
      \/ authpf' = [authpf EXCEPT !.pc[p] = "stale"]
  BY DEF Gateway!CheckUser
<1>3. CASE authpf' = [authpf EXCEPT !.pc[p] = "stale"]
  <2>1. Goes(authpf, authpf', p, "stale") /\ SameFilter(authpf, authpf')
    BY <1>1, <1>3 DEF FilesTyped, GatewayFields, Goes, SameFiles, SameFilter
  <2>2. QED
    BY <1>1, <2>1, GoesQuietly DEF Serving, Places, Held
<1>4. QED
  BY <1>1, <1>2, <1>3, DoDeathOk, ExitOk, FaultOk DEF Serving

\* The file that loses its name is the one whose lock is held inside, if any is.
LEMMA UnlinkPidfileOk ==
  ASSUME GatewayInv(authpf), NEW p \in Gateway!Sessions, Gateway!UnlinkPidfile(p)
  PROVE  GatewayInv(authpf')
<1>1. /\ authpf.pc[p] = "unlink" /\ FilesTyped(authpf) /\ HoldsLock(authpf) /\ HoldsNamed(authpf)
      /\ AccessInv(authpf)
  BY DEF Gateway!UnlinkPidfile, Gateway!At, GatewayInv, LockInv
<1> DEFINE unlinked == [authpf EXCEPT !.pidfile = Gateway!None, !.pc[p] = "exit",
                          !.orphaned = @ \/ (authpf.pidfile # Gateway!None
                                               /\ authpf.flock[authpf.pidfile] \notin {Gateway!None, p})]
           f == Gateway!Fault(authpf)
<1>s. CASE authpf' = [f EXCEPT !.pc[p] = "exit"]
  <2>1. Same(authpf, f)
    BY <1>1, FaultSame
  <2> HIDE DEF f
  <2>2. Goes(authpf, authpf', p, "exit") /\ SameFilter(authpf, authpf')
    BY <1>s, <2>1 DEF GatewayFields, Same, SameFiles, SameFilter, Goes
  <2>3. QED
    BY <1>1, <2>2, GoesQuietly DEF Serving, Away, Places, Held
<1> SUFFICES ASSUME authpf' = unlinked PROVE GatewayInv(authpf')
  BY <1>s DEF Gateway!UnlinkPidfile
<1>2. authpf' = unlinked
  OBVIOUS
<1>3. /\ DOMAIN authpf' = GatewayFields /\ SameFilter(authpf, authpf')
      /\ authpf'.pc = [authpf.pc EXCEPT ![p] = "exit"] /\ authpf'.pidfd = authpf.pidfd
      /\ authpf'.flock = authpf.flock /\ authpf'.pidfile = Gateway!None
      /\ authpf'.orphaned = (authpf.orphaned
                               \/ (authpf.pidfile # Gateway!None
                                     /\ authpf.flock[authpf.pidfile] \notin {Gateway!None, p}))
  BY <1>1, <1>2 DEF FilesTyped, GatewayFields, SameFilter
<1>4. \A q \in Gateway!Sessions : authpf'.pc[q] = IF q = p THEN "exit" ELSE authpf.pc[q]
  BY <1>1, <1>3 DEF FilesTyped
<1>5. FilesTyped(authpf')
  BY <1>1, <1>3 DEF FilesTyped, Places
<1>6. HoldsLock(authpf')
  BY <1>1, <1>3, <1>4 DEF HoldsLock, Held
<1>7. HoldsNamed(authpf')
  <2> SUFFICES ASSUME ~authpf'.orphaned, NEW q \in Gateway!Sessions, authpf'.pc[q] \in Held
               PROVE  FALSE
    BY DEF HoldsNamed
  <2>1. q # p /\ authpf.pc[q] \in Held
    BY <1>4 DEF Held
  <2>2. ~authpf.orphaned
    BY <1>3
  <2>3. authpf.pidfd[q] = authpf.pidfile /\ authpf.pidfile \in Gateway!Inodes /\ authpf.flock[authpf.pidfile] = q
    BY <1>1, <2>1, <2>2 DEF HoldsLock, HoldsNamed
  <2>4. QED
    BY <1>3, <2>1, <2>3, NoneIsNobody
<1>8. AccessInv(authpf')
  <2>1. authpf'.orphaned \in BOOLEAN /\ (authpf.orphaned => authpf'.orphaned)
    BY <1>1, <1>3 DEF AccessInv, TableByAddress
  <2>2. QED
    BY <1>1, <1>3, <2>1, QuietOk DEF Serving, Places
<1>9. QED
  BY <1>5, <1>6, <1>7, <1>8 DEF GatewayInv, LockInv

LEMMA ExitProcessOk ==
  ASSUME GatewayInv(authpf), NEW p \in Gateway!Sessions, Gateway!ExitProcess(p)
  PROVE  GatewayInv(authpf')
BY ExitOk DEF Gateway!ExitProcess, Gateway!At, Serving

LEMMA HangupOk ==
  ASSUME GatewayInv(authpf), NEW p \in Gateway!Sessions, Gateway!Hangup(p)
  PROVE  GatewayInv(authpf')
<1>1. Same(authpf, authpf')
  BY NeedDeathSame DEF Gateway!Hangup, GatewayInv, LockInv
<1>2. LockInv(authpf')
  BY <1>1, SameOk DEF GatewayInv, Same
<1>3. AccessInv(authpf')
  BY <1>1 DEF GatewayInv, Same, SameFiles, SameFilter, AccessInv, TableByAddress, RulesOwned, TableOwned
<1>4. QED
  BY <1>2, <1>3 DEF GatewayInv

\* What a killed session leaves in the packet filter is excused, nothing else.
LEMMA KillOk ==
  ASSUME GatewayInv(authpf), NEW p \in Gateway!Sessions, Gateway!Kill(p)
  PROVE  GatewayInv(authpf')
<1> DEFINE e == Gateway!Exit(authpf, p)
           f == Gateway!Fault(e)
<1>1. authpf.pc[p] # "dead" /\ LockInv(authpf) /\ FilesTyped(authpf) /\ AccessInv(authpf)
  BY DEF Gateway!Kill, Gateway!Alive, GatewayInv, LockInv
<1>2. authpf' = [f EXCEPT !.killed = TRUE]
  BY DEF Gateway!Kill
<1>3. GoesAway(authpf, e, p) /\ SameFilter(authpf, e) /\ e.pc = [authpf.pc EXCEPT ![p] = "dead"]
  BY <1>1, ExitEffect
<1> HIDE DEF e
<1>4. LockInv(e)
  BY <1>1, <1>3, GoesAwayOk
<1>5. Same(e, f)
  BY <1>4, FaultSame DEF LockInv
<1> HIDE DEF f
<1>6. /\ DOMAIN authpf' = GatewayFields /\ SameFiles(e, authpf') /\ authpf'.pc = e.pc /\ authpf'.killed = TRUE
      /\ authpf'.user_ip = authpf.user_ip /\ authpf'.rulesets = authpf.rulesets
      /\ authpf'.table = authpf.table /\ authpf'.states = authpf.states /\ authpf'.refused = authpf.refused
      /\ authpf'.orphaned = authpf.orphaned
  BY <1>2, <1>3, <1>5 DEF GatewayFields, Same, SameFiles, SameFilter, GoesAway
<1>7. LockInv(authpf')
  BY <1>4, <1>6, SameOk
<1>8. \A q \in Gateway!Sessions : authpf'.pc[q] = IF q = p THEN "dead" ELSE authpf.pc[q]
  BY <1>1, <1>3, <1>6 DEF FilesTyped
<1>9. TableByAddress(authpf')
  BY <1>1, <1>6, <1>8 DEF AccessInv, TableByAddress
<1>10. ASSUME RulesOwned(authpf) PROVE RulesOwned(authpf')
  BY <1>6, <1>8, <1>10 DEF RulesOwned
<1>11. ASSUME TableOwned(authpf) PROVE TableOwned(authpf')
  BY <1>6, <1>8, <1>11 DEF TableOwned
<1>12. AccessInv(authpf')
  BY <1>1, <1>6, <1>9, <1>10, <1>11 DEF AccessInv
<1>13. QED
  BY <1>7, <1>12 DEF GatewayInv

\* States are let in by rules, and rules belong to a session.
LEMMA TrafficOk ==
  ASSUME GatewayInv(authpf), Gateway!Traffic
  PROVE  GatewayInv(authpf')
<1>1. LockInv(authpf) /\ FilesTyped(authpf) /\ AccessInv(authpf) /\ authpf.rulesets # {}
  BY DEF Gateway!Traffic, GatewayInv, LockInv
<1>2. /\ SameFiles(authpf, authpf') /\ authpf'.pc = authpf.pc /\ authpf'.states = TRUE
      /\ authpf'.user_ip = authpf.user_ip /\ authpf'.rulesets = authpf.rulesets
      /\ authpf'.table = authpf.table /\ authpf'.refused = authpf.refused /\ authpf'.killed = authpf.killed
  BY <1>1 DEF Gateway!Traffic, FilesTyped, GatewayFields, SameFiles
<1>3. LockInv(authpf')
  BY <1>1, <1>2, SameOk
<1>4. TableByAddress(authpf')
  BY <1>1, <1>2 DEF AccessInv, TableByAddress, SameFiles
<1>5. ASSUME RulesOwned(authpf), TableOwned(authpf) PROVE RulesOwned(authpf') /\ TableOwned(authpf')
  <2>1. RulesOwned(authpf')
    BY <1>2, <1>5 DEF RulesOwned
  <2>2. PICK q \in authpf.rulesets : TRUE
    BY <1>1
  <2>3. q \in Gateway!Sessions /\ (authpf.pc[q] \in {"table", "active"} \/ authpf.killed)
    BY <1>5, <2>2 DEF RulesOwned
  <2>4. TableOwned(authpf')
    BY <1>2, <1>5, <2>3 DEF TableOwned
  <2>5. QED
    BY <2>1, <2>4
<1>6. QED
  BY <1>1, <1>2, <1>3, <1>4, <1>5 DEF GatewayInv, AccessInv, SameFiles

(***************************************************************************)
(* Steps that change the packet filter.                                    *)
(***************************************************************************)
LEMMA PurgeEffect ==
  ASSUME NEW a, FilesTyped(a), NEW p \in Gateway!Sessions, NEW r \in Gateway!remove_stale_rulesets(a, p)
  PROVE  /\ SameFiles(a, r.a) /\ r.a.pc = a.pc
         /\ r.a.user_ip = a.user_ip /\ r.a.table = a.table /\ r.a.states = a.states
         /\ r.a.refused = a.refused /\ r.a.killed = a.killed
         /\ r.a.rulesets \subseteq a.rulesets
<1> DEFINE purged(names) == Gateway!recursive_ruleset_purge(a, names)
<1>1. ASSUME NEW names
      PROVE  /\ SameFiles(a, purged(names)) /\ purged(names).pc = a.pc
             /\ purged(names).user_ip = a.user_ip /\ purged(names).table = a.table
             /\ purged(names).states = a.states
             /\ purged(names).refused = a.refused /\ purged(names).killed = a.killed
             /\ purged(names).rulesets = a.rulesets \ names
  BY DEF FilesTyped, GatewayFields, SameFiles, Gateway!recursive_ruleset_purge
<1>2. \E names : r.a = purged(names) \/ r.a = Gateway!Fault(purged(names))
  <2>1. CASE r = [a |-> Gateway!recursive_ruleset_purge(a, Gateway!Stale(a, p)), ret |-> 0]
    BY <2>1
  <2>2. CASE r \in [a : {Gateway!Fault(Gateway!recursive_ruleset_purge(a, names)) :
                            names \in SUBSET Gateway!Stale(a, p)}, ret : {0, 1}]
    BY <2>2
  <2>3. QED
    BY <2>1, <2>2 DEF Gateway!remove_stale_rulesets
<1>3. PICK names : r.a = purged(names) \/ r.a = Gateway!Fault(purged(names))
  BY <1>2
<1> HIDE DEF purged
<1>4. FilesTyped(purged(names))
  BY <1>1 DEF FilesTyped, SameFiles
<1>5. Same(purged(names), Gateway!Fault(purged(names)))
  BY <1>4, FaultSame
<1>6. QED
  BY <1>1, <1>3, <1>5 DEF Same, SameFiles, SameFilter

LEMMA RefusedEffect ==
  ASSUME NEW a, FilesTyped(a), NEW p \in Gateway!Sessions
  PROVE  LET e == Gateway!Refused(a, p)
         IN /\ SameFiles(a, e) /\ e.pc = a.pc /\ e.user_ip = a.user_ip /\ e.rulesets = a.rulesets
            /\ e.table = a.table /\ e.states = a.states /\ e.killed = a.killed
            /\ e.refused = (a.refused \/ Gateway!Stale(a, p) # {})
BY DEF FilesTyped, GatewayFields, SameFiles, Gateway!Refused

\* Inside, a purge that is not refused leaves nothing.
LEMMA PurgeEmpties ==
  ASSUME NEW a, GatewayInv(a), NEW p \in Gateway!Sessions, a.pc[p] \in Held,
         NEW r \in Gateway!remove_stale_rulesets(a, p)
  PROVE  LET e == Gateway!Refused(r.a, p)
         IN /\ SameFiles(a, e) /\ e.pc = a.pc /\ e.user_ip = a.user_ip
            /\ e.table = a.table /\ e.states = a.states /\ e.killed = a.killed
            /\ e.refused \in BOOLEAN /\ (a.refused => e.refused)
            /\ ~e.orphaned /\ ~e.refused => e.rulesets = {}
<1> DEFINE b == r.a
           e == Gateway!Refused(b, p)
<1>1. FilesTyped(a) /\ LockInv(a) /\ AccessInv(a)
  BY DEF GatewayInv, LockInv
<1>2. /\ SameFiles(a, b) /\ b.pc = a.pc
      /\ b.user_ip = a.user_ip /\ b.table = a.table /\ b.states = a.states
      /\ b.refused = a.refused /\ b.killed = a.killed
      /\ b.rulesets \subseteq a.rulesets
  BY <1>1, PurgeEffect
<1> HIDE DEF b
<1>3. FilesTyped(b)
  BY <1>1, <1>2 DEF FilesTyped, SameFiles
<1>4. /\ SameFiles(b, e) /\ e.pc = b.pc /\ e.user_ip = b.user_ip /\ e.rulesets = b.rulesets
      /\ e.table = b.table /\ e.states = b.states /\ e.killed = b.killed
      /\ e.refused = (b.refused \/ Gateway!Stale(b, p) # {})
  BY <1>3, RefusedEffect
<1> HIDE DEF e
<1>5. ASSUME ~e.orphaned, ~e.refused, NEW q \in e.rulesets PROVE FALSE
  <2>1. ~a.orphaned /\ ~a.refused /\ Gateway!Stale(b, p) = {}
    BY <1>2, <1>4, <1>5, <1>1 DEF SameFiles, AccessInv, TableByAddress
  <2>2. q \in a.rulesets /\ q \in b.rulesets
    BY <1>2, <1>4, <1>5
  <2>3. a.pc[q] # "dead" /\ q # p
    BY <1>2, <2>1, <2>2 DEF Gateway!Stale
  <2>4. q \in Gateway!Sessions /\ a.pc[q] \in {"table", "active"}
    BY <1>1, <2>1, <2>2, <2>3 DEF AccessInv, RulesOwned
  <2>5. QED
    BY <1>1, <2>1, <2>3, <2>4, OneInside DEF Held
<1>6. e.refused \in BOOLEAN /\ (a.refused => e.refused)
  BY <1>1, <1>2, <1>4 DEF AccessInv, TableByAddress
<1>7. /\ SameFiles(a, e) /\ e.pc = a.pc /\ e.user_ip = a.user_ip
      /\ e.table = a.table /\ e.states = a.states /\ e.killed = a.killed
  BY <1>2, <1>4 DEF SameFiles
<1>8. ~e.orphaned /\ ~e.refused => e.rulesets = {}
  BY <1>5
<1>9. QED
  BY <1>6, <1>7, <1>8 DEF e, b

\* A session inside goes on; what the packet filter has is then its own.
LEMMA OwnsOk ==
  ASSUME NEW a, GatewayInv(a), NEW p \in Gateway!Sessions, a.pc[p] \in Held, NEW to \in Places,
         NEW e, Goes(a, e, p, to), e.user_ip = a.user_ip, e.killed = a.killed,
         e.table \in BOOLEAN, e.states \in BOOLEAN, e.refused \in BOOLEAN, a.refused => e.refused,
         e.table \/ to \in {"table", "untable", "states"} => e.user_ip,
         ~e.orphaned /\ ~e.refused =>
           /\ e.rulesets = IF to \in {"table", "active"} THEN {p} ELSE {}
           /\ to = "active" => e.table = e.user_ip
           /\ e.table /\ ~e.killed => to \in {"active", "untable"}
           /\ e.states /\ e.user_ip /\ ~e.killed => to \in Serving
  PROVE  GatewayInv(e)
<1>1. FilesTyped(a) /\ LockInv(a) /\ AccessInv(a) /\ e.orphaned = a.orphaned
  BY DEF GatewayInv, LockInv, Goes, SameFiles
<1>2. \A q \in Gateway!Sessions : e.pc[q] = IF q = p THEN to ELSE a.pc[q]
  BY <1>1 DEF FilesTyped, Goes
<1>3. LockInv(e)
  BY <1>1, GoesOk
<1>4. TableByAddress(e)
  BY <1>1, <1>2 DEF AccessInv, TableByAddress
<1>5. ASSUME ~e.orphaned, ~e.refused PROVE RulesOwned(e) /\ TableOwned(e)
  <2>1. \A q \in Gateway!Sessions \ {p} : e.pc[q] \notin Serving \cup {"mark", "filter"}
    <3> SUFFICES ASSUME NEW q \in Gateway!Sessions, q # p, e.pc[q] \in Serving \cup {"mark", "filter"}
                 PROVE  FALSE
      OBVIOUS
    <3>1. a.pc[q] \in Held
      BY <1>2 DEF Held, Serving
    <3>2. QED
      BY <1>1, <1>5, <3>1, OneInside
  <2>2. RulesOwned(e)
    BY <1>2, <1>5, <2>1 DEF RulesOwned, Serving
  <2>3. TableOwned(e)
    <3>1. \A q \in Gateway!Sessions : e.pc[q] = "active" => q = p /\ to = "active"
      BY <1>2, <2>1 DEF Serving
    <3>2. QED
      BY <1>2, <1>5, <3>1 DEF TableOwned, Serving
  <2>4. QED
    BY <2>2, <2>3
<1>6. QED
  BY <1>3, <1>4, <1>5 DEF GatewayInv, AccessInv

\* Before the session inside has loaded its rules there is no access.
LEMMA NoAccessYet ==
  ASSUME NEW a, GatewayInv(a), NEW p \in Gateway!Sessions, a.pc[p] \in Held \ Serving,
         ~a.orphaned, ~a.refused, ~a.killed
  PROVE  ~a.table /\ (a.states => ~a.user_ip)
<1>1. LockInv(a) /\ TableOwned(a)
  BY DEF GatewayInv, AccessInv
<1>2. \A q \in Gateway!Sessions : a.pc[q] \in Serving => FALSE
  <2> SUFFICES ASSUME NEW q \in Gateway!Sessions, a.pc[q] \in Serving PROVE FALSE
    OBVIOUS
  <2>1. a.pc[q] \in Held
    BY DEF Held, Serving
  <2>2. p = q
    BY <1>1, <2>1, OneInside
  <2>3. QED
    BY <2>2
<1>3. QED
  BY <1>1, <1>2 DEF TableOwned, Serving

LEMMA PurgedOk ==
  ASSUME NEW a, GatewayInv(a), NEW p \in Gateway!Sessions, a.pc[p] = "stale",
         NEW r \in Gateway!remove_stale_rulesets(a, p)
  PROVE  GatewayInv(r.a) /\ r.a.pc = a.pc
<1> DEFINE e == r.a
<1>1. FilesTyped(a) /\ LockInv(a) /\ AccessInv(a)
  BY DEF GatewayInv, LockInv
<1>2. /\ SameFiles(a, e) /\ e.pc = a.pc
      /\ e.user_ip = a.user_ip /\ e.table = a.table /\ e.states = a.states
      /\ e.refused = a.refused /\ e.killed = a.killed
      /\ e.rulesets \subseteq a.rulesets
  BY <1>1, PurgeEffect
<1> HIDE DEF e
<1>3. LockInv(e)
  BY <1>1, <1>2, SameOk
<1>4. TableByAddress(e)
  BY <1>1, <1>2 DEF AccessInv, TableByAddress, SameFiles
<1>5. ASSUME ~e.orphaned, ~e.refused PROVE RulesOwned(e) /\ TableOwned(e)
  <2>1. ~a.orphaned /\ RulesOwned(a) /\ TableOwned(a)
    BY <1>1, <1>2, <1>5 DEF AccessInv, SameFiles
  <2>2. \A q \in Gateway!Sessions : a.pc[q] \notin Serving \cup {"mark", "filter"}
    <3> SUFFICES ASSUME NEW q \in Gateway!Sessions, a.pc[q] \in Serving \cup {"mark", "filter"}
                 PROVE  FALSE
      OBVIOUS
    <3>1. a.pc[q] \in Held /\ a.pc[p] \in Held
      BY DEF Held, Serving
    <3>2. p = q
      BY <1>1, <2>1, <3>1, OneInside
    <3>3. QED
      BY <3>2 DEF Serving
  <2>3. RulesOwned(e)
    BY <1>2, <2>1, <2>2 DEF RulesOwned, Serving
  <2>4. TableOwned(e)
    BY <1>2, <2>1 DEF TableOwned
  <2>5. QED
    BY <2>3, <2>4
<1>6. GatewayInv(e)
  BY <1>3, <1>4, <1>5 DEF GatewayInv, AccessInv
<1>7. QED
  BY <1>2, <1>6 DEF e

LEMMA RemoveStaleOk ==
  ASSUME GatewayInv(authpf), NEW p \in Gateway!Sessions, Gateway!RemoveStale(p)
  PROVE  GatewayInv(authpf')
<1>1. /\ authpf.pc[p] = "stale" /\ authpf.pc[p] \in Held \ Serving /\ FilesTyped(authpf)
      /\ AccessInv(authpf)
  BY DEF Gateway!RemoveStale, Gateway!At, Held, Serving, GatewayInv, LockInv
<1>2. PICK r \in Gateway!remove_stale_rulesets(authpf, p) :
        authpf' = IF r.ret = 0 THEN [Gateway!Refused(r.a, p) EXCEPT !.pc[p] = "mark"] ELSE Gateway!DoDeath(r.a, p)
  BY DEF Gateway!RemoveStale
<1>3. CASE r.ret # 0
  <2>1. GatewayInv(r.a) /\ r.a.pc = authpf.pc
    BY <1>1, PurgedOk
  <2>2. QED
    BY <1>1, <1>2, <1>3, <2>1, DoDeathOk DEF Serving
<1>4. CASE r.ret = 0
  <2> DEFINE b == Gateway!Refused(r.a, p)
  <2>1. /\ SameFiles(authpf, b) /\ b.pc = authpf.pc /\ b.user_ip = authpf.user_ip
        /\ b.table = authpf.table /\ b.states = authpf.states /\ b.killed = authpf.killed
        /\ b.refused \in BOOLEAN /\ (authpf.refused => b.refused)
        /\ ~b.orphaned /\ ~b.refused => b.rulesets = {}
    BY <1>1, PurgeEmpties
  <2>2. authpf' = [b EXCEPT !.pc[p] = "mark"]
    BY <1>2, <1>4
  <2> HIDE DEF b
  <2>3. /\ Goes(authpf, authpf', p, "mark") /\ authpf'.user_ip = authpf.user_ip
        /\ authpf'.table = authpf.table /\ authpf'.states = authpf.states /\ authpf'.killed = authpf.killed
        /\ authpf'.refused = b.refused /\ authpf'.rulesets = b.rulesets /\ authpf'.orphaned = b.orphaned
    BY <2>1, <2>2 DEF GatewayFields, SameFiles, Goes
  <2>4. /\ authpf'.table \in BOOLEAN /\ authpf'.states \in BOOLEAN
        /\ authpf'.table => authpf'.user_ip
    BY <1>1, <2>3 DEF AccessInv, TableByAddress
  <2>5. ~authpf'.orphaned /\ ~authpf'.refused /\ ~authpf'.killed =>
          ~authpf'.table /\ (authpf'.states => ~authpf'.user_ip)
    BY <1>1, <2>1, <2>3, NoAccessYet DEF AccessInv, TableByAddress, SameFiles
  <2>6. "mark" \in Places /\ "mark" \notin {"table", "active", "untable", "states"}
    BY DEF Places
  <2>7. QED
    BY <1>1, <2>1, <2>3, <2>4, <2>5, <2>6, OwnsOk
<1>5. QED
  BY <1>3, <1>4

LEMMA MarkPidOk ==
  ASSUME GatewayInv(authpf), NEW p \in Gateway!Sessions, Gateway!MarkPid(p)
  PROVE  GatewayInv(authpf')
<1>1. /\ authpf.pc[p] = "mark" /\ authpf.pc[p] \in Held \ Serving /\ FilesTyped(authpf)
      /\ AccessInv(authpf)
  BY DEF Gateway!MarkPid, Gateway!At, Held, Serving, GatewayInv, LockInv
<1>2. Goes(authpf, authpf', p, "filter") /\ SameFilter(authpf, authpf')
  BY <1>1 DEF Gateway!MarkPid, FilesTyped, GatewayFields, SameFiles, SameFilter, Goes
<1>3. ~authpf'.orphaned /\ ~authpf'.refused => authpf'.rulesets = {}
  BY <1>1, <1>2 DEF AccessInv, RulesOwned, SameFilter, Goes, SameFiles
<1>4. ~authpf'.orphaned /\ ~authpf'.refused /\ ~authpf'.killed =>
        ~authpf'.table /\ (authpf'.states => ~authpf'.user_ip)
  BY <1>1, <1>2, NoAccessYet DEF SameFilter, Goes, SameFiles
<1>5. /\ authpf'.table \in BOOLEAN /\ authpf'.states \in BOOLEAN /\ authpf'.refused \in BOOLEAN
      /\ authpf'.table => authpf'.user_ip
  BY <1>1, <1>2 DEF AccessInv, TableByAddress, SameFilter
<1>6. "filter" \in Places /\ "filter" \notin {"table", "active", "untable", "states"}
  BY DEF Places
<1>7. QED
  BY <1>1, <1>2, <1>3, <1>4, <1>5, <1>6, OwnsOk DEF SameFilter

LEMMA AddFilterOk ==
  ASSUME GatewayInv(authpf), NEW p \in Gateway!Sessions, Gateway!AddFilter(p)
  PROVE  GatewayInv(authpf')
<1> DEFINE to == IF authpf.user_ip THEN "table" ELSE "active"
<1>1. /\ authpf.pc[p] = "filter" /\ authpf.pc[p] \in Held \ Serving /\ FilesTyped(authpf)
      /\ AccessInv(authpf)
  BY DEF Gateway!AddFilter, Gateway!At, Held, Serving, GatewayInv, LockInv
<1>2. CASE authpf' = Gateway!Fault(Gateway!DoDeath(authpf, p))
  BY <1>1, <1>2, DoDeathOk, FaultOk DEF Serving
<1>3. CASE authpf' = [authpf EXCEPT !.rulesets = @ \cup {p}, !.pc[p] = to]
  <2>1. /\ Goes(authpf, authpf', p, to) /\ authpf'.rulesets = authpf.rulesets \cup {p}
        /\ authpf'.user_ip = authpf.user_ip /\ authpf'.table = authpf.table /\ authpf'.states = authpf.states
        /\ authpf'.refused = authpf.refused /\ authpf'.killed = authpf.killed
    BY <1>1, <1>3 DEF FilesTyped, GatewayFields, SameFiles, Goes
  <2>2. ~authpf'.orphaned /\ ~authpf'.refused => authpf'.rulesets = {p}
    BY <1>1, <2>1 DEF AccessInv, RulesOwned, Goes, SameFiles
  <2>3. ~authpf'.orphaned /\ ~authpf'.refused /\ ~authpf'.killed =>
          ~authpf'.table /\ (authpf'.states => ~authpf'.user_ip)
    BY <1>1, <2>1, NoAccessYet DEF Goes, SameFiles
  <2>4. /\ authpf'.table \in BOOLEAN /\ authpf'.states \in BOOLEAN /\ authpf'.refused \in BOOLEAN
        /\ authpf'.table => authpf'.user_ip /\ authpf'.user_ip \in BOOLEAN
        /\ authpf.user_ip \in BOOLEAN
    BY <1>1, <2>1 DEF AccessInv, TableByAddress
  <2>5. to \in Places /\ (to = "table" \/ to = "active") /\ (to \in {"table", "untable", "states"} => authpf'.user_ip)
    BY <2>1 DEF Places
  <2>t. to = "active" => ~authpf'.user_ip /\ ~authpf'.table
    BY <2>1, <2>4
  <2> HIDE DEF to
  <2>6. ~authpf'.orphaned /\ ~authpf'.refused =>
          /\ authpf'.rulesets = IF to \in {"table", "active"} THEN {p} ELSE {}
          /\ to = "active" => authpf'.table = authpf'.user_ip
          /\ authpf'.table /\ ~authpf'.killed => to \in {"active", "untable"}
          /\ authpf'.states /\ authpf'.user_ip /\ ~authpf'.killed => to \in Serving
    BY <2>1, <2>2, <2>3, <2>4, <2>5, <2>t
  <2>7. QED
    BY <1>1, <2>1, <2>4, <2>5, <2>6, OwnsOk
<1>4. CASE authpf' = [Gateway!Fault(Gateway!DoDeath(authpf, p)) EXCEPT !.rulesets = @ \cup {p}, !.refused = TRUE]
  <2> DEFINE f == Gateway!Fault(Gateway!DoDeath(authpf, p))
  <2>1. GatewayInv(f)
    BY <1>1, DoDeathOk, FaultOk DEF Serving
  <2> HIDE DEF f
  <2>2. LockInv(f) /\ DOMAIN f = GatewayFields /\ AccessInv(f)
    BY <2>1 DEF GatewayInv, LockInv, FilesTyped
  <2>3. /\ SameFiles(f, authpf') /\ authpf'.pc = f.pc /\ authpf'.refused = TRUE
        /\ authpf'.user_ip = f.user_ip /\ authpf'.table = f.table
        /\ authpf'.states = f.states /\ authpf'.killed = f.killed
    BY <1>4, <2>2 DEF f, GatewayFields, SameFiles
  <2>4. LockInv(authpf')
    BY <2>2, <2>3, SameOk
  <2>5. AccessInv(authpf')
    BY <2>2, <2>3 DEF AccessInv, TableByAddress, SameFiles
  <2>6. QED
    BY <2>4, <2>5 DEF GatewayInv
<1>5. QED
  BY <1>2, <1>3, <1>4 DEF Gateway!AddFilter

\* A session inside that leaves has a file to unlink.
LEMMA LeavesInside ==
  ASSUME NEW a, LockInv(a), NEW p \in Gateway!Sessions, a.pc[p] \in Held
  PROVE  Gateway!DoDeath(a, p) = [a EXCEPT !.pc[p] = "unlink"]
BY NoneIsNobody DEF LockInv, HoldsLock, Gateway!DoDeath

\* The rules are removed by the session inside, which goes on to "to".
LEMMA FilterRemoved ==
  ASSUME NEW a, GatewayInv(a), NEW p \in Gateway!Sessions, a.pc[p] \in Held,
         NEW b \in Gateway!RemoveFilter(a, p)
  PROVE  /\ SameFiles(a, b) /\ b.pc = a.pc /\ b.user_ip = a.user_ip
         /\ b.table = a.table /\ b.states = a.states /\ b.killed = a.killed
         /\ b.refused \in BOOLEAN /\ (a.refused => b.refused)
         /\ ~b.orphaned /\ ~b.refused => b.rulesets = {}
BY PurgeEmpties DEF Gateway!RemoveFilter

LEMMA AddTableOk ==
  ASSUME GatewayInv(authpf), NEW p \in Gateway!Sessions, Gateway!AddTable(p)
  PROVE  GatewayInv(authpf')
<1>1. /\ authpf.pc[p] = "table" /\ authpf.pc[p] \in Held /\ FilesTyped(authpf) /\ LockInv(authpf)
      /\ AccessInv(authpf) /\ authpf.user_ip = TRUE
  BY DEF Gateway!AddTable, Gateway!At, Held, GatewayInv, LockInv, AccessInv, TableByAddress
<1>2. CASE authpf' = [authpf EXCEPT !.table = TRUE, !.pc[p] = "active"]
  <2>1. /\ Goes(authpf, authpf', p, "active") /\ authpf'.rulesets = authpf.rulesets
        /\ authpf'.user_ip = TRUE /\ authpf'.table = TRUE /\ authpf'.states = authpf.states
        /\ authpf'.refused = authpf.refused /\ authpf'.killed = authpf.killed
    BY <1>1, <1>2 DEF FilesTyped, GatewayFields, SameFiles, Goes
  <2>2. ~authpf'.orphaned /\ ~authpf'.refused => authpf'.rulesets = {p}
    BY <1>1, <2>1 DEF AccessInv, RulesOwned, Goes, SameFiles
  <2>3. authpf'.states \in BOOLEAN /\ authpf'.refused \in BOOLEAN
    BY <1>1, <2>1 DEF AccessInv, TableByAddress
  <2>4. "active" \in Places /\ "active" \in Serving
    BY DEF Places, Serving
  <2>5. QED
    BY <1>1, <2>1, <2>2, <2>3, <2>4, OwnsOk
<1>3. ASSUME NEW a \in Gateway!RemoveFilter(Gateway!Fault(authpf), p),
             authpf' = Gateway!DoDeath([a EXCEPT !.refused = @ \/ a.states], p)
      PROVE  GatewayInv(authpf')
  <2> DEFINE f == Gateway!Fault(authpf)
             b == [a EXCEPT !.refused = @ \/ a.states]
  <2>1. GatewayInv(f) /\ f.pc = authpf.pc /\ Same(authpf, f)
    BY <1>1, FaultOk, FaultSame
  <2>2. a \in Gateway!RemoveFilter(f, p)
    BY <1>3
  <2> HIDE DEF f
  <2>3. /\ SameFiles(f, a) /\ a.pc = f.pc /\ a.user_ip = f.user_ip
        /\ a.table = f.table /\ a.states = f.states /\ a.killed = f.killed
        /\ a.refused \in BOOLEAN /\ (f.refused => a.refused)
        /\ ~a.orphaned /\ ~a.refused => a.rulesets = {}
    BY <1>1, <2>1, <2>2, FilterRemoved
  <2>4. /\ SameFiles(authpf, a) /\ a.pc = authpf.pc /\ a.user_ip = authpf.user_ip
        /\ a.table = authpf.table /\ a.states = authpf.states /\ a.killed = authpf.killed
        /\ (authpf.refused => a.refused)
    BY <2>1, <2>3 DEF Same, SameFiles, SameFilter
  <2>t. a.table \in BOOLEAN /\ a.states \in BOOLEAN
    BY <1>1, <2>4 DEF AccessInv, TableByAddress
  <2>5. /\ SameFiles(authpf, b) /\ b.pc = authpf.pc /\ b.user_ip = authpf.user_ip
        /\ b.table = authpf.table /\ b.states = authpf.states /\ b.killed = authpf.killed
        /\ b.refused = (a.refused \/ a.states) /\ b.rulesets = a.rulesets /\ b.orphaned = a.orphaned
    BY <2>4 DEF GatewayFields, SameFiles
  <2> HIDE DEF b
  <2>6. LockInv(b)
    BY <1>1, <2>5, SameOk
  <2>7. authpf' = [b EXCEPT !.pc[p] = "unlink"]
    BY <1>1, <1>3, <2>5, <2>6, LeavesInside DEF b
  <2>8. /\ Goes(authpf, authpf', p, "unlink") /\ authpf'.rulesets = a.rulesets
        /\ authpf'.user_ip = authpf.user_ip /\ authpf'.table = authpf.table /\ authpf'.states = authpf.states
        /\ authpf'.refused = (a.refused \/ a.states) /\ authpf'.killed = authpf.killed
        /\ authpf'.orphaned = a.orphaned
    BY <2>5, <2>7 DEF GatewayFields, SameFiles, Goes
  <2>9. ~authpf'.orphaned /\ ~authpf'.refused => authpf'.rulesets = {} /\ ~authpf'.states
    BY <2>3, <2>4, <2>8
  <2>10. ASSUME ~authpf'.orphaned, ~authpf'.refused, ~authpf'.killed PROVE ~authpf'.table
    <3>1. ~authpf.orphaned /\ ~authpf.refused /\ ~authpf.killed /\ TableOwned(authpf)
      BY <1>1, <2>3, <2>4, <2>8, <2>10 DEF SameFiles, AccessInv, TableByAddress
    <3>2. ASSUME authpf.table PROVE FALSE
      <4>1. PICK q \in Gateway!Sessions : authpf.pc[q] \in {"active", "untable"}
        BY <3>1, <3>2 DEF TableOwned
      <4>2. authpf.pc[q] \in Held
        BY <4>1 DEF Held
      <4>3. p = q
        BY <1>1, <3>1, <4>2, OneInside
      <4>4. QED
        BY <1>1, <4>1, <4>3
    <3>3. QED
      BY <2>8, <3>2
  <2>11. /\ authpf'.table \in BOOLEAN /\ authpf'.states \in BOOLEAN /\ authpf'.refused \in BOOLEAN
         /\ authpf.refused => authpf'.refused
    BY <1>1, <2>3, <2>4, <2>t, <2>8 DEF AccessInv, TableByAddress
  <2>12. "unlink" \in Places /\ "unlink" \notin {"table", "active", "untable", "states"}
    BY DEF Places
  <2>13. QED
    BY <1>1, <2>8, <2>9, <2>10, <2>11, <2>12, OwnsOk
<1>4. CASE authpf' = [Gateway!Fault(authpf) EXCEPT !.refused = TRUE, !.pc[p] = "active"]
  <2> DEFINE f == Gateway!Fault(authpf)
  <2>1. Same(authpf, f)
    BY <1>1, FaultSame
  <2> HIDE DEF f
  <2>2. /\ Goes(authpf, authpf', p, "active") /\ authpf'.user_ip = TRUE /\ authpf'.table = authpf.table
        /\ authpf'.states = authpf.states /\ authpf'.refused = TRUE /\ authpf'.killed = authpf.killed
    BY <1>1, <1>4, <2>1 DEF f, GatewayFields, Same, SameFiles, SameFilter, Goes
  <2>3. authpf'.table \in BOOLEAN /\ authpf'.states \in BOOLEAN /\ authpf'.refused \in BOOLEAN
    BY <1>1, <2>2 DEF AccessInv, TableByAddress
  <2>4. "active" \in Places
    BY DEF Places
  <2>5. QED
    BY <1>1, <2>2, <2>3, <2>4, OwnsOk
<1>5. QED
  BY <1>2, <1>3, <1>4 DEF Gateway!AddTable

LEMMA WakesOk ==
  ASSUME GatewayInv(authpf), NEW p \in Gateway!Sessions, Gateway!Wakes(p)
  PROVE  GatewayInv(authpf')
<1> DEFINE to == IF authpf.user_ip THEN "untable" ELSE "unlink"
<1>1. /\ authpf.pc[p] = "active" /\ authpf.pc[p] \in Held /\ FilesTyped(authpf) /\ AccessInv(authpf)
  BY DEF Gateway!Wakes, Gateway!At, Held, GatewayInv, LockInv
<1>2. PICK a \in Gateway!RemoveFilter(authpf, p) :
        authpf' = [a EXCEPT !.pc[p] = IF a.user_ip THEN "untable" ELSE "unlink"]
  BY DEF Gateway!Wakes
<1>3. /\ SameFiles(authpf, a) /\ a.pc = authpf.pc /\ a.user_ip = authpf.user_ip
      /\ a.table = authpf.table /\ a.states = authpf.states /\ a.killed = authpf.killed
      /\ a.refused \in BOOLEAN /\ (authpf.refused => a.refused)
      /\ ~a.orphaned /\ ~a.refused => a.rulesets = {}
  BY <1>1, FilterRemoved
<1>4. /\ Goes(authpf, authpf', p, to) /\ authpf'.rulesets = a.rulesets
      /\ authpf'.user_ip = authpf.user_ip /\ authpf'.table = authpf.table /\ authpf'.states = authpf.states
      /\ authpf'.refused = a.refused /\ authpf'.killed = authpf.killed /\ authpf'.orphaned = a.orphaned
  BY <1>2, <1>3 DEF GatewayFields, SameFiles, Goes
<1>5. /\ authpf'.table \in BOOLEAN /\ authpf'.states \in BOOLEAN /\ authpf'.user_ip \in BOOLEAN
      /\ authpf'.table => authpf'.user_ip
  BY <1>1, <1>4 DEF AccessInv, TableByAddress
<1>6. to \in Places /\ to \notin {"table", "active"} /\ (to \in {"table", "untable", "states"} => authpf'.user_ip)
  BY <1>4 DEF Places
<1>7. authpf'.table \/ authpf'.user_ip => to = "untable"
  BY <1>4, <1>5
<1> HIDE DEF to
<1>8. ~authpf'.orphaned /\ ~authpf'.refused =>
        /\ authpf'.rulesets = {}
        /\ authpf'.table /\ ~authpf'.killed => to \in {"active", "untable"}
        /\ authpf'.states /\ authpf'.user_ip /\ ~authpf'.killed => to \in Serving
  BY <1>3, <1>4, <1>7 DEF Serving
<1>9. QED
  BY <1>1, <1>3, <1>4, <1>5, <1>6, <1>8, OwnsOk

\* A step of the end of a session, between the rules and the pid file.
LEMMA EndsOk ==
  ASSUME GatewayInv(authpf), NEW p \in Gateway!Sessions, authpf.pc[p] \in {"untable", "states"},
         NEW to \in {"states", "unlink"}, Goes(authpf, authpf', p, to),
         authpf'.user_ip = authpf.user_ip, authpf'.rulesets = authpf.rulesets, authpf'.killed = authpf.killed,
         authpf'.table \in BOOLEAN, authpf'.states \in BOOLEAN, authpf'.refused \in BOOLEAN,
         authpf.refused => authpf'.refused,
         ~authpf'.orphaned /\ ~authpf'.refused /\ ~authpf'.killed =>
           ~authpf'.table /\ (authpf'.states => to = "states")
  PROVE  GatewayInv(authpf')
<1>1. authpf.pc[p] \in Held /\ AccessInv(authpf) /\ authpf.user_ip = TRUE
  BY DEF Held, GatewayInv, AccessInv, TableByAddress
<1>2. ~authpf'.orphaned /\ ~authpf'.refused => authpf'.rulesets = {}
  BY <1>1 DEF AccessInv, TableByAddress, RulesOwned, Goes, SameFiles
<1>3. to \in Places /\ to \notin {"table", "active"} /\ (to = "states" => to \in Serving)
  BY DEF Places, Serving
<1>4. QED
  BY <1>1, <1>2, <1>3, OwnsOk

\* Once the session inside has left the table, nobody has it.
LEMMA RemoveTableOk ==
  ASSUME GatewayInv(authpf), NEW p \in Gateway!Sessions, Gateway!RemoveTable(p)
  PROVE  GatewayInv(authpf')
<1>1. /\ authpf.pc[p] = "untable" /\ FilesTyped(authpf) /\ TableByAddress(authpf)
  BY DEF Gateway!RemoveTable, Gateway!At, GatewayInv, LockInv, AccessInv
<1>2. /\ Goes(authpf, authpf', p, "states") /\ authpf'.rulesets = authpf.rulesets
      /\ authpf'.user_ip = authpf.user_ip /\ authpf'.killed = authpf.killed
      /\ authpf'.states = authpf.states
      /\ \/ authpf'.table = FALSE /\ authpf'.refused = authpf.refused
         \/ authpf'.table = authpf.table /\ authpf'.refused = TRUE
  <2>1. CASE authpf' = [authpf EXCEPT !.table = FALSE, !.pc[p] = "states"]
    BY <1>1, <2>1 DEF FilesTyped, GatewayFields, SameFiles, Goes
  <2>2. CASE authpf' = [Gateway!Fault(authpf) EXCEPT !.refused = TRUE, !.pc[p] = "states"]
    <3> DEFINE f == Gateway!Fault(authpf)
    <3>1. Same(authpf, f)
      BY <1>1, FaultSame
    <3> HIDE DEF f
    <3>2. QED
      BY <2>2, <3>1 DEF f, GatewayFields, Same, SameFiles, SameFilter, Goes
  <2>3. QED
    BY <2>1, <2>2 DEF Gateway!RemoveTable
<1>3. /\ authpf'.table \in BOOLEAN /\ authpf'.states \in BOOLEAN /\ authpf'.refused \in BOOLEAN
      /\ authpf.refused => authpf'.refused
      /\ ~authpf'.refused => ~authpf'.table
  BY <1>1, <1>2 DEF TableByAddress
<1>4. QED
  BY <1>1, <1>2, <1>3, EndsOk

LEMMA KillStatesOk ==
  ASSUME GatewayInv(authpf), NEW p \in Gateway!Sessions, Gateway!KillStates(p)
  PROVE  GatewayInv(authpf')
<1>1. /\ authpf.pc[p] = "states" /\ FilesTyped(authpf) /\ LockInv(authpf) /\ AccessInv(authpf)
      /\ TableByAddress(authpf) /\ authpf.pc[p] \in Held
  BY DEF Gateway!KillStates, Gateway!At, GatewayInv, LockInv, AccessInv, Held
<1>2. /\ Goes(authpf, authpf', p, "unlink") /\ authpf'.rulesets = authpf.rulesets
      /\ authpf'.user_ip = authpf.user_ip /\ authpf'.killed = authpf.killed
      /\ authpf'.table = authpf.table
      /\ \/ authpf'.states = FALSE /\ authpf'.refused = authpf.refused
         \/ authpf'.states = authpf.states /\ authpf'.refused = TRUE
  <2>1. CASE authpf' = [authpf EXCEPT !.states = FALSE, !.pc[p] = "unlink"]
    BY <1>1, <2>1 DEF FilesTyped, GatewayFields, SameFiles, Goes
  <2>2. CASE authpf' = [Gateway!Fault(authpf) EXCEPT !.refused = TRUE, !.pc[p] = "unlink"]
    <3> DEFINE f == Gateway!Fault(authpf)
    <3>1. Same(authpf, f)
      BY <1>1, FaultSame
    <3> HIDE DEF f
    <3>2. QED
      BY <2>2, <3>1 DEF f, GatewayFields, Same, SameFiles, SameFilter, Goes
  <2>3. QED
    BY <2>1, <2>2 DEF Gateway!KillStates
<1>3. ASSUME ~authpf.orphaned, ~authpf.refused, ~authpf.killed, authpf.table PROVE FALSE
  <2>1. PICK q \in Gateway!Sessions : authpf.pc[q] \in {"active", "untable"}
    BY <1>1, <1>3 DEF AccessInv, TableOwned
  <2>2. authpf.pc[q] \in Held
    BY <2>1 DEF Held
  <2>3. p = q
    BY <1>1, <1>3, <2>2, OneInside
  <2>4. QED
    BY <1>1, <2>1, <2>3
<1>4. /\ authpf'.table \in BOOLEAN /\ authpf'.states \in BOOLEAN /\ authpf'.refused \in BOOLEAN
      /\ authpf.refused => authpf'.refused
      /\ authpf'.orphaned = authpf.orphaned
      /\ ~authpf'.refused => ~authpf'.states
  BY <1>1, <1>2 DEF TableByAddress, Goes, SameFiles
<1>5. QED
  BY <1>1, <1>2, <1>3, <1>4, EndsOk

LEMMA GatewayStarts ==
  ASSUME Gateway!AuthpfInit
  PROVE  GatewayInv(authpf)
<1>1. /\ DOMAIN authpf = GatewayFields /\ authpf.user_ip \in BOOLEAN
      /\ authpf.pc = [p \in Gateway!Sessions |-> "start"]
      /\ authpf.pidfd = [p \in Gateway!Sessions |-> Gateway!None]
      /\ authpf.flock = [i \in Gateway!Inodes |-> Gateway!None] /\ authpf.pidfile = Gateway!None
      /\ authpf.rulesets = {} /\ authpf.table = FALSE /\ authpf.states = FALSE
      /\ authpf.orphaned = FALSE /\ authpf.refused = FALSE /\ authpf.killed = FALSE
  BY DEF Gateway!AuthpfInit, GatewayFields
<1>2. \A p \in Gateway!Sessions : authpf.pc[p] = "start"
  BY <1>1
<1>3. LockInv(authpf)
  BY <1>1, <1>2 DEF LockInv, FilesTyped, HoldsLock, HoldsNamed, Places, Held
<1>4. AccessInv(authpf)
  BY <1>1, <1>2 DEF AccessInv, TableByAddress, RulesOwned, TableOwned
<1>5. QED
  BY <1>3, <1>4 DEF GatewayInv

LEMMA GatewaySteps ==
  ASSUME GatewayInv(authpf), Gateway!AuthpfNext
  PROVE  GatewayInv(authpf')
<1>1. CASE Gateway!Traffic
  BY <1>1, TrafficOk
<1>2. ASSUME NEW p \in Gateway!Sessions,
             \/ Gateway!Start(p) \/ Gateway!OpenPidfile(p) \/ Gateway!Flock(p) \/ Gateway!KillOther(p)
             \/ Gateway!Reopen(p) \/ Gateway!Dogdeath(p) \/ Gateway!CheckUser(p)
      PROVE  GatewayInv(authpf')
  BY <1>2, StartOk, OpenPidfileOk, FlockOk, KillOtherOk, ReopenOk, DogdeathOk, CheckUserOk
<1>3. ASSUME NEW p \in Gateway!Sessions,
             \/ Gateway!RemoveStale(p) \/ Gateway!MarkPid(p) \/ Gateway!AddFilter(p) \/ Gateway!AddTable(p)
             \/ Gateway!Wakes(p) \/ Gateway!RemoveTable(p) \/ Gateway!KillStates(p)
      PROVE  GatewayInv(authpf')
  BY <1>3, RemoveStaleOk, MarkPidOk, AddFilterOk, AddTableOk, WakesOk, RemoveTableOk, KillStatesOk
<1>4. ASSUME NEW p \in Gateway!Sessions,
             \/ Gateway!UnlinkPidfile(p) \/ Gateway!ExitProcess(p) \/ Gateway!Hangup(p) \/ Gateway!Kill(p)
      PROVE  GatewayInv(authpf')
  BY <1>4, UnlinkPidfileOk, ExitProcessOk, HangupOk, KillOk
<1>5. QED
  BY <1>1, <1>2, <1>3, <1>4 DEF Gateway!AuthpfNext

(***************************************************************************)
(* A session that tells its user that he is authenticated has the access   *)
(* of the address, with no rules of another session in it, and when no     *)
(* session is inside there is no access: for any number of sessions that   *)
(* wait for, take over, unlink or lose the pid file, whatever fails        *)
(* (authpf.c, main, do_death and what they call).                          *)
(***************************************************************************)
THEOREM AccessHasAnOwner == Spec => []AccessIsOwned
<1> DEFINE Inv == Runs(authpf) => GatewayInv(authpf)
<1>1. Init => Inv
  BY GatewayStarts DEF Init, Runs
<1>2. ASSUME Inv, [Next]_vars PROVE Inv'
  <2>1. CASE GatewayRuns
    BY <1>2, <2>1, GatewaySteps DEF GatewayRuns
  <2>2. CASE UNCHANGED authpf
    BY <1>2, <2>2 DEF Runs
  <2>3. QED
    BY <1>2, <2>1, <2>2
       DEF Next, OverRuns, ListeningRuns, ClientRuns, BlockingClientRuns, ProbeRuns, InstallerRuns, vars
<1>3. Inv => AccessIsOwned
  <2> SUFFICES ASSUME GatewayInv(authpf), ~authpf.orphaned, ~authpf.refused
               PROVE  /\ \A p \in Gateway!Sessions : authpf.pc[p] = "active" =>
                            authpf.rulesets = {p} /\ authpf.table = authpf.user_ip
                      /\ (authpf.table \/ authpf.rulesets # {} \/ (authpf.states /\ authpf.user_ip))
                           /\ ~authpf.killed =>
                            \E p \in Gateway!Sessions : authpf.pc[p] \in {"table", "active", "untable", "states"}
    BY DEF AccessIsOwned, Gateway!AccessIsOwned, Gateway!At
  <2>1. RulesOwned(authpf) /\ TableOwned(authpf)
    BY DEF GatewayInv, AccessInv
  <2>2. \A p \in Gateway!Sessions : authpf.pc[p] = "active" =>
          authpf.rulesets = {p} /\ authpf.table = authpf.user_ip
    BY <2>1 DEF RulesOwned, TableOwned
  <2>3. authpf.rulesets # {} /\ ~authpf.killed =>
          \E p \in Gateway!Sessions : authpf.pc[p] \in {"table", "active"}
    BY <2>1 DEF RulesOwned
  <2>4. QED
    BY <2>1, <2>2, <2>3 DEF TableOwned
<1>4. QED
  BY <1>1, <1>2, <1>3, PTL DEF Spec

-----------------------------------------------------------------------------
(***************************************************************************)
(* The accepts of the completion-port server (IocpAccepts).  An accept     *)
(* that has completed is in the hands of one worker.  OutstandingOps, with *)
(* the accept that main has posted and not counted, is the accepts that    *)
(* are out and the workers that are about to lower it.                     *)
(***************************************************************************)
AcceptFields == {"main", "i", "op", "sclient", "sockets", "OutstandingOps", "SockCritSec", "freed", "at", "slot",
                 "clients", "faults", "early", "disturbed", "ub"}

OpStates == {"none", "unused", "pending", "ok", "error", "taken", "lost", "freed"}
SocketStates == {"open", "silent", "old", "closed"}
Holding == {"drop", "enter", "associate", "repost"}
Handling == {"associate", "repost", "count", "leave"}
Doing == {"idle", "free"} \cup Holding \cup Handling

AcceptsTyped(a) ==
  /\ DOMAIN a = AcceptFields
  /\ a.main \in {"post", "count", "wait", "reap", "close", "ended"} /\ a.i \in Listening!Slots
  /\ a.op \in [Listening!Slots -> OpStates]
  /\ a.sclient \in [Listening!Slots -> Nat] /\ a.sockets \in Seq(SocketStates)
  /\ \A b \in Listening!Slots : a.sclient[b] <= Len(a.sockets)
  /\ a.OutstandingOps \in Int /\ a.SockCritSec \in Listening!Workers \cup {Listening!NoThread}
  /\ a.at \in [Listening!Workers -> Doing] /\ a.slot \in [Listening!Workers -> Listening!Slots \cup {Listening!NoSlot}]
  /\ a.freed \in BOOLEAN /\ a.early \in BOOLEAN /\ a.disturbed \in BOOLEAN /\ a.ub \in BOOLEAN

Holds(a, w, b) == a.at[w] \in Holding /\ a.slot[w] = b

Begun(a, b) == (a.main = "post" => b < a.i) /\ (a.main = "count" => b <= a.i)

Handled(a) ==
  /\ \A w \in Listening!Workers : a.at[w] \in Holding => a.slot[w] \in Listening!Slots /\ a.op[a.slot[w]] = "taken"
  /\ \A w, v \in Listening!Workers : a.at[w] \in Holding /\ Holds(a, v, a.slot[w]) => w = v
  /\ \A b \in Listening!Slots : a.op[b] = "taken" => \E w \in Listening!Workers : Holds(a, w, b)
  /\ \A b \in Listening!Slots : ~Begun(a, b) => a.op[b] = "none"

Out(a) == {b \in Listening!Slots : a.op[b] \in Listening!Counts}
Leaving(a) == {w \in Listening!Workers : a.at[w] = "leave"}
One(c) == IF c THEN 1 ELSE 0

Balance(a) ==
  ~a.freed => a.OutstandingOps = Cardinality(Out(a)) + Cardinality(Leaving(a)) - One(a.main = "count")

Ends(a) == a.freed /\ ~a.early => Out(a) = {} /\ a.main \notin {"post", "count"}

(***************************************************************************)
(* As long as nothing fails and no socket is closed: the pool is whole.    *)
(***************************************************************************)
InPool(a, b) ==
  /\ a.op[b] \in {"pending", "ok", "taken"}
  /\ a.sclient[b] # Listening!INVALID_SOCKET /\ a.sockets[a.sclient[b]] # "closed"
  /\ \A c \in Listening!Slots \ {b} : a.sclient[c] # a.sclient[b]

Steady(a) ==
  ~a.disturbed =>
    /\ ~a.ub /\ ~a.freed /\ a.main # "ended"
    /\ \A b \in Listening!Slots : Begun(a, b) => InPool(a, b)
    /\ \A w \in Listening!Workers :
         a.at[w] \notin {"drop", "free"} /\ (a.at[w] \in Handling <=> a.SockCritSec = w)

AcceptsInv(a) == AcceptsTyped(a) /\ Handled(a) /\ Balance(a) /\ Ends(a) /\ Steady(a)

LEMMA OneMoves ==
  ASSUME NEW S, IsFiniteSet(S), NEW T, NEW x, T \ {x} = S \ {x}
  PROVE  IsFiniteSet(T) /\ Cardinality(T) = Cardinality(S) + One(x \in T) - One(x \in S)
<1>1. CASE x \in S /\ x \in T
  <2>1. S = T
    BY <1>1
  <2>2. QED
    BY <1>1, <2>1, FS_CardinalityType DEF One
<1>2. CASE x \in S /\ x \notin T
  <2>1. T = S \ {x}
    BY <1>2
  <2>2. IsFiniteSet(T) /\ Cardinality(T) = Cardinality(S) - 1 /\ Cardinality(S) \in Nat
    BY <1>2, <2>1, FS_RemoveElement, FS_CardinalityType
  <2>3. QED
    BY <1>2, <2>2 DEF One
<1>3. CASE x \notin S /\ x \in T
  <2>1. T = S \cup {x}
    BY <1>3
  <2>2. QED
    BY <1>3, <2>1, FS_AddElement, FS_CardinalityType DEF One
<1>4. CASE x \notin S /\ x \notin T
  <2>1. S = T
    BY <1>4
  <2>2. QED
    BY <1>4, <2>1, FS_CardinalityType DEF One
<1>5. QED
  BY <1>1, <1>2, <1>3, <1>4

LEMMA AcceptSets ==
  ASSUME NEW a
  PROVE  /\ IsFiniteSet(Out(a)) /\ IsFiniteSet(Leaving(a))
         /\ Cardinality(Out(a)) \in Nat /\ Cardinality(Leaving(a)) \in Nat
         /\ gOverlappedCount \in Nat \ {0} /\ Listening!Slots = 1 .. gOverlappedCount
         /\ Listening!NoThread \notin Listening!Workers
<1>1. NThreads \in Nat /\ gOverlappedCount \in Nat \ {0}
  BY BoundsAssumption
<1>2. IsFiniteSet(Listening!Slots) /\ IsFiniteSet(Listening!Workers)
  BY <1>1, FS_Interval DEF Listening!Slots, Listening!Workers
<1>3. Out(a) \subseteq Listening!Slots /\ Leaving(a) \subseteq Listening!Workers
  BY DEF Out, Leaving
<1>4. IsFiniteSet(Out(a)) /\ IsFiniteSet(Leaving(a))
  BY <1>2, <1>3, FS_Subset
<1>5. QED
  BY <1>1, <1>4, FS_CardinalityType DEF Listening!Slots, Listening!Workers, Listening!NoThread

\* A step moves at most one accept and one worker, and the counter with them.
LEMMA BalanceOk ==
  ASSUME NEW a, Balance(a), NEW e, ~e.freed => ~a.freed,
         a.OutstandingOps \in Int,
         NEW b, NEW w, Out(e) \ {b} = Out(a) \ {b}, Leaving(e) \ {w} = Leaving(a) \ {w},
         e.OutstandingOps = a.OutstandingOps + One(b \in Out(e)) - One(b \in Out(a))
                              + One(w \in Leaving(e)) - One(w \in Leaving(a))
                              - One(e.main = "count") + One(a.main = "count")
  PROVE  Balance(e)
<1>1. Cardinality(Out(e)) = Cardinality(Out(a)) + One(b \in Out(e)) - One(b \in Out(a))
  BY AcceptSets, OneMoves
<1>2. Cardinality(Leaving(e)) = Cardinality(Leaving(a)) + One(w \in Leaving(e)) - One(w \in Leaving(a))
  BY AcceptSets, OneMoves
<1> DEFINE x == One(b \in Out(e))  x0 == One(b \in Out(a))
           y == One(w \in Leaving(e))  y0 == One(w \in Leaving(a))
           z == One(e.main = "count")  z0 == One(a.main = "count")
<1>3. {x, x0, y, y0, z, z0} \subseteq Int
  BY DEF One
<1>4. SUFFICES ASSUME ~e.freed
               PROVE  e.OutstandingOps = Cardinality(Out(e)) + Cardinality(Leaving(e)) - z
  BY DEF Balance
<1>5. a.OutstandingOps = Cardinality(Out(a)) + Cardinality(Leaving(a)) - z0
  BY <1>4 DEF Balance
<1>6. e.OutstandingOps = a.OutstandingOps + x - x0 + y - y0 - z + z0
  OBVIOUS
<1>7. Cardinality(Out(a)) \in Int /\ Cardinality(Leaving(a)) \in Int
  BY AcceptSets
<1> HIDE DEF x, x0, y, y0, z, z0
<1>8. QED
  BY <1>1, <1>2, <1>3, <1>5, <1>6, <1>7 DEF x, x0, y, y0

\* Nothing comes back once the object has been freed in time.
LEMMA StaysEnded ==
  ASSUME NEW a, Ends(a), NEW e, e.freed = a.freed, e.early = a.early,
         Out(a) = {} => Out(e) = {},
         e.main \in {"post", "count"} => a.main \in {"post", "count"}
  PROVE  Ends(e)
BY DEF Ends

(***************************************************************************)
(* What a step leaves alone.                                               *)
(***************************************************************************)
SameMain(a, e) == e.main = a.main /\ e.i = a.i
SamePool(a, e) == e.op = a.op /\ e.sclient = a.sclient /\ e.sockets = a.sockets
SameWorkers(a, e) == e.at = a.at /\ e.slot = a.slot /\ e.SockCritSec = a.SockCritSec
SameLife(a, e) == e.freed = a.freed /\ e.early = a.early

LEMMA TouchSame ==
  ASSUME NEW a, DOMAIN a = AcceptFields
  PROVE  LET e == Listening!Touch(a)
         IN /\ DOMAIN e = AcceptFields /\ SameMain(a, e) /\ SamePool(a, e) /\ SameWorkers(a, e)
            /\ SameLife(a, e) /\ e.OutstandingOps = a.OutstandingOps /\ e.disturbed = a.disturbed
            /\ e.ub = (a.ub \/ a.freed)
BY DEF AcceptFields, Listening!Touch, SameMain, SamePool, SameWorkers, SameLife

LEMMA SocketSteps ==
  ASSUME NEW s \in Seq(SocketStates), NEW v \in SocketStates
  PROVE  /\ Append(s, v) \in Seq(SocketStates) /\ Len(Append(s, v)) = Len(s) + 1
         /\ Append(s, v)[Len(s) + 1] = v
         /\ \A n \in 1 .. Len(s) : Append(s, v)[n] = s[n]
         /\ Len(s) \in Nat
         /\ \A n \in 1 .. Len(s) : /\ [s EXCEPT ![n] = v] \in Seq(SocketStates)
                                   /\ Len([s EXCEPT ![n] = v]) = Len(s)
                                   /\ \A m \in 1 .. Len(s) : [s EXCEPT ![n] = v][m] = IF m = n THEN v ELSE s[m]
OBVIOUS

LEMMA AcceptsStart ==
  ASSUME Listening!AcceptsInit
  PROVE  AcceptsInv(accepts)
<1>1. /\ DOMAIN accepts = AcceptFields /\ accepts.main = "post" /\ accepts.i = 1
      /\ accepts.op = [b \in Listening!Slots |-> "none"]
      /\ accepts.sclient = [b \in Listening!Slots |-> 0] /\ accepts.sockets = <<>>
      /\ accepts.OutstandingOps = 0 /\ accepts.SockCritSec = Listening!NoThread
      /\ accepts.at = [w \in Listening!Workers |-> "idle"]
      /\ accepts.slot = [w \in Listening!Workers |-> Listening!NoSlot]
      /\ accepts.freed = FALSE /\ accepts.early = FALSE /\ accepts.disturbed = FALSE /\ accepts.ub = FALSE
  BY DEF Listening!AcceptsInit, AcceptFields, Listening!INVALID_SOCKET
<1>2. AcceptsTyped(accepts)
  <2>1. accepts.sockets \in Seq(SocketStates) /\ Len(accepts.sockets) = 0
    BY <1>1
  <2>2. 1 \in Listening!Slots
    BY AcceptSets
  <2>3. "none" \in OpStates /\ "idle" \in Doing
    BY DEF OpStates, Doing
  <2>4. \A b \in Listening!Slots : accepts.sclient[b] <= Len(accepts.sockets)
    BY <1>1, <2>1
  <2>5. /\ accepts.op \in [Listening!Slots -> OpStates] /\ accepts.at \in [Listening!Workers -> Doing]
        /\ accepts.slot \in [Listening!Workers -> Listening!Slots \cup {Listening!NoSlot}]
        /\ accepts.sclient \in [Listening!Slots -> Nat]
    BY <1>1, <2>3
  <2>a. accepts.main \in {"post", "count", "wait", "reap", "close", "ended"} /\ accepts.i \in Listening!Slots
    BY <1>1, <2>2
  <2>b. accepts.OutstandingOps \in Int
    BY <1>1
  <2>c. accepts.SockCritSec \in Listening!Workers \cup {Listening!NoThread}
    BY <1>1
  <2>6. /\ accepts.main \in {"post", "count", "wait", "reap", "close", "ended"} /\ accepts.i \in Listening!Slots
        /\ accepts.OutstandingOps \in Int /\ accepts.SockCritSec \in Listening!Workers \cup {Listening!NoThread}
        /\ accepts.freed \in BOOLEAN /\ accepts.early \in BOOLEAN
        /\ accepts.disturbed \in BOOLEAN /\ accepts.ub \in BOOLEAN
    BY <1>1, <2>a, <2>b, <2>c
  <2>7. QED
    BY <1>1, <2>1, <2>4, <2>5, <2>6 DEF AcceptsTyped
<1>3. (\A b \in Listening!Slots : accepts.op[b] = "none") /\ (\A w \in Listening!Workers : accepts.at[w] = "idle")
  BY <1>1
<1>4. Handled(accepts)
  BY <1>1, <1>3 DEF Handled, Holding
<1>5. Out(accepts) = {} /\ Leaving(accepts) = {}
  BY <1>3 DEF Out, Leaving, Listening!Counts
<1>6. Balance(accepts) /\ Ends(accepts)
  BY <1>1, <1>5, FS_EmptySet DEF Balance, Ends, One
<1>7. \A b \in Listening!Slots : ~Begun(accepts, b)
  BY <1>1, AcceptSets DEF Begun
<1>8. Steady(accepts)
  BY <1>1, <1>3, <1>7, AcceptSets DEF Steady, Handling
<1>9. QED
  BY <1>2, <1>4, <1>6, <1>8 DEF AcceptsInv

(***************************************************************************)
(* main.                                                                   *)
(***************************************************************************)
LEMMA NextPostEffect ==
  ASSUME NEW a, DOMAIN a = AcceptFields, a.i \in Listening!Slots
  PROVE  LET e == Listening!NextPost(a)
         IN /\ DOMAIN e = AcceptFields /\ SamePool(a, e) /\ SameWorkers(a, e) /\ SameLife(a, e)
            /\ e.OutstandingOps = a.OutstandingOps /\ e.disturbed = a.disturbed /\ e.ub = a.ub
            /\ e.main \in {"post", "wait"} /\ e.i \in Listening!Slots
            /\ \A b \in Listening!Slots : Begun(e, b) <=> b <= a.i
<1> DEFINE e == Listening!NextPost(a)
<1>1. CASE a.i = gOverlappedCount
  <2>1. /\ DOMAIN e = AcceptFields /\ SamePool(a, e) /\ SameWorkers(a, e) /\ SameLife(a, e)
        /\ e.OutstandingOps = a.OutstandingOps /\ e.disturbed = a.disturbed /\ e.ub = a.ub
        /\ e.main = "wait" /\ e.i = a.i
    BY <1>1 DEF Listening!NextPost, AcceptFields, SamePool, SameWorkers, SameLife
  <2> HIDE DEF e
  <2>2. \A b \in Listening!Slots : Begun(e, b) /\ b <= a.i
    BY <1>1, <2>1, AcceptSets DEF Begun
  <2>3. QED
    BY <2>1, <2>2 DEF e
<1>2. CASE a.i # gOverlappedCount
  <2>1. /\ DOMAIN e = AcceptFields /\ SamePool(a, e) /\ SameWorkers(a, e) /\ SameLife(a, e)
        /\ e.OutstandingOps = a.OutstandingOps /\ e.disturbed = a.disturbed /\ e.ub = a.ub
        /\ e.main = "post" /\ e.i = a.i + 1
    BY <1>2 DEF Listening!NextPost, AcceptFields, SamePool, SameWorkers, SameLife
  <2> HIDE DEF e
  <2>2. e.i \in Listening!Slots
    BY <1>2, <2>1, AcceptSets
  <2>3. \A b \in Listening!Slots : Begun(e, b) <=> b <= a.i
    BY <1>2, <2>1, AcceptSets DEF Begun
  <2>4. QED
    BY <2>1, <2>2, <2>3 DEF e
<1>3. QED
  BY <1>1, <1>2

\* main goes on where it has posted the accepts.
LEMMA GoesRound ==
  ASSUME NEW a, AcceptsInv(a), NEW e, DOMAIN e = AcceptFields, SamePool(a, e), SameWorkers(a, e), SameLife(a, e),
         e.OutstandingOps = a.OutstandingOps, e.disturbed = a.disturbed, e.ub = a.ub,
         a.main \in {"wait", "reap", "close"}, e.main \in {"wait", "reap", "close"}, e.i \in Listening!Slots
  PROVE  AcceptsInv(e)
<1>1. AcceptsTyped(e)
  BY DEF AcceptsInv, AcceptsTyped, SamePool, SameWorkers, SameLife
<1>2. \A b \in Listening!Slots : Begun(e, b) /\ Begun(a, b)
  BY DEF Begun
<1>3. Handled(e)
  BY <1>2 DEF AcceptsInv, Handled, Holds, SamePool, SameWorkers
<1>4. Out(e) = Out(a) /\ Leaving(e) = Leaving(a)
  BY DEF Out, Leaving, SamePool, SameWorkers
<1>5. Balance(e) /\ Ends(e)
  BY <1>4 DEF AcceptsInv, Balance, Ends, SameLife, One
<1>6. Steady(e)
  BY <1>2 DEF AcceptsInv, Steady, InPool, SamePool, SameWorkers, SameLife
<1>7. QED
  BY <1>1, <1>3, <1>5, <1>6 DEF AcceptsInv

\* The end of the process, and of a behaviour that has used freed memory.
LEMMA Stops ==
  ASSUME NEW a, AcceptsInv(a), NEW e, DOMAIN e = AcceptFields, SamePool(a, e), SameWorkers(a, e), SameLife(a, e),
         e.OutstandingOps = a.OutstandingOps, e.disturbed = a.disturbed,
         a.disturbed, a.main \in {"reap", "close"}, e.main \in {"reap", "close", "ended"}, e.i = a.i, e.ub \in BOOLEAN
  PROVE  AcceptsInv(e)
<1>1. AcceptsTyped(e)
  BY DEF AcceptsInv, AcceptsTyped, SamePool, SameWorkers, SameLife
<1>2. \A b \in Listening!Slots : Begun(e, b) /\ Begun(a, b)
  BY DEF Begun
<1>3. Handled(e)
  BY <1>2 DEF AcceptsInv, Handled, Holds, SamePool, SameWorkers
<1>4. Out(e) = Out(a) /\ Leaving(e) = Leaving(a)
  BY DEF Out, Leaving, SamePool, SameWorkers
<1>5. Balance(e) /\ Ends(e)
  BY <1>4 DEF AcceptsInv, Balance, Ends, SameLife, One
<1>6. Steady(e)
  BY DEF Steady
<1>7. QED
  BY <1>1, <1>3, <1>5, <1>6 DEF AcceptsInv

LEMMA OneMinuteOk ==
  ASSUME AcceptsInv(accepts), Listening!OneMinute
  PROVE  AcceptsInv(accepts')
<1>1. /\ DOMAIN accepts' = AcceptFields /\ SamePool(accepts, accepts') /\ SameWorkers(accepts, accepts')
      /\ SameLife(accepts, accepts') /\ accepts'.OutstandingOps = accepts.OutstandingOps
      /\ accepts'.disturbed = accepts.disturbed /\ accepts'.ub = accepts.ub
      /\ accepts.main = "wait" /\ accepts'.main = "reap" /\ accepts'.i = 1
  BY DEF Listening!OneMinute, AcceptsInv, AcceptsTyped, AcceptFields, SamePool, SameWorkers, SameLife
<1>2. 1 \in Listening!Slots
  BY AcceptSets
<1>3. QED
  BY <1>1, <1>2, GoesRound

LEMMA NextSlotEffect ==
  ASSUME NEW a, DOMAIN a = AcceptFields, a.i \in Listening!Slots
  PROVE  LET e == Listening!NextSlot(a)
         IN /\ DOMAIN e = AcceptFields /\ SamePool(a, e) /\ SameWorkers(a, e) /\ SameLife(a, e)
            /\ e.OutstandingOps = a.OutstandingOps /\ e.disturbed = a.disturbed /\ e.ub = a.ub
            /\ e.main \in {"reap", "wait"} /\ e.i \in Listening!Slots
<1>1. CASE a.i = gOverlappedCount
  BY <1>1 DEF Listening!NextSlot, AcceptFields, SamePool, SameWorkers, SameLife
<1>2. CASE a.i # gOverlappedCount
  <2>1. a.i + 1 \in Listening!Slots
    BY <1>2, AcceptSets
  <2>2. QED
    BY <1>2, <2>1 DEF Listening!NextSlot, AcceptFields, SamePool, SameWorkers, SameLife
<1>3. QED
  BY <1>1, <1>2

\* In a pool that is whole main finds no freed buffer and no closed socket.
LEMMA PoolIsWhole ==
  ASSUME NEW a, AcceptsInv(a), ~a.disturbed, a.main \in {"reap", "close"}
  PROVE  a.op[a.i] # "freed" /\ ~a.freed /\ Listening!Socket(a, a.i) # "closed"
<1>1. a.i \in Listening!Slots /\ Begun(a, a.i)
  BY DEF AcceptsInv, AcceptsTyped, Begun
<1>2. QED
  BY <1>1 DEF AcceptsInv, Steady, InPool, Listening!Socket

LEMMA ReapOk ==
  ASSUME AcceptsInv(accepts), Listening!Reap
  PROVE  AcceptsInv(accepts')
<1> DEFINE b == accepts.i
<1>1. accepts.main = "reap" /\ DOMAIN accepts = AcceptFields /\ b \in Listening!Slots
  BY DEF Listening!Reap, AcceptsInv, AcceptsTyped
<1>2. CASE accepts' = [accepts EXCEPT !.ub = TRUE] /\ (accepts.op[b] = "freed" \/ accepts.freed)
  <2>1. accepts.disturbed
    BY <1>1, <1>2, PoolIsWhole DEF AcceptsInv, AcceptsTyped
  <2>2. QED
    BY <1>1, <1>2, <2>1, Stops DEF AcceptFields, SamePool, SameWorkers, SameLife
<1>3. CASE accepts' = [accepts EXCEPT !.main = "ended"] /\ Listening!Socket(accepts, b) = "closed"
  <2>1. accepts.disturbed
    BY <1>1, <1>3, PoolIsWhole
  <2>2. accepts.ub \in BOOLEAN
    BY DEF AcceptsInv, AcceptsTyped
  <2>3. QED
    BY <1>1, <1>3, <2>1, <2>2, Stops DEF AcceptFields, SamePool, SameWorkers, SameLife
<1>4. CASE accepts' = [accepts EXCEPT !.main = "close"]
  BY <1>1, <1>4, GoesRound DEF AcceptFields, SamePool, SameWorkers, SameLife
<1>5. CASE accepts' = Listening!NextSlot(accepts)
  BY <1>1, <1>5, NextSlotEffect, GoesRound
<1>6. QED
  BY <1>2, <1>3, <1>4, <1>5 DEF Listening!Reap

LEMMA CloseOldOk ==
  ASSUME AcceptsInv(accepts), Listening!CloseOld
  PROVE  AcceptsInv(accepts')
<1> DEFINE b == accepts.i
           s == accepts.sclient[b]
           closed == [accepts EXCEPT !.sockets[s] = "closed", !.disturbed = TRUE,
                                     !.op[b] = IF @ = "pending" THEN "error" ELSE @]
<1>1. /\ accepts.main = "close" /\ AcceptsTyped(accepts) /\ DOMAIN accepts = AcceptFields
      /\ b \in Listening!Slots /\ accepts.ub \in BOOLEAN
  BY DEF Listening!CloseOld, AcceptsInv, AcceptsTyped
<1>2. CASE accepts' = [accepts EXCEPT !.ub = TRUE] /\ (accepts.op[b] = "freed" \/ accepts.freed)
  <2>1. accepts.disturbed
    BY <1>1, <1>2, PoolIsWhole DEF AcceptsInv, AcceptsTyped
  <2>2. QED
    BY <1>1, <1>2, <2>1, Stops DEF AcceptFields, SamePool, SameWorkers, SameLife
<1>3. CASE accepts' = Listening!NextSlot(accepts)
  BY <1>1, <1>3, NextSlotEffect, GoesRound
<1>4. CASE accepts' = Listening!NextSlot(closed) /\ s # Listening!INVALID_SOCKET
  <2>1. /\ DOMAIN closed = AcceptFields /\ SameMain(accepts, closed) /\ SameWorkers(accepts, closed)
        /\ SameLife(accepts, closed) /\ closed.OutstandingOps = accepts.OutstandingOps
        /\ closed.disturbed = TRUE /\ closed.ub = accepts.ub /\ closed.sclient = accepts.sclient
        /\ closed.sockets = [accepts.sockets EXCEPT ![s] = "closed"]
        /\ closed.op = [accepts.op EXCEPT ![b] = IF @ = "pending" THEN "error" ELSE @]
    BY <1>1 DEF AcceptFields, SameMain, SameWorkers, SameLife
  <2> HIDE DEF closed
  <2>2. s \in 1 .. Len(accepts.sockets) /\ accepts.sockets \in Seq(SocketStates)
    <3>1. s \in Nat /\ s <= Len(accepts.sockets) /\ s # 0 /\ accepts.sockets \in Seq(SocketStates)
      BY <1>1, <1>4 DEF AcceptsTyped, Listening!INVALID_SOCKET
    <3>2. Len(accepts.sockets) \in Nat
      BY <3>1
    <3>3. QED
      BY <3>1, <3>2
  <2>3. closed.sockets \in Seq(SocketStates) /\ Len(closed.sockets) = Len(accepts.sockets)
    BY <2>1, <2>2, SocketSteps DEF SocketStates
  <2>4. /\ closed.op \in [Listening!Slots -> OpStates]
        /\ \A c \in Listening!Slots : \/ closed.op[c] = accepts.op[c]
                                      \/ closed.op[c] = "error" /\ accepts.op[c] = "pending"
    BY <1>1, <2>1 DEF AcceptsTyped, OpStates
  <2>5. AcceptsTyped(closed)
    BY <1>1, <2>1, <2>3, <2>4 DEF AcceptsTyped, SameMain, SameWorkers, SameLife
  <2>6. Handled(closed)
    BY <2>1, <2>4 DEF AcceptsInv, AcceptsTyped, Handled, Holds, Begun, SameMain, SameWorkers
  <2>7. Out(closed) = Out(accepts) /\ Leaving(closed) = Leaving(accepts)
    BY <2>1, <2>4 DEF Out, Leaving, Listening!Counts, SameWorkers
  <2>8. Balance(closed) /\ Ends(closed)
    BY <2>1, <2>7 DEF AcceptsInv, Balance, Ends, SameLife, SameMain, One
  <2>9. AcceptsInv(closed)
    BY <2>1, <2>5, <2>6, <2>8 DEF AcceptsInv, Steady
  <2>10. QED
    BY <1>1, <1>4, <2>1, <2>9, NextSlotEffect, GoesRound DEF SameMain
<1>5. QED
  BY <1>2, <1>3, <1>4 DEF Listening!CloseOld

(***************************************************************************)
(* What PostAccept makes of buf->sclient.                                  *)
(***************************************************************************)
Opens(a, b, e) ==
  /\ e.sclient = [a.sclient EXCEPT ![b] = Len(a.sockets) + 1]
  /\ e.sockets = Append(a.sockets, "open")
Unsets(a, b, e) == e.sclient = [a.sclient EXCEPT ![b] = 0] /\ e.sockets = a.sockets

SocketsTyped(e) ==
  /\ e.sclient \in [Listening!Slots -> Nat] /\ e.sockets \in Seq(SocketStates)
  /\ \A c \in Listening!Slots : e.sclient[c] <= Len(e.sockets)
SocketsKept(a, b, e) ==
  \A c \in Listening!Slots \ {b} : /\ e.sclient[c] = a.sclient[c]
                                   /\ a.sclient[c] # 0 => e.sockets[e.sclient[c]] = a.sockets[a.sclient[c]]
Fresh(e, b) ==
  /\ e.sclient[b] # 0 /\ e.sockets[e.sclient[b]] = "open"
  /\ \A c \in Listening!Slots \ {b} : e.sclient[c] # e.sclient[b]

(***************************************************************************)
(* An accept is posted.                                                    *)
(***************************************************************************)
LEMMA AcceptExEffect ==
  ASSUME NEW a, AcceptsTyped(a), NEW b \in Listening!Slots
  PROVE  LET e == Listening!AcceptEx(a, b)
         IN /\ DOMAIN e = AcceptFields /\ SameMain(a, e) /\ SameWorkers(a, e) /\ SameLife(a, e)
            /\ e.OutstandingOps = a.OutstandingOps /\ e.disturbed = a.disturbed /\ e.ub = a.ub
            /\ e.op = [a.op EXCEPT ![b] = "pending"]
            /\ Opens(a, b, e)
BY DEF Opens, AcceptsTyped, AcceptFields, Listening!AcceptEx, Listening!NewSocket, SameMain, SameWorkers, SameLife

LEMMA NotPostedEffect ==
  ASSUME NEW a, AcceptsTyped(a), NEW b \in Listening!Slots, NEW e \in Listening!NotPosted(a, b)
  PROVE  /\ DOMAIN e = AcceptFields /\ SameMain(a, e) /\ SameWorkers(a, e) /\ SameLife(a, e)
         /\ e.OutstandingOps = a.OutstandingOps /\ e.disturbed = TRUE /\ e.ub = a.ub
         /\ e.op = [a.op EXCEPT ![b] = "unused"]
         /\ Opens(a, b, e) \/ Unsets(a, b, e)
<1>1. CASE e = Listening!SocketFails(a, b)
  BY <1>1 DEF AcceptsTyped, AcceptFields, Listening!SocketFails, Listening!Fault, Listening!INVALID_SOCKET, Unsets,
              SameMain, SameWorkers, SameLife
<1>2. CASE e = Listening!AcceptExFails(a, b)
  BY <1>2 DEF AcceptsTyped, AcceptFields, Listening!AcceptExFails, Listening!NewSocket, Listening!Fault, Opens,
              SameMain, SameWorkers, SameLife
<1>3. QED
  BY <1>1, <1>2 DEF Listening!NotPosted

\* Sockets: the new one is no other buffer's.
LEMMA NewSocketOk ==
  ASSUME NEW a, AcceptsTyped(a), NEW b \in Listening!Slots, NEW e, Opens(a, b, e) \/ Unsets(a, b, e)
  PROVE  SocketsTyped(e) /\ SocketsKept(a, b, e) /\ (Opens(a, b, e) => Fresh(e, b))
<1> DEFINE n == Len(a.sockets)
<1>1. /\ a.sclient \in [Listening!Slots -> Nat] /\ a.sockets \in Seq(SocketStates) /\ n \in Nat
      /\ \A c \in Listening!Slots : a.sclient[c] \in Nat /\ a.sclient[c] <= n
  BY DEF AcceptsTyped
<1>2. CASE Unsets(a, b, e)
  <2>1. e.sclient \in [Listening!Slots -> Nat] /\ e.sclient[b] = 0
    BY <1>1, <1>2 DEF Unsets
  <2>2. \A c \in Listening!Slots \ {b} : e.sclient[c] = a.sclient[c]
    BY <1>1, <1>2 DEF Unsets
  <2>3. ~Opens(a, b, e)
    BY <1>1, <1>2, <2>1 DEF Opens, Unsets
  <2>4. QED
    BY <1>1, <1>2, <2>1, <2>2, <2>3 DEF SocketsTyped, SocketsKept, Unsets
<1>3. CASE Opens(a, b, e)
  <2>1. e.sclient \in [Listening!Slots -> Nat] /\ e.sclient[b] = n + 1
    BY <1>1, <1>3 DEF Opens
  <2>2. \A c \in Listening!Slots \ {b} : e.sclient[c] = a.sclient[c]
    BY <1>1, <1>3 DEF Opens
  <2>3. /\ e.sockets \in Seq(SocketStates) /\ Len(e.sockets) = n + 1 /\ e.sockets[n + 1] = "open"
        /\ \A m \in 1 .. n : e.sockets[m] = a.sockets[m]
    BY <1>1, <1>3, SocketSteps DEF Opens, SocketStates
  <2> HIDE DEF n
  <2>4. ASSUME NEW c \in Listening!Slots PROVE e.sclient[c] <= Len(e.sockets)
    <3>1. n \in Nat /\ a.sclient[c] \in Nat /\ a.sclient[c] <= n
      BY <1>1
    <3>2. e.sclient[c] = n + 1 \/ e.sclient[c] = a.sclient[c]
      BY <2>1, <2>2
    <3>3. Len(e.sockets) = n + 1
      BY <2>3
    <3>4. QED
      BY <3>1, <3>2, <3>3
  <2>5. ASSUME NEW c \in Listening!Slots \ {b}, a.sclient[c] # 0 PROVE e.sockets[e.sclient[c]] = a.sockets[a.sclient[c]]
    <3>1. a.sclient[c] \in 1 .. n
      BY <1>1, <2>5
    <3>2. QED
      BY <2>2, <2>3, <3>1
  <2>6. \A c \in Listening!Slots \ {b} : e.sclient[c] # e.sclient[b]
    BY <1>1, <2>1, <2>2
  <2>7. QED
    BY <1>1, <2>1, <2>2, <2>3, <2>4, <2>5, <2>6 DEF SocketsTyped, SocketsKept, Fresh
<1>4. QED
  BY <1>2, <1>3

\* main has posted an accept and does not count it yet.
LEMMA BalancePost ==
  ASSUME NEW a, Balance(a), a.OutstandingOps \in Int, NEW e, e.freed = a.freed,
         NEW b, Out(e) \ {b} = Out(a) \ {b}, b \in Out(e), b \notin Out(a), Leaving(e) = Leaving(a),
         a.main = "post", e.main = "count", e.OutstandingOps = a.OutstandingOps
  PROVE  Balance(e)
<1>1. Cardinality(Out(e)) = Cardinality(Out(a)) + One(b \in Out(e)) - One(b \in Out(a))
  BY AcceptSets, OneMoves
<1>2. One(b \in Out(e)) = 1 /\ One(b \in Out(a)) = 0 /\ One(e.main = "count") = 1 /\ One(a.main = "count") = 0
  BY DEF One
<1>3. Cardinality(Out(a)) \in Nat /\ Cardinality(Leaving(a)) \in Nat
  BY AcceptSets
<1>4. QED
  BY <1>1, <1>2, <1>3 DEF Balance

(***************************************************************************)
(* What a step does to the buffers and to the workers.                     *)
(***************************************************************************)
SameHands(a, e) ==
  \A w \in Listening!Workers : /\ e.at[w] \in Holding <=> a.at[w] \in Holding
                               /\ a.at[w] \in Holding => e.slot[w] = a.slot[w]
SameTaken(a, e) ==
  \A c \in Listening!Slots : /\ e.op[c] = "taken" <=> a.op[c] = "taken"
                             /\ ~Begun(e, c) => ~Begun(a, c) /\ e.op[c] = a.op[c]

LEMMA HandsOk ==
  ASSUME NEW a, Handled(a), NEW e, SameHands(a, e), SameTaken(a, e)
  PROVE  Handled(e)
<1>1. \A w \in Listening!Workers, b \in Listening!Slots : Holds(e, w, b) <=> Holds(a, w, b)
  BY DEF SameHands, Holds
<1>2. ASSUME NEW w \in Listening!Workers, e.at[w] \in Holding
      PROVE  e.slot[w] \in Listening!Slots /\ e.op[e.slot[w]] = "taken"
  BY <1>2 DEF Handled, SameHands, SameTaken
<1>3. ASSUME NEW w \in Listening!Workers, NEW v \in Listening!Workers, e.at[w] \in Holding, Holds(e, v, e.slot[w])
      PROVE  w = v
  BY <1>1, <1>2, <1>3 DEF Handled, SameHands
<1>4. ASSUME NEW b \in Listening!Slots, e.op[b] = "taken" PROVE \E w \in Listening!Workers : Holds(e, w, b)
  BY <1>1, <1>4 DEF Handled, SameTaken
<1>5. ASSUME NEW b \in Listening!Slots, ~Begun(e, b) PROVE e.op[b] = "none"
  BY <1>5 DEF Handled, SameTaken
<1>6. QED
  BY <1>2, <1>3, <1>4, <1>5 DEF Handled

LEMMA PostFirstOk ==
  ASSUME AcceptsInv(accepts), Listening!PostFirst
  PROVE  AcceptsInv(accepts')
<1> SUFFICES ASSUME NEW e, e = accepts' PROVE AcceptsInv(e)
  OBVIOUS
<1> DEFINE b == accepts.i
<1>1. /\ accepts.main = "post" /\ AcceptsTyped(accepts) /\ DOMAIN accepts = AcceptFields /\ b \in Listening!Slots
  BY DEF Listening!PostFirst, AcceptsInv, AcceptsTyped
<1>n. b \in Nat /\ \A c \in Listening!Slots : c \in Nat
  BY <1>1, AcceptSets
<1>2. accepts.op[b] = "none" /\ \A c \in Listening!Slots : Begun(accepts, c) <=> c < b
  BY <1>1, <1>n DEF AcceptsInv, Handled, Begun
<1>3. CASE e = [Listening!Touch(Listening!AcceptEx(accepts, b)) EXCEPT !.main = "count"]
  <2> DEFINE p == Listening!AcceptEx(accepts, b)
             t == Listening!Touch(p)
  <2>1. /\ DOMAIN p = AcceptFields /\ SameMain(accepts, p) /\ SameWorkers(accepts, p) /\ SameLife(accepts, p)
        /\ p.OutstandingOps = accepts.OutstandingOps /\ p.disturbed = accepts.disturbed /\ p.ub = accepts.ub
        /\ p.op = [accepts.op EXCEPT ![b] = "pending"]
        /\ Opens(accepts, b, p)
    BY <1>1, AcceptExEffect
  <2> HIDE DEF p
  <2>2. /\ DOMAIN t = AcceptFields /\ SameMain(p, t) /\ SamePool(p, t) /\ SameWorkers(p, t) /\ SameLife(p, t)
        /\ t.OutstandingOps = p.OutstandingOps /\ t.disturbed = p.disturbed /\ t.ub = (p.ub \/ p.freed)
    BY <2>1, TouchSame
  <2> HIDE DEF t
  <2>3. /\ DOMAIN e = AcceptFields /\ e.main = "count" /\ e.i = b
        /\ SameWorkers(accepts, e) /\ SameLife(accepts, e)
        /\ e.OutstandingOps = accepts.OutstandingOps /\ e.disturbed = accepts.disturbed
        /\ e.ub = (accepts.ub \/ accepts.freed)
        /\ e.op = [accepts.op EXCEPT ![b] = "pending"]
        /\ Opens(accepts, b, e)
    BY <1>3, <2>1, <2>2 DEF t, p, Opens, AcceptFields, SameMain, SamePool, SameWorkers, SameLife
  <2>4. SocketsTyped(e) /\ SocketsKept(accepts, b, e) /\ Fresh(e, b)
    BY <1>1, <2>3, NewSocketOk
  <2>6. /\ e.op \in [Listening!Slots -> OpStates] /\ e.op[b] = "pending"
        /\ \A c \in Listening!Slots \ {b} : e.op[c] = accepts.op[c]
    BY <1>1, <2>3 DEF AcceptsTyped, OpStates
  <2>7. \A c \in Listening!Slots : Begun(e, c) <=> c <= b
    BY <2>3 DEF Begun
  <2>8. AcceptsTyped(e)
    BY <1>1, <2>3, <2>4, <2>6 DEF AcceptsTyped, SocketsTyped, SameWorkers, SameLife
  <2>9. Handled(e)
    <3>1. SameHands(accepts, e)
      BY <2>3 DEF SameHands, SameWorkers
    <3>2. SameTaken(accepts, e)
      BY <1>1, <1>2, <1>n, <2>6, <2>7 DEF SameTaken
    <3>3. QED
      BY <3>1, <3>2, HandsOk DEF AcceptsInv
  <2>10. Balance(e)
    <3>1. Out(e) \ {b} = Out(accepts) \ {b} /\ b \in Out(e) /\ b \notin Out(accepts)
      BY <1>1, <1>2, <2>6 DEF Out, Listening!Counts
    <3>2. Leaving(e) = Leaving(accepts)
      BY <2>3 DEF Leaving, SameWorkers
    <3>3. QED
      BY <1>1, <2>3, <3>1, <3>2, BalancePost DEF AcceptsInv, AcceptsTyped, SameLife
  <2>11. Ends(e)
    BY <1>1, <2>3 DEF AcceptsInv, Ends, SameLife
  <2>12. ASSUME ~e.disturbed, NEW c \in Listening!Slots, Begun(e, c) PROVE InPool(e, c)
    <3>1. CASE c = b
      BY <2>4, <2>6, <3>1 DEF Fresh, InPool, Listening!INVALID_SOCKET
    <3>2. CASE c # b
      <4>1. InPool(accepts, c)
        BY <1>1, <1>2, <1>n, <2>3, <2>7, <2>12, <3>2 DEF AcceptsInv, Steady
      <4>2. QED
        BY <2>4, <2>6, <3>2, <4>1 DEF Fresh, SocketsKept, InPool, Listening!INVALID_SOCKET
    <3>3. QED
      BY <3>1, <3>2
  <2>13. Steady(e)
    BY <2>3, <2>12 DEF AcceptsInv, Steady, SameWorkers, SameLife
  <2>14. QED
    BY <2>8, <2>9, <2>10, <2>11, <2>13 DEF AcceptsInv
<1>4. ASSUME NEW p \in Listening!NotPosted(accepts, b), e = Listening!NextPost(Listening!Touch(p))
      PROVE  AcceptsInv(e)
  <2> DEFINE t == Listening!Touch(p)
  <2>1. /\ DOMAIN p = AcceptFields /\ SameMain(accepts, p) /\ SameWorkers(accepts, p) /\ SameLife(accepts, p)
        /\ p.OutstandingOps = accepts.OutstandingOps /\ p.disturbed = TRUE /\ p.ub = accepts.ub
        /\ p.op = [accepts.op EXCEPT ![b] = "unused"]
        /\ Opens(accepts, b, p) \/ Unsets(accepts, b, p)
    BY <1>1, <1>4, NotPostedEffect
  <2>2. /\ DOMAIN t = AcceptFields /\ SameMain(p, t) /\ SamePool(p, t) /\ SameWorkers(p, t) /\ SameLife(p, t)
        /\ t.OutstandingOps = p.OutstandingOps /\ t.disturbed = p.disturbed /\ t.ub = (p.ub \/ p.freed)
    BY <2>1, TouchSame
  <2> HIDE DEF t
  <2>3. /\ t.i = b
        /\ DOMAIN e = AcceptFields /\ SamePool(t, e) /\ SameWorkers(t, e) /\ SameLife(t, e)
        /\ e.OutstandingOps = t.OutstandingOps /\ e.disturbed = t.disturbed /\ e.ub = t.ub
        /\ e.main \in {"post", "wait"} /\ e.i \in Listening!Slots
        /\ \A c \in Listening!Slots : Begun(e, c) <=> c <= b
    BY <1>1, <1>4, <2>1, <2>2, NextPostEffect DEF SameMain, t
  <2>4. /\ SameWorkers(accepts, e) /\ SameLife(accepts, e) /\ e.disturbed = TRUE
        /\ e.OutstandingOps = accepts.OutstandingOps /\ e.ub = (accepts.ub \/ accepts.freed)
        /\ e.op = [accepts.op EXCEPT ![b] = "unused"]
        /\ Opens(accepts, b, e) \/ Unsets(accepts, b, e)
    BY <2>1, <2>2, <2>3 DEF SamePool, SameWorkers, SameLife, Opens, Unsets
  <2>5. SocketsTyped(e)
    BY <1>1, <2>4, NewSocketOk
  <2>6. /\ e.op \in [Listening!Slots -> OpStates] /\ e.op[b] = "unused"
        /\ \A c \in Listening!Slots \ {b} : e.op[c] = accepts.op[c]
    BY <1>1, <2>4 DEF AcceptsTyped, OpStates
  <2>8. AcceptsTyped(e)
    BY <1>1, <2>3, <2>4, <2>5, <2>6 DEF AcceptsTyped, SocketsTyped, SameWorkers, SameLife
  <2>9. Handled(e)
    <3>1. SameHands(accepts, e)
      BY <2>4 DEF SameHands, SameWorkers
    <3>2. SameTaken(accepts, e)
      BY <1>1, <1>2, <1>n, <2>3, <2>6 DEF SameTaken
    <3>3. QED
      BY <3>1, <3>2, HandsOk DEF AcceptsInv
  <2>10. Balance(e)
    <3>1. Out(e) \ {b} = Out(accepts) \ {b} /\ b \notin Out(e) /\ b \notin Out(accepts)
      BY <1>1, <1>2, <2>6 DEF Out, Listening!Counts
    <3>2. Leaving(e) = Leaving(accepts)
      BY <2>4 DEF Leaving, SameWorkers
    <3>3. Out(e) = Out(accepts)
      BY <3>1
    <3>4. QED
      BY <1>1, <2>3, <2>4, <3>2, <3>3 DEF One, AcceptsInv, Balance, SameLife
  <2>11. Ends(e)
    BY <1>1, <2>4 DEF AcceptsInv, Ends, SameLife
  <2>12. Steady(e)
    BY <2>4 DEF Steady
  <2>13. QED
    BY <2>8, <2>9, <2>10, <2>11, <2>12 DEF AcceptsInv
<1>5. QED
  BY <1>3, <1>4 DEF Listening!PostFirst

LEMMA CountEffect ==
  ASSUME NEW a, AcceptsTyped(a)
  PROVE  LET e == Listening!CountOperation(a)
         IN /\ DOMAIN e = AcceptFields /\ SameMain(a, e) /\ SamePool(a, e) /\ SameWorkers(a, e) /\ SameLife(a, e)
            /\ e.OutstandingOps = a.OutstandingOps + 1 /\ e.disturbed = a.disturbed /\ e.ub = (a.ub \/ a.freed)
<1> DEFINE p == [a EXCEPT !.OutstandingOps = @ + 1]
<1>1. /\ DOMAIN p = AcceptFields /\ SameMain(a, p) /\ SamePool(a, p) /\ SameWorkers(a, p) /\ SameLife(a, p)
      /\ p.OutstandingOps = a.OutstandingOps + 1 /\ p.disturbed = a.disturbed /\ p.ub = a.ub
  BY DEF AcceptsTyped, AcceptFields, SameMain, SamePool, SameWorkers, SameLife
<1>2. Listening!CountOperation(a) = Listening!Touch(p)
  BY DEF Listening!CountOperation
<1> HIDE DEF p
<1>3. QED
  BY <1>1, <1>2, TouchSame DEF SameMain, SamePool, SameWorkers, SameLife

LEMMA CountFirstOk ==
  ASSUME AcceptsInv(accepts), Listening!CountFirst
  PROVE  AcceptsInv(accepts')
<1> SUFFICES ASSUME NEW e, e = accepts' PROVE AcceptsInv(e)
  OBVIOUS
<1> DEFINE b == accepts.i
           t == Listening!CountOperation(accepts)
<1>1. accepts.main = "count" /\ AcceptsTyped(accepts) /\ DOMAIN accepts = AcceptFields /\ b \in Listening!Slots
  BY DEF Listening!CountFirst, AcceptsInv, AcceptsTyped
<1>2. /\ DOMAIN t = AcceptFields /\ SameMain(accepts, t) /\ SamePool(accepts, t) /\ SameWorkers(accepts, t)
      /\ SameLife(accepts, t) /\ t.OutstandingOps = accepts.OutstandingOps + 1
      /\ t.disturbed = accepts.disturbed /\ t.ub = (accepts.ub \/ accepts.freed)
  BY <1>1, CountEffect
<1>3. e = Listening!NextPost(t)
  BY DEF Listening!CountFirst
<1> HIDE DEF t
<1>4. /\ DOMAIN e = AcceptFields /\ SamePool(t, e) /\ SameWorkers(t, e) /\ SameLife(t, e)
      /\ e.OutstandingOps = t.OutstandingOps /\ e.disturbed = t.disturbed /\ e.ub = t.ub
      /\ e.main \in {"post", "wait"} /\ e.i \in Listening!Slots
      /\ \A c \in Listening!Slots : Begun(e, c) <=> c <= b
  BY <1>1, <1>2, <1>3, NextPostEffect DEF SameMain
<1>5. /\ SamePool(accepts, e) /\ SameWorkers(accepts, e) /\ SameLife(accepts, e)
      /\ e.OutstandingOps = accepts.OutstandingOps + 1 /\ e.disturbed = accepts.disturbed
      /\ e.ub = (accepts.ub \/ accepts.freed)
  BY <1>2, <1>4 DEF SamePool, SameWorkers, SameLife
<1>6. \A c \in Listening!Slots : Begun(e, c) <=> Begun(accepts, c)
  BY <1>1, <1>4 DEF Begun
<1>7. AcceptsTyped(e)
  BY <1>1, <1>4, <1>5 DEF AcceptsTyped, SamePool, SameWorkers, SameLife
<1>8. Handled(e)
  BY <1>5, <1>6 DEF AcceptsInv, Handled, Holds, SamePool, SameWorkers
<1>9. Out(e) = Out(accepts) /\ Leaving(e) = Leaving(accepts)
  BY <1>5 DEF Out, Leaving, SamePool, SameWorkers
<1>10. Balance(e)
  BY <1>1, <1>4, <1>5, <1>9, AcceptSets DEF AcceptsInv, AcceptsTyped, Balance, SameLife, One
<1>11. Ends(e)
  BY <1>1, <1>5 DEF AcceptsInv, Ends, SameLife
<1>12. Steady(e)
  <2>1. \A c \in Listening!Slots : InPool(accepts, c) => InPool(e, c)
    BY <1>5 DEF InPool, SamePool
  <2>2. QED
    BY <1>4, <1>5, <1>6, <2>1 DEF AcceptsInv, Steady, SameWorkers, SameLife
<1>13. QED
  BY <1>7, <1>8, <1>10, <1>11, <1>12 DEF AcceptsInv


(***************************************************************************)
(* The completion threads.                                                 *)
(***************************************************************************)
HandMoves(a, e, w, b) ==
  /\ \A v \in Listening!Workers \ {w} : e.at[v] = a.at[v] /\ e.slot[v] = a.slot[v] /\ ~Holds(a, v, b)
  /\ \A c \in Listening!Slots \ {b} : e.op[c] = a.op[c]
  /\ a.at[w] \in Holding => a.slot[w] = b
  /\ e.at[w] \in Holding => e.slot[w] = b
  /\ e.op[b] = "taken" <=> e.at[w] \in Holding
  /\ Begun(e, b) /\ \A c \in Listening!Slots : Begun(a, c) => Begun(e, c)

\* One worker takes a buffer or leaves it.
LEMMA HandMovesOk ==
  ASSUME NEW a, Handled(a), NEW e, NEW w \in Listening!Workers, NEW b \in Listening!Slots, HandMoves(a, e, w, b)
  PROVE  Handled(e)
<1>1. \A v \in Listening!Workers \ {w}, c \in Listening!Slots : Holds(e, v, c) <=> Holds(a, v, c)
  BY DEF HandMoves, Holds
<1>2. ASSUME NEW v \in Listening!Workers, e.at[v] \in Holding
      PROVE  e.slot[v] \in Listening!Slots /\ e.op[e.slot[v]] = "taken"
  <2>1. CASE v = w
    BY <1>2, <2>1 DEF HandMoves
  <2>2. CASE v # w
    <3>1. a.at[v] \in Holding /\ e.slot[v] = a.slot[v] /\ a.slot[v] # b
      BY <1>2, <2>2 DEF HandMoves, Holds
    <3>2. QED
      BY <3>1 DEF Handled, HandMoves
  <2>3. QED
    BY <2>1, <2>2
<1>3. ASSUME NEW u \in Listening!Workers, NEW v \in Listening!Workers, e.at[u] \in Holding, Holds(e, v, e.slot[u])
      PROVE  u = v
  <2>1. CASE u = w \/ v = w
    BY <1>3, <2>1 DEF HandMoves, Holds
  <2>2. CASE u # w /\ v # w
    BY <1>3, <2>2 DEF Handled, HandMoves, Holds
  <2>3. QED
    BY <2>1, <2>2
<1>4. ASSUME NEW c \in Listening!Slots, e.op[c] = "taken" PROVE \E v \in Listening!Workers : Holds(e, v, c)
  <2>1. CASE c = b
    BY <1>4, <2>1 DEF HandMoves, Holds
  <2>2. CASE c # b
    <3>1. a.op[c] = "taken"
      BY <1>4, <2>2 DEF HandMoves
    <3>2. PICK v \in Listening!Workers : Holds(a, v, c)
      BY <3>1 DEF Handled
    <3>3. v # w
      BY <2>2, <3>2 DEF HandMoves, Holds
    <3>4. QED
      BY <1>1, <3>2, <3>3
  <2>3. QED
    BY <2>1, <2>2
<1>5. ASSUME NEW c \in Listening!Slots, ~Begun(e, c) PROVE e.op[c] = "none"
  BY <1>5 DEF Handled, HandMoves
<1>6. QED
  BY <1>2, <1>3, <1>4, <1>5 DEF Handled

PoolKept(a, e) == \A c \in Listening!Slots : Begun(a, c) /\ InPool(a, c) => Begun(e, c) /\ InPool(e, c)
SameBegun(a, e) == \A c \in Listening!Slots : Begun(e, c) <=> Begun(a, c)
LockMoves(a, e, w) ==
  /\ \A v \in Listening!Workers \ {w} : /\ e.at[v] = a.at[v]
                                        /\ e.SockCritSec = v <=> a.SockCritSec = v
  /\ e.at[w] \notin {"drop", "free"} /\ (e.at[w] \in Handling <=> e.SockCritSec = w)

\* A step of one worker that disturbs nothing.
LEMMA StaysSteady ==
  ASSUME NEW a, Steady(a), NEW e, NEW w,
         e.disturbed = a.disturbed, e.freed = a.freed, e.ub = (a.ub \/ a.freed) \/ e.ub = a.ub, e.main = a.main,
         SameBegun(a, e), ~a.disturbed => PoolKept(a, e) /\ LockMoves(a, e, w)
  PROVE  Steady(e)
<1> SUFFICES ASSUME ~e.disturbed
             PROVE  /\ ~e.ub /\ ~e.freed /\ e.main # "ended"
                    /\ \A c \in Listening!Slots : Begun(e, c) => InPool(e, c)
                    /\ \A v \in Listening!Workers :
                         e.at[v] \notin {"drop", "free"} /\ (e.at[v] \in Handling <=> e.SockCritSec = v)
  BY DEF Steady
<1>1. ~e.ub /\ ~e.freed /\ e.main # "ended"
  BY DEF Steady
<1>2. \A c \in Listening!Slots : Begun(e, c) => InPool(e, c)
  BY DEF Steady, SameBegun, PoolKept
<1>3. ASSUME NEW v \in Listening!Workers
      PROVE  e.at[v] \notin {"drop", "free"} /\ (e.at[v] \in Handling <=> e.SockCritSec = v)
  BY <1>3 DEF Steady, LockMoves
<1>4. QED
  BY <1>1, <1>2, <1>3

LEMMA MainStays ==
  ASSUME NEW a, NEW e, SameMain(a, e)
  PROVE  SameBegun(a, e) /\ e.main = a.main
BY DEF SameMain, SameBegun, Begun

LEMMA SameBalance ==
  ASSUME NEW a, Balance(a), NEW e, e.freed = a.freed, Out(e) = Out(a), Leaving(e) = Leaving(a),
         e.OutstandingOps = a.OutstandingOps, e.main = a.main
  PROVE  Balance(e)
BY DEF Balance

LEMMA GetQueuedCompletionStatusOk ==
  ASSUME AcceptsInv(accepts), NEW w \in Listening!Workers, Listening!GetQueuedCompletionStatus(w)
  PROVE  AcceptsInv(accepts')
<1> SUFFICES ASSUME NEW e, e = accepts' PROVE AcceptsInv(e)
  OBVIOUS
<1>1. /\ accepts.at[w] = "idle" /\ AcceptsTyped(accepts) /\ DOMAIN accepts = AcceptFields
  BY DEF Listening!GetQueuedCompletionStatus, AcceptsInv, AcceptsTyped
<1>2. PICK b \in Listening!Slots :
        /\ accepts.op[b] \in {"ok", "error"}
        /\ e = [accepts EXCEPT !.op[b] = "taken", !.slot[w] = b,
                               !.at[w] = IF accepts.op[b] = "ok" THEN "enter" ELSE "drop"]
  BY DEF Listening!GetQueuedCompletionStatus
<1>3. /\ DOMAIN e = AcceptFields /\ SameMain(accepts, e) /\ SameLife(accepts, e)
      /\ e.sclient = accepts.sclient /\ e.sockets = accepts.sockets /\ e.SockCritSec = accepts.SockCritSec
      /\ e.OutstandingOps = accepts.OutstandingOps /\ e.disturbed = accepts.disturbed /\ e.ub = accepts.ub
      /\ e.op = [accepts.op EXCEPT ![b] = "taken"] /\ e.slot = [accepts.slot EXCEPT ![w] = b]
      /\ e.at = [accepts.at EXCEPT ![w] = IF accepts.op[b] = "ok" THEN "enter" ELSE "drop"]
  BY <1>1, <1>2 DEF AcceptFields, SameMain, SameLife
<1>4. /\ e.op \in [Listening!Slots -> OpStates] /\ e.op[b] = "taken"
      /\ \A c \in Listening!Slots \ {b} : e.op[c] = accepts.op[c]
  BY <1>1, <1>3 DEF AcceptsTyped, OpStates
<1>5. /\ e.at \in [Listening!Workers -> Doing] /\ e.at[w] \in {"enter", "drop"}
      /\ accepts.op[b] = "ok" => e.at[w] = "enter"
      /\ \A v \in Listening!Workers \ {w} : e.at[v] = accepts.at[v]
  BY <1>1, <1>3 DEF AcceptsTyped, Doing, Holding
<1>6. /\ e.slot \in [Listening!Workers -> Listening!Slots \cup {Listening!NoSlot}] /\ e.slot[w] = b
      /\ \A v \in Listening!Workers \ {w} : e.slot[v] = accepts.slot[v]
  BY <1>1, <1>3 DEF AcceptsTyped
<1>7. SameBegun(accepts, e) /\ e.main = accepts.main
  BY <1>3, MainStays
<1>8. AcceptsTyped(e)
  BY <1>1, <1>3, <1>4, <1>5, <1>6 DEF AcceptsTyped, SameMain, SameLife
<1>9. Handled(e)
  <2>1. Begun(accepts, b) /\ \A v \in Listening!Workers : ~Holds(accepts, v, b)
    BY <1>2 DEF AcceptsInv, Handled, Holds
  <2>2. HandMoves(accepts, e, w, b)
    BY <1>1, <1>4, <1>5, <1>6, <1>7, <2>1 DEF HandMoves, Holding, SameBegun
  <2>3. QED
    BY <2>2, HandMovesOk DEF AcceptsInv
<1>10. Out(e) = Out(accepts) /\ Leaving(e) = Leaving(accepts)
  BY <1>1, <1>2, <1>4, <1>5 DEF Out, Leaving, Listening!Counts
<1>11. Balance(e)
  BY <1>3, <1>7, <1>10, SameBalance DEF AcceptsInv, SameLife
<1>12. Ends(e)
  BY <1>3, <1>7, <1>10, StaysEnded DEF AcceptsInv, SameLife
<1>13. ~accepts.disturbed => PoolKept(accepts, e) /\ LockMoves(accepts, e, w)
  <2>1. PoolKept(accepts, e)
    BY <1>3, <1>4, <1>7 DEF PoolKept, SameBegun, InPool
  <2>2. SUFFICES ASSUME ~accepts.disturbed PROVE LockMoves(accepts, e, w)
    BY <2>1
  <2>3. accepts.op[b] = "ok"
    BY <1>2, <2>2 DEF AcceptsInv, Handled, Steady, InPool
  <2>4. accepts.SockCritSec # w
    BY <1>1, <2>2 DEF AcceptsInv, Steady, Handling
  <2>5. QED
    BY <1>3, <1>5, <2>3, <2>4 DEF LockMoves, Handling
<1>14. Steady(e)
  BY <1>3, <1>7, <1>13, StaysSteady DEF AcceptsInv, SameLife
<1>15. QED
  BY <1>8, <1>9, <1>11, <1>12, <1>14 DEF AcceptsInv

LEMMA GotoEffect ==
  ASSUME NEW a, DOMAIN a = AcceptFields, NEW w, NEW place
  PROVE  LET e == Listening!Goto(a, w, place)
         IN /\ DOMAIN e = AcceptFields /\ SameMain(a, e) /\ SamePool(a, e) /\ SameLife(a, e)
            /\ e.at = [a.at EXCEPT ![w] = place] /\ e.slot = a.slot /\ e.SockCritSec = a.SockCritSec
            /\ e.OutstandingOps = a.OutstandingOps /\ e.disturbed = a.disturbed /\ e.ub = a.ub
BY DEF AcceptFields, Listening!Goto, SameMain, SamePool, SameLife

Moves(a, e, w) ==
  /\ e.at \in [Listening!Workers -> Doing] /\ e.slot = a.slot
  /\ \A v \in Listening!Workers \ {w} : e.at[v] = a.at[v]

LEMMA MovesEffect ==
  ASSUME NEW a, AcceptsTyped(a), NEW w \in Listening!Workers, NEW place \in Doing, NEW e,
         e.at = [a.at EXCEPT ![w] = place], e.slot = a.slot
  PROVE  Moves(a, e, w) /\ e.at[w] = place
BY DEF AcceptsTyped, Moves

Typed(a, e) ==
  /\ DOMAIN e = AcceptFields /\ SameMain(a, e)
  /\ e.op \in [Listening!Slots -> OpStates] /\ SocketsTyped(e) /\ e.OutstandingOps \in Int
  /\ e.SockCritSec \in Listening!Workers \cup {Listening!NoThread} /\ e.at \in [Listening!Workers -> Doing]
  /\ e.slot = a.slot
  /\ e.freed \in BOOLEAN /\ e.early \in BOOLEAN /\ e.disturbed \in BOOLEAN /\ e.ub \in BOOLEAN

LEMMA TypedOk ==
  ASSUME NEW a, AcceptsTyped(a), NEW e, Typed(a, e)
  PROVE  AcceptsTyped(e)
<1>1. e.main \in {"post", "count", "wait", "reap", "close", "ended"} /\ e.i \in Listening!Slots
  BY DEF AcceptsTyped, Typed, SameMain
<1>2. e.slot \in [Listening!Workers -> Listening!Slots \cup {Listening!NoSlot}]
  BY DEF AcceptsTyped, Typed
<1>3. QED
  BY <1>1, <1>2 DEF AcceptsTyped, Typed, SocketsTyped

LEMMA SameSockets ==
  ASSUME NEW a, AcceptsTyped(a), NEW e, e.sclient = a.sclient, e.sockets = a.sockets
  PROVE  SocketsTyped(e)
BY DEF AcceptsTyped, SocketsTyped

\* The worker that has taken a buffer leaves it.
LEMMA LeavesOk ==
  ASSUME NEW a, AcceptsTyped(a), Handled(a), NEW e, NEW w \in Listening!Workers, a.at[w] \in Holding,
         Moves(a, e, w), SameMain(a, e), e.at[w] \notin Holding, e.op[a.slot[w]] # "taken",
         \A c \in Listening!Slots \ {a.slot[w]} : e.op[c] = a.op[c]
  PROVE  Handled(e)
<1> DEFINE b == a.slot[w]
<1>1. b \in Listening!Slots /\ a.op[b] = "taken" /\ \A v \in Listening!Workers \ {w} : ~Holds(a, v, b)
  BY DEF Handled
<1>2. Begun(a, b)
  BY <1>1 DEF Handled
<1>3. HandMoves(a, e, w, b)
  BY <1>1, <1>2, MainStays DEF HandMoves, Moves, SameBegun
<1>4. QED
  BY <1>1, <1>3, HandMovesOk

LEMMA DropFailedOk ==
  ASSUME AcceptsInv(accepts), NEW w \in Listening!Workers, Listening!DropFailed(w)
  PROVE  AcceptsInv(accepts')
<1> SUFFICES ASSUME NEW e, e = accepts' PROVE AcceptsInv(e)
  OBVIOUS
<1> DEFINE b == accepts.slot[w]
           p == [accepts EXCEPT !.op[b] = "freed", !.OutstandingOps = @ - 1]
           t == Listening!Touch(p)
<1>1. /\ accepts.at[w] = "drop" /\ AcceptsTyped(accepts) /\ DOMAIN accepts = AcceptFields
  BY DEF Listening!DropFailed, AcceptsInv, AcceptsTyped
<1>2. b \in Listening!Slots /\ accepts.op[b] = "taken" /\ accepts.disturbed
  BY <1>1 DEF AcceptsInv, AcceptsTyped, Handled, Steady, Holding
<1>3. PICK place \in {"free", "idle"} : e = Listening!Goto(t, w, place)
  BY DEF Listening!DropFailed
<1>4. /\ DOMAIN p = AcceptFields /\ SameMain(accepts, p) /\ SameWorkers(accepts, p) /\ SameLife(accepts, p)
      /\ p.sclient = accepts.sclient /\ p.sockets = accepts.sockets
      /\ p.OutstandingOps = accepts.OutstandingOps - 1 /\ p.disturbed = accepts.disturbed /\ p.ub = accepts.ub
      /\ p.op = [accepts.op EXCEPT ![b] = "freed"]
  BY <1>1 DEF AcceptFields, SameMain, SameWorkers, SameLife
<1> HIDE DEF p
<1>5. /\ DOMAIN t = AcceptFields /\ SameMain(p, t) /\ SamePool(p, t) /\ SameWorkers(p, t) /\ SameLife(p, t)
      /\ t.OutstandingOps = p.OutstandingOps /\ t.disturbed = p.disturbed /\ t.ub = (p.ub \/ p.freed)
  BY <1>4, TouchSame
<1> HIDE DEF t
<1>6. /\ DOMAIN e = AcceptFields /\ SameMain(t, e) /\ SamePool(t, e) /\ SameLife(t, e)
      /\ e.at = [t.at EXCEPT ![w] = place] /\ e.slot = t.slot /\ e.SockCritSec = t.SockCritSec
      /\ e.OutstandingOps = t.OutstandingOps /\ e.disturbed = t.disturbed /\ e.ub = t.ub
  BY <1>3, <1>5, GotoEffect
<1>7. /\ DOMAIN e = AcceptFields /\ SameMain(accepts, e) /\ SameLife(accepts, e)
      /\ e.sclient = accepts.sclient /\ e.sockets = accepts.sockets /\ e.SockCritSec = accepts.SockCritSec
      /\ e.OutstandingOps = accepts.OutstandingOps - 1 /\ e.disturbed = TRUE /\ e.ub \in BOOLEAN
      /\ e.op = [accepts.op EXCEPT ![b] = "freed"]
      /\ e.at = [accepts.at EXCEPT ![w] = place] /\ e.slot = accepts.slot
  BY <1>1, <1>2, <1>4, <1>5, <1>6 DEF AcceptsTyped, SameMain, SamePool, SameWorkers, SameLife
<1>8. /\ e.op \in [Listening!Slots -> OpStates] /\ e.op[b] = "freed"
      /\ \A c \in Listening!Slots \ {b} : e.op[c] = accepts.op[c]
  BY <1>1, <1>2, <1>7 DEF AcceptsTyped, OpStates
<1>9. Moves(accepts, e, w) /\ e.at[w] = place
  BY <1>1, <1>7, MovesEffect DEF Doing
<1>10. AcceptsTyped(e)
  <2>1. e.OutstandingOps \in Int /\ e.freed \in BOOLEAN /\ e.early \in BOOLEAN
        /\ e.SockCritSec \in Listening!Workers \cup {Listening!NoThread}
    BY <1>1, <1>7 DEF AcceptsTyped, SameLife
  <2>2. SocketsTyped(e)
    BY <1>1, <1>7, SameSockets
  <2>3. Typed(accepts, e)
    BY <1>7, <1>8, <1>9, <2>1, <2>2 DEF Typed, Moves
  <2>4. QED
    BY <1>1, <2>3, TypedOk
<1>11. Handled(e)
  BY <1>1, <1>7, <1>8, <1>9, LeavesOk DEF AcceptsInv, Holding
<1>12. Out(e) \ {b} = Out(accepts) \ {b} /\ b \in Out(accepts) /\ b \notin Out(e)
  BY <1>2, <1>8 DEF Out, Listening!Counts
<1>13. Leaving(e) = Leaving(accepts)
  BY <1>1, <1>9 DEF Leaving, Moves
<1>14. Balance(e)
  <2>1. One(b \in Out(e)) = 0 /\ One(b \in Out(accepts)) = 1 /\ One(w \in Leaving(e)) = One(w \in Leaving(accepts))
        /\ One(e.main = "count") = One(accepts.main = "count")
    BY <1>7, <1>12, <1>13 DEF One, SameMain
  <2>2. One(w \in Leaving(accepts)) \in Int /\ One(accepts.main = "count") \in Int /\ accepts.OutstandingOps \in Int
    BY <1>1 DEF One, AcceptsTyped
  <2>3. e.OutstandingOps = accepts.OutstandingOps + One(b \in Out(e)) - One(b \in Out(accepts))
                             + One(w \in Leaving(e)) - One(w \in Leaving(accepts))
                             - One(e.main = "count") + One(accepts.main = "count")
    BY <1>7, <2>1, <2>2
  <2>4. QED
    BY <1>7, <1>12, <1>13, <2>2, <2>3, BalanceOk DEF AcceptsInv, SameLife
<1>15. Ends(e)
  BY <1>7, <1>12, StaysEnded DEF AcceptsInv, SameLife, SameMain
<1>16. Steady(e)
  BY <1>7 DEF Steady
<1>17. QED
  BY <1>10, <1>11, <1>14, <1>15, <1>16 DEF AcceptsInv

LEMMA FreeSocketObjOk ==
  ASSUME AcceptsInv(accepts), NEW w \in Listening!Workers, Listening!FreeSocketObj(w)
  PROVE  AcceptsInv(accepts')
<1> SUFFICES ASSUME NEW e, e = accepts' PROVE AcceptsInv(e)
  OBVIOUS
<1>1. /\ accepts.at[w] = "free" /\ AcceptsTyped(accepts) /\ DOMAIN accepts = AcceptFields /\ accepts.disturbed
  BY DEF Listening!FreeSocketObj, AcceptsInv, AcceptsTyped, Steady
<1>2. ASSUME NEW p, e = Listening!Goto(p, w, "idle"), DOMAIN p = AcceptFields, SameMain(accepts, p),
             SameWorkers(accepts, p), p.disturbed = TRUE, p.ub \in BOOLEAN, p.OutstandingOps = accepts.OutstandingOps,
             p.sclient = accepts.sclient, p.sockets = accepts.sockets, p.op \in [Listening!Slots -> OpStates],
             \A c \in Listening!Slots : \/ p.op[c] = accepts.op[c]
                                        \/ p.op[c] = "error" /\ accepts.op[c] = "pending",
             p.freed \in BOOLEAN, p.early \in BOOLEAN,
             \/ SameLife(accepts, p)
             \/ p.freed /\ (p.early <=> Listening!StillUsed(accepts)) /\ accepts.OutstandingOps = 0 /\ ~accepts.freed
      PROVE  AcceptsInv(e)
  <2>1. /\ DOMAIN e = AcceptFields /\ SameMain(p, e) /\ SamePool(p, e) /\ SameLife(p, e)
        /\ e.at = [p.at EXCEPT ![w] = "idle"] /\ e.slot = p.slot /\ e.SockCritSec = p.SockCritSec
        /\ e.OutstandingOps = p.OutstandingOps /\ e.disturbed = p.disturbed /\ e.ub = p.ub
    <3>1. DOMAIN p = AcceptFields /\ e = Listening!Goto(p, w, "idle")
      BY <1>2
    <3>2. QED
      BY <3>1, GotoEffect
  <2>2. /\ SameMain(accepts, e) /\ e.at = [accepts.at EXCEPT ![w] = "idle"] /\ e.slot = accepts.slot
    BY <1>2, <2>1 DEF SameMain, SameWorkers
  <2>3. Moves(accepts, e, w) /\ e.at[w] = "idle"
    BY <1>1, <2>2, MovesEffect DEF Doing
  <2>4. AcceptsTyped(e)
    <3>1. /\ e.OutstandingOps = accepts.OutstandingOps /\ e.freed = p.freed /\ e.early = p.early
          /\ e.SockCritSec = accepts.SockCritSec /\ e.ub = p.ub /\ e.disturbed = TRUE /\ e.op = p.op
          /\ e.sclient = accepts.sclient /\ e.sockets = accepts.sockets
      BY <1>2, <2>1 DEF SameLife, SamePool, SameWorkers
    <3>2. SocketsTyped(e)
      BY <1>1, <3>1, SameSockets
    <3>3. accepts.OutstandingOps \in Int /\ accepts.SockCritSec \in Listening!Workers \cup {Listening!NoThread}
      BY <1>1 DEF AcceptsTyped
    <3>4. Typed(accepts, e)
      BY <1>2, <2>1, <2>2, <2>3, <3>1, <3>2, <3>3 DEF Typed, Moves
    <3>5. QED
      BY <1>1, <3>4, TypedOk
  <2>5. SameBegun(accepts, e) /\ e.main = accepts.main
    BY <2>2, MainStays
  <2>6. Handled(e)
    <3>1. SameHands(accepts, e)
      BY <1>1, <2>3 DEF Moves, SameHands, Holding
    <3>2. SameTaken(accepts, e)
      <4>1. \A c \in Listening!Slots : ~Begun(accepts, c) => accepts.op[c] = "none"
        BY DEF AcceptsInv, Handled
      <4>2. QED
        BY <1>2, <2>1, <2>5, <4>1 DEF SameTaken, SameBegun, SamePool
    <3>3. QED
      BY <3>1, <3>2, HandsOk DEF AcceptsInv
  <2>7. Out(e) = Out(accepts)
    BY <1>2, <2>1 DEF Out, SamePool, Listening!Counts
  <2>8. Leaving(e) = Leaving(accepts)
    BY <1>1, <2>3 DEF Leaving, Moves
  <2>9. CASE SameLife(accepts, p)
    <3>1. SameLife(accepts, e)
      BY <2>1, <2>9 DEF SameLife
    <3>2. Balance(e) /\ Ends(e)
      BY <1>2, <2>1, <2>5, <2>7, <2>8, <3>1, SameBalance, StaysEnded DEF AcceptsInv, SameLife
    <3>3. QED
      BY <1>2, <2>1, <2>4, <2>6, <3>2 DEF AcceptsInv, Steady
  <2>10. CASE p.freed /\ (p.early <=> Listening!StillUsed(accepts)) /\ accepts.OutstandingOps = 0 /\ ~accepts.freed
    <3>1. e.freed /\ Balance(e)
      BY <2>1, <2>10 DEF Balance, SameLife
    <3>2. ASSUME ~e.early PROVE Out(e) = {} /\ e.main \notin {"post", "count"}
      <4>1. accepts.main \notin {"post", "count"}
        BY <2>1, <2>10, <3>2 DEF Listening!StillUsed, SameLife
      <4>2. Cardinality(Out(accepts)) + Cardinality(Leaving(accepts)) = 0
        <5>1. One(accepts.main = "count") = 0
          BY <4>1 DEF One
        <5>2. QED
          BY <2>10, <5>1, AcceptSets DEF AcceptsInv, Balance
      <4>3. Cardinality(Out(accepts)) = 0 /\ IsFiniteSet(Out(accepts))
        BY <4>2, AcceptSets
      <4>4. Out(accepts) = {}
        BY <4>3, FS_EmptySet
      <4>5. QED
        BY <2>5, <2>7, <4>1, <4>4
    <3>3. Ends(e)
      BY <3>2 DEF Ends
    <3>4. QED
      BY <1>2, <2>1, <2>4, <2>6, <3>1, <3>3 DEF AcceptsInv, Steady
  <2>11. QED
    BY <1>2, <2>9, <2>10
<1>3. CASE e = Listening!Goto(Listening!Touch(accepts), w, "idle")
  <2> DEFINE p == Listening!Touch(accepts)
  <2>1. /\ DOMAIN p = AcceptFields /\ SameMain(accepts, p) /\ SamePool(accepts, p) /\ SameWorkers(accepts, p)
        /\ SameLife(accepts, p) /\ p.OutstandingOps = accepts.OutstandingOps /\ p.disturbed = accepts.disturbed
        /\ p.ub = (accepts.ub \/ accepts.freed)
    BY <1>1, TouchSame
  <2>2. e = Listening!Goto(p, w, "idle")
    BY <1>3
  <2> HIDE DEF p
  <2>3. /\ p.ub \in BOOLEAN /\ p.freed \in BOOLEAN /\ p.early \in BOOLEAN /\ p.disturbed = TRUE
        /\ p.op \in [Listening!Slots -> OpStates] /\ p.op = accepts.op
        /\ p.sclient = accepts.sclient /\ p.sockets = accepts.sockets
    BY <1>1, <2>1 DEF AcceptsTyped, SameLife, SamePool
  <2>4. QED
    BY <1>2, <2>1, <2>2, <2>3
<1>4. CASE /\ accepts.OutstandingOps = 0 /\ ~accepts.freed
           /\ e = Listening!Goto([accepts EXCEPT !.freed = TRUE, !.op = Listening!Abandoned(accepts),
                                                 !.early = Listening!StillUsed(accepts)], w, "idle")
  <2> DEFINE p == [accepts EXCEPT !.freed = TRUE, !.op = Listening!Abandoned(accepts),
                                  !.early = Listening!StillUsed(accepts)]
  <2>1. /\ DOMAIN p = AcceptFields /\ SameMain(accepts, p) /\ SameWorkers(accepts, p)
        /\ p.OutstandingOps = accepts.OutstandingOps /\ p.disturbed = accepts.disturbed
        /\ p.ub = accepts.ub /\ p.freed = TRUE /\ p.early = Listening!StillUsed(accepts)
        /\ p.op = Listening!Abandoned(accepts) /\ p.sclient = accepts.sclient /\ p.sockets = accepts.sockets
    BY <1>1 DEF AcceptFields, SameMain, SameWorkers
  <2>2. e = Listening!Goto(p, w, "idle")
    BY <1>4
  <2> HIDE DEF p
  <2>3. p.ub \in BOOLEAN /\ p.disturbed = TRUE
    BY <1>1, <2>1 DEF AcceptsTyped
  <2>4. p.early \in BOOLEAN
    BY <2>1 DEF Listening!StillUsed
  <2>5. /\ p.op \in [Listening!Slots -> OpStates]
        /\ \A c \in Listening!Slots : p.op[c] = accepts.op[c] \/ (p.op[c] = "error" /\ accepts.op[c] = "pending")
    BY <1>1, <2>1 DEF AcceptsTyped, OpStates, Listening!Abandoned
  <2>6. QED
    BY <1>2, <1>4, <2>1, <2>2, <2>3, <2>4, <2>5
<1>5. QED
  BY <1>3, <1>4 DEF Listening!FreeSocketObj

LEMMA TouchGoto ==
  ASSUME NEW a, DOMAIN a = AcceptFields, NEW w, NEW place
  PROVE  LET e == Listening!Goto(Listening!Touch(a), w, place)
         IN /\ DOMAIN e = AcceptFields /\ SameMain(a, e) /\ SamePool(a, e) /\ SameLife(a, e)
            /\ e.at = [a.at EXCEPT ![w] = place] /\ e.slot = a.slot /\ e.SockCritSec = a.SockCritSec
            /\ e.OutstandingOps = a.OutstandingOps /\ e.disturbed = a.disturbed /\ e.ub = (a.ub \/ a.freed)
<1> DEFINE t == Listening!Touch(a)
           e == Listening!Goto(t, w, place)
<1>1. /\ DOMAIN t = AcceptFields /\ SameMain(a, t) /\ SamePool(a, t) /\ SameWorkers(a, t) /\ SameLife(a, t)
      /\ t.OutstandingOps = a.OutstandingOps /\ t.disturbed = a.disturbed /\ t.ub = (a.ub \/ a.freed)
  BY TouchSame
<1> HIDE DEF t
<1>2. /\ DOMAIN e = AcceptFields /\ SameMain(t, e) /\ SamePool(t, e) /\ SameLife(t, e)
      /\ e.at = [t.at EXCEPT ![w] = place] /\ e.slot = t.slot /\ e.SockCritSec = t.SockCritSec
      /\ e.OutstandingOps = t.OutstandingOps /\ e.disturbed = t.disturbed /\ e.ub = t.ub
  BY <1>1, GotoEffect
<1> HIDE DEF e
<1>3. /\ DOMAIN e = AcceptFields /\ SameMain(a, e) /\ SamePool(a, e) /\ SameLife(a, e)
      /\ e.at = [a.at EXCEPT ![w] = place] /\ e.slot = a.slot /\ e.SockCritSec = a.SockCritSec
      /\ e.OutstandingOps = a.OutstandingOps /\ e.disturbed = a.disturbed /\ e.ub = (a.ub \/ a.freed)
  BY <1>1, <1>2 DEF SameMain, SamePool, SameWorkers, SameLife
<1>4. QED
  BY <1>3 DEF e, t

\* A worker goes on, and no buffer is taken or left.
LEMMA GoesOn ==
  ASSUME NEW a, AcceptsTyped(a), Handled(a), NEW e, NEW w \in Listening!Workers, SameMain(a, e), e.op = a.op,
         Moves(a, e, w), e.at[w] \in Holding <=> a.at[w] \in Holding
  PROVE  Handled(e) /\ Out(e) = Out(a)
<1>1. SameHands(a, e)
  BY DEF SameHands, Moves
<1>2. SameTaken(a, e)
  BY MainStays DEF SameTaken, SameBegun
<1>3. QED
  BY <1>1, <1>2, HandsOk DEF Out

LEMMA SamePoolKept ==
  ASSUME NEW a, NEW e, SamePool(a, e), SameBegun(a, e)
  PROVE  PoolKept(a, e)
BY DEF PoolKept, SamePool, SameBegun, InPool

LEMMA EnterCriticalSectionOk ==
  ASSUME AcceptsInv(accepts), NEW w \in Listening!Workers, Listening!EnterCriticalSection(w)
  PROVE  AcceptsInv(accepts')
<1> SUFFICES ASSUME NEW e, e = accepts' PROVE AcceptsInv(e)
  OBVIOUS
<1> DEFINE p == [accepts EXCEPT !.SockCritSec = w]
<1>1. /\ accepts.at[w] = "enter" /\ AcceptsTyped(accepts) /\ DOMAIN accepts = AcceptFields
      /\ accepts.SockCritSec \in {Listening!NoThread, w} /\ e = Listening!Goto(Listening!Touch(p), w, "associate")
  BY DEF Listening!EnterCriticalSection, AcceptsInv, AcceptsTyped
<1>2. /\ DOMAIN p = AcceptFields /\ SameMain(accepts, p) /\ SamePool(accepts, p) /\ SameLife(accepts, p)
      /\ p.at = accepts.at /\ p.slot = accepts.slot /\ p.SockCritSec = w
      /\ p.OutstandingOps = accepts.OutstandingOps /\ p.disturbed = accepts.disturbed /\ p.ub = accepts.ub
  BY <1>1 DEF AcceptFields, SameMain, SamePool, SameLife
<1> HIDE DEF p
<1>3. /\ DOMAIN e = AcceptFields /\ SameMain(p, e) /\ SamePool(p, e) /\ SameLife(p, e)
      /\ e.at = [p.at EXCEPT ![w] = "associate"] /\ e.slot = p.slot /\ e.SockCritSec = p.SockCritSec
      /\ e.OutstandingOps = p.OutstandingOps /\ e.disturbed = p.disturbed /\ e.ub = (p.ub \/ p.freed)
  BY <1>1, <1>2, TouchGoto
<1>4. /\ SameMain(accepts, e) /\ SamePool(accepts, e) /\ SameLife(accepts, e)
      /\ e.at = [accepts.at EXCEPT ![w] = "associate"] /\ e.slot = accepts.slot /\ e.SockCritSec = w
      /\ e.OutstandingOps = accepts.OutstandingOps /\ e.disturbed = accepts.disturbed
      /\ e.ub = (accepts.ub \/ accepts.freed)
  BY <1>2, <1>3 DEF SameMain, SamePool, SameLife
<1>5. Moves(accepts, e, w) /\ e.at[w] = "associate"
  BY <1>1, <1>4, MovesEffect DEF Doing, Handling
<1>6. SameBegun(accepts, e) /\ e.main = accepts.main
  BY <1>4, MainStays
<1>7. AcceptsTyped(e)
  <2>1. SocketsTyped(e)
    BY <1>1, <1>4, SameSockets DEF SamePool
  <2>2. /\ e.OutstandingOps \in Int /\ e.op \in [Listening!Slots -> OpStates]
        /\ e.freed \in BOOLEAN /\ e.early \in BOOLEAN /\ e.disturbed \in BOOLEAN /\ e.ub \in BOOLEAN
    BY <1>1, <1>4 DEF AcceptsTyped, SamePool, SameLife
  <2>3. Typed(accepts, e)
    BY <1>3, <1>4, <1>5, <2>1, <2>2 DEF Typed, Moves
  <2>4. QED
    BY <1>1, <2>3, TypedOk
<1>8. Handled(e) /\ Out(e) = Out(accepts)
  BY <1>1, <1>4, <1>5, GoesOn DEF AcceptsInv, Holding, SamePool
<1>9. Leaving(e) = Leaving(accepts)
  BY <1>1, <1>5 DEF Leaving, Moves
<1>10. Balance(e)
  BY <1>4, <1>6, <1>8, <1>9, SameBalance DEF AcceptsInv, SameLife
<1>11. Ends(e)
  BY <1>4, <1>6, <1>8, StaysEnded DEF AcceptsInv, SameLife
<1>12. PoolKept(accepts, e) /\ LockMoves(accepts, e, w)
  <2>1. LockMoves(accepts, e, w)
    BY <1>1, <1>4, <1>5, AcceptSets DEF LockMoves, Moves, Handling
  <2>2. QED
    BY <1>4, <1>6, <2>1, SamePoolKept
<1>13. Steady(e)
  BY <1>4, <1>6, <1>12, StaysSteady DEF AcceptsInv, SameLife
<1>14. QED
  BY <1>7, <1>8, <1>10, <1>11, <1>13 DEF AcceptsInv

\* A worker whose buffer is in the pool finds its socket open.
LEMMA SocketIsOpen ==
  ASSUME NEW a, AcceptsInv(a), ~a.disturbed, NEW w \in Listening!Workers, a.at[w] \in Holding
  PROVE  Listening!Socket(a, a.slot[w]) # "closed"
<1>1. a.slot[w] \in Listening!Slots /\ a.op[a.slot[w]] = "taken"
  BY DEF AcceptsInv, Handled
<1>2. Begun(a, a.slot[w])
  BY <1>1 DEF AcceptsInv, Handled
<1>3. QED
  BY <1>1, <1>2 DEF AcceptsInv, Steady, InPool, Listening!Socket

LEMMA AssociateOk ==
  ASSUME AcceptsInv(accepts), NEW w \in Listening!Workers, Listening!Associate(w)
  PROVE  AcceptsInv(accepts')
<1> SUFFICES ASSUME NEW e, e = accepts' PROVE AcceptsInv(e)
  OBVIOUS
<1> DEFINE b == accepts.slot[w]
<1>1. /\ accepts.at[w] = "associate" /\ AcceptsTyped(accepts) /\ DOMAIN accepts = AcceptFields
  BY DEF Listening!Associate, AcceptsInv, AcceptsTyped
<1>2. b \in Listening!Slots /\ accepts.op[b] = "taken"
  BY <1>1 DEF AcceptsInv, Handled, Holding
<1>3. CASE e = Listening!Goto(accepts, w, "repost")
  <2>1. /\ DOMAIN e = AcceptFields /\ SameMain(accepts, e) /\ SamePool(accepts, e) /\ SameLife(accepts, e)
        /\ e.at = [accepts.at EXCEPT ![w] = "repost"] /\ e.slot = accepts.slot
        /\ e.SockCritSec = accepts.SockCritSec /\ e.OutstandingOps = accepts.OutstandingOps
        /\ e.disturbed = accepts.disturbed /\ e.ub = accepts.ub
    BY <1>1, <1>3, GotoEffect
  <2>2. Moves(accepts, e, w) /\ e.at[w] = "repost"
    BY <1>1, <2>1, MovesEffect DEF Doing, Handling
  <2>3. SameBegun(accepts, e) /\ e.main = accepts.main
    BY <2>1, MainStays
  <2>4. AcceptsTyped(e)
    <3>1. SocketsTyped(e)
      BY <1>1, <2>1, SameSockets DEF SamePool
    <3>2. /\ e.OutstandingOps \in Int /\ e.op \in [Listening!Slots -> OpStates]
          /\ e.SockCritSec \in Listening!Workers \cup {Listening!NoThread}
          /\ e.freed \in BOOLEAN /\ e.early \in BOOLEAN /\ e.disturbed \in BOOLEAN /\ e.ub \in BOOLEAN
      BY <1>1, <2>1 DEF AcceptsTyped, SamePool, SameLife
    <3>3. Typed(accepts, e)
      BY <2>1, <2>2, <3>1, <3>2 DEF Typed, Moves
    <3>4. QED
      BY <1>1, <3>3, TypedOk
  <2>5. Handled(e) /\ Out(e) = Out(accepts)
    BY <1>1, <2>1, <2>2, GoesOn DEF AcceptsInv, Holding, SamePool
  <2>6. Leaving(e) = Leaving(accepts)
    BY <1>1, <2>2 DEF Leaving, Moves
  <2>7. Balance(e)
    BY <2>1, <2>3, <2>5, <2>6, SameBalance DEF AcceptsInv, SameLife
  <2>8. Ends(e)
    BY <2>1, <2>3, <2>5, StaysEnded DEF AcceptsInv, SameLife
  <2>9. PoolKept(accepts, e)
    BY <2>1, <2>3, SamePoolKept
  <2>10. ~accepts.disturbed => LockMoves(accepts, e, w)
    BY <1>1, <2>1, <2>2 DEF AcceptsInv, Steady, LockMoves, Moves, Handling
  <2>11. Steady(e)
    BY <2>1, <2>3, <2>9, <2>10, StaysSteady DEF AcceptsInv, SameLife
  <2>12. QED
    BY <2>4, <2>5, <2>7, <2>8, <2>11 DEF AcceptsInv
<1>4. ASSUME NEW p, e = Listening!Goto(p, w, "idle"),
             \/ p = [accepts EXCEPT !.op[b] = "lost"] /\ accepts.disturbed
             \/ p = Listening!Fault([accepts EXCEPT !.op[b] = "lost"])
      PROVE  AcceptsInv(e)
  <2>1. /\ DOMAIN p = AcceptFields /\ SameMain(accepts, p) /\ SameWorkers(accepts, p) /\ SameLife(accepts, p)
        /\ p.sclient = accepts.sclient /\ p.sockets = accepts.sockets
        /\ p.OutstandingOps = accepts.OutstandingOps /\ p.disturbed = TRUE /\ p.ub = accepts.ub
        /\ p.op = [accepts.op EXCEPT ![b] = "lost"]
    <3>1. accepts.disturbed \in BOOLEAN
      BY <1>1 DEF AcceptsTyped
    <3>2. QED
      BY <1>1, <1>4, <3>1 DEF AcceptFields, Listening!Fault, SameMain, SameWorkers, SameLife
  <2>2. /\ DOMAIN e = AcceptFields /\ SameMain(p, e) /\ SamePool(p, e) /\ SameLife(p, e)
        /\ e.at = [p.at EXCEPT ![w] = "idle"] /\ e.slot = p.slot /\ e.SockCritSec = p.SockCritSec
        /\ e.OutstandingOps = p.OutstandingOps /\ e.disturbed = p.disturbed /\ e.ub = p.ub
    <3>1. DOMAIN p = AcceptFields /\ e = Listening!Goto(p, w, "idle")
      BY <1>4, <2>1
    <3>2. QED
      BY <3>1, GotoEffect
  <2>3. /\ SameMain(accepts, e) /\ SameLife(accepts, e)
        /\ e.sclient = accepts.sclient /\ e.sockets = accepts.sockets /\ e.SockCritSec = accepts.SockCritSec
        /\ e.OutstandingOps = accepts.OutstandingOps /\ e.disturbed = TRUE /\ e.ub = accepts.ub
        /\ e.op = [accepts.op EXCEPT ![b] = "lost"]
        /\ e.at = [accepts.at EXCEPT ![w] = "idle"] /\ e.slot = accepts.slot
    BY <2>1, <2>2 DEF SameMain, SamePool, SameWorkers, SameLife
  <2>4. /\ e.op \in [Listening!Slots -> OpStates] /\ e.op[b] = "lost"
        /\ \A c \in Listening!Slots \ {b} : e.op[c] = accepts.op[c]
    BY <1>1, <1>2, <2>3 DEF AcceptsTyped, OpStates
  <2>5. Moves(accepts, e, w) /\ e.at[w] = "idle"
    BY <1>1, <2>3, MovesEffect DEF Doing
  <2>6. AcceptsTyped(e)
    <3>1. SocketsTyped(e)
      BY <1>1, <2>3, SameSockets
    <3>2. /\ e.OutstandingOps \in Int /\ e.SockCritSec \in Listening!Workers \cup {Listening!NoThread}
          /\ e.freed \in BOOLEAN /\ e.early \in BOOLEAN /\ e.disturbed \in BOOLEAN /\ e.ub \in BOOLEAN
      BY <1>1, <2>3 DEF AcceptsTyped, SameLife
    <3>3. Typed(accepts, e)
      BY <2>2, <2>3, <2>4, <2>5, <3>1, <3>2 DEF Typed, Moves
    <3>4. QED
      BY <1>1, <3>3, TypedOk
  <2>7. Handled(e)
    BY <1>1, <2>3, <2>4, <2>5, LeavesOk DEF AcceptsInv, Holding
  <2>8. Out(e) = Out(accepts)
    BY <1>2, <2>4 DEF Out, Listening!Counts
  <2>9. Leaving(e) = Leaving(accepts)
    BY <1>1, <2>5 DEF Leaving, Moves
  <2>10. e.main = accepts.main
    BY <2>3 DEF SameMain
  <2>11. Balance(e)
    BY <2>3, <2>8, <2>9, <2>10, SameBalance DEF AcceptsInv, SameLife
  <2>12. Ends(e)
    BY <2>3, <2>8, <2>10, StaysEnded DEF AcceptsInv, SameLife
  <2>13. Steady(e)
    BY <2>3 DEF Steady
  <2>14. QED
    BY <2>6, <2>7, <2>11, <2>12, <2>13 DEF AcceptsInv
<1>5. Listening!Socket(accepts, b) = "closed" => accepts.disturbed
  BY <1>1, SocketIsOpen DEF Holding
<1>6. QED
  BY <1>3, <1>4, <1>5 DEF Listening!Associate

LEMMA RepostOk ==
  ASSUME AcceptsInv(accepts), NEW w \in Listening!Workers, Listening!Repost(w)
  PROVE  AcceptsInv(accepts')
<1> SUFFICES ASSUME NEW e, e = accepts' PROVE AcceptsInv(e)
  OBVIOUS
<1> DEFINE b == accepts.slot[w]
<1>1. /\ accepts.at[w] = "repost" /\ AcceptsTyped(accepts) /\ DOMAIN accepts = AcceptFields
  BY DEF Listening!Repost, AcceptsInv, AcceptsTyped
<1>2. b \in Listening!Slots /\ accepts.op[b] = "taken" /\ Begun(accepts, b)
  BY <1>1 DEF AcceptsInv, Handled, Holding
<1>3. ASSUME NEW p, NEW place \in {"count", "leave"}, e = Listening!Goto(Listening!Touch(p), w, place),
             DOMAIN p = AcceptFields, SameMain(accepts, p), SameWorkers(accepts, p), SameLife(accepts, p),
             p.OutstandingOps = accepts.OutstandingOps, p.ub = accepts.ub, p.disturbed \in BOOLEAN,
             Opens(accepts, b, p) \/ Unsets(accepts, b, p), NEW o \in {"pending", "unused"},
             p.op = [accepts.op EXCEPT ![b] = o]
      PROVE  /\ DOMAIN e = AcceptFields /\ SameMain(accepts, e) /\ SameLife(accepts, e)
             /\ e.SockCritSec = accepts.SockCritSec /\ e.OutstandingOps = accepts.OutstandingOps
             /\ e.disturbed = p.disturbed /\ e.ub = (accepts.ub \/ accepts.freed)
             /\ e.op \in [Listening!Slots -> OpStates] /\ e.op[b] = o
             /\ \A c \in Listening!Slots \ {b} : e.op[c] = accepts.op[c]
             /\ SocketsTyped(e) /\ SocketsKept(accepts, b, e) /\ (Opens(accepts, b, p) => Fresh(e, b))
             /\ Moves(accepts, e, w) /\ e.at[w] = place /\ AcceptsTyped(e) /\ Handled(e) /\ Ends(e)
  <2>1. DOMAIN p = AcceptFields /\ e = Listening!Goto(Listening!Touch(p), w, place)
    BY <1>3
  <2>2. /\ DOMAIN e = AcceptFields /\ SameMain(p, e) /\ SamePool(p, e) /\ SameLife(p, e)
        /\ e.at = [p.at EXCEPT ![w] = place] /\ e.slot = p.slot /\ e.SockCritSec = p.SockCritSec
        /\ e.OutstandingOps = p.OutstandingOps /\ e.disturbed = p.disturbed /\ e.ub = (p.ub \/ p.freed)
    BY <2>1, TouchGoto
  <2>3. /\ SameMain(accepts, e) /\ SameLife(accepts, e)
        /\ e.SockCritSec = accepts.SockCritSec /\ e.OutstandingOps = accepts.OutstandingOps
        /\ e.disturbed = p.disturbed /\ e.ub = (accepts.ub \/ accepts.freed)
        /\ e.op = [accepts.op EXCEPT ![b] = o]
        /\ e.at = [accepts.at EXCEPT ![w] = place] /\ e.slot = accepts.slot
    BY <1>3, <2>2 DEF SameMain, SamePool, SameWorkers, SameLife
  <2>4. /\ Opens(accepts, b, e) \/ Unsets(accepts, b, e)
        /\ Opens(accepts, b, p) => Opens(accepts, b, e)
    BY <1>3, <2>2 DEF SamePool, Opens, Unsets
  <2>5. SocketsTyped(e) /\ SocketsKept(accepts, b, e) /\ (Opens(accepts, b, p) => Fresh(e, b))
    BY <1>1, <1>2, <2>4, NewSocketOk
  <2>6. /\ e.op \in [Listening!Slots -> OpStates] /\ e.op[b] = o
        /\ \A c \in Listening!Slots \ {b} : e.op[c] = accepts.op[c]
    BY <1>1, <1>2, <2>3 DEF AcceptsTyped, OpStates
  <2>7. Moves(accepts, e, w) /\ e.at[w] = place
    BY <1>1, <2>3, MovesEffect DEF Doing, Handling
  <2>8. AcceptsTyped(e)
    <3>1. /\ e.OutstandingOps \in Int /\ e.SockCritSec \in Listening!Workers \cup {Listening!NoThread}
          /\ e.freed \in BOOLEAN /\ e.early \in BOOLEAN /\ e.disturbed \in BOOLEAN /\ e.ub \in BOOLEAN
      BY <1>1, <1>3, <2>3 DEF AcceptsTyped, SameLife
    <3>2. Typed(accepts, e)
      BY <2>2, <2>3, <2>5, <2>6, <2>7, <3>1 DEF Typed, Moves
    <3>3. QED
      BY <1>1, <3>2, TypedOk
  <2>9. Handled(e)
    BY <1>1, <2>3, <2>6, <2>7, LeavesOk DEF AcceptsInv, Holding
  <2>10. Ends(e)
    <3>1. b \in Out(accepts) /\ (e.main \in {"post", "count"} => accepts.main \in {"post", "count"})
      BY <1>2, <2>3 DEF Out, Listening!Counts, SameMain
    <3>2. QED
      BY <2>3, <3>1, StaysEnded DEF AcceptsInv, SameLife
  <2>11. QED
    BY <2>2, <2>3, <2>5, <2>6, <2>7, <2>8, <2>9, <2>10
<1>4. CASE e = Listening!Goto(Listening!Touch(Listening!AcceptEx(accepts, b)), w, "count")
  <2> DEFINE p == Listening!AcceptEx(accepts, b)
  <2>1. /\ DOMAIN p = AcceptFields /\ SameMain(accepts, p) /\ SameWorkers(accepts, p) /\ SameLife(accepts, p)
        /\ p.OutstandingOps = accepts.OutstandingOps /\ p.disturbed = accepts.disturbed /\ p.ub = accepts.ub
        /\ p.op = [accepts.op EXCEPT ![b] = "pending"] /\ Opens(accepts, b, p)
    BY <1>1, <1>2, AcceptExEffect
  <2>2. e = Listening!Goto(Listening!Touch(p), w, "count") /\ p.disturbed \in BOOLEAN
    BY <1>1, <1>4, <2>1 DEF AcceptsTyped
  <2> HIDE DEF p
  <2>3. /\ SameMain(accepts, e) /\ SameLife(accepts, e)
        /\ e.SockCritSec = accepts.SockCritSec /\ e.OutstandingOps = accepts.OutstandingOps
        /\ e.disturbed = accepts.disturbed /\ e.ub = (accepts.ub \/ accepts.freed)
        /\ e.op[b] = "pending" /\ \A c \in Listening!Slots \ {b} : e.op[c] = accepts.op[c]
        /\ SocketsKept(accepts, b, e) /\ Fresh(e, b)
        /\ Moves(accepts, e, w) /\ e.at[w] = "count" /\ AcceptsTyped(e) /\ Handled(e) /\ Ends(e)
    BY <1>3, <2>1, <2>2
  <2>4. SameBegun(accepts, e) /\ e.main = accepts.main
    BY <2>3, MainStays
  <2>5. Out(e) = Out(accepts) /\ Leaving(e) = Leaving(accepts)
    BY <1>1, <1>2, <2>3 DEF Out, Leaving, Listening!Counts, Moves
  <2>6. Balance(e)
    BY <2>3, <2>4, <2>5, SameBalance DEF AcceptsInv, SameLife
  <2>7. PoolKept(accepts, e)
    <3>1. InPool(e, b)
      BY <2>3 DEF InPool, Fresh, Listening!INVALID_SOCKET
    <3>2. ASSUME NEW c \in Listening!Slots \ {b}, InPool(accepts, c) PROVE InPool(e, c)
      BY <2>3, <3>2 DEF InPool, Fresh, SocketsKept, Listening!INVALID_SOCKET
    <3>3. QED
      BY <2>4, <3>1, <3>2 DEF PoolKept, SameBegun
  <2>8. ~accepts.disturbed => LockMoves(accepts, e, w)
    BY <1>1, <2>3 DEF AcceptsInv, Steady, LockMoves, Moves, Handling
  <2>9. Steady(e)
    BY <2>3, <2>4, <2>7, <2>8, StaysSteady DEF AcceptsInv, SameLife
  <2>10. QED
    BY <2>3, <2>6, <2>9 DEF AcceptsInv
<1>5. ASSUME NEW p \in Listening!NotPosted(accepts, b), e = Listening!Goto(Listening!Touch(p), w, "leave")
      PROVE  AcceptsInv(e)
  <2>1. /\ DOMAIN p = AcceptFields /\ SameMain(accepts, p) /\ SameWorkers(accepts, p) /\ SameLife(accepts, p)
        /\ p.OutstandingOps = accepts.OutstandingOps /\ p.disturbed = TRUE /\ p.ub = accepts.ub
        /\ p.op = [accepts.op EXCEPT ![b] = "unused"] /\ (Opens(accepts, b, p) \/ Unsets(accepts, b, p))
    BY <1>1, <1>2, <1>5, NotPostedEffect
  <2>2. /\ SameMain(accepts, e) /\ SameLife(accepts, e)
        /\ e.OutstandingOps = accepts.OutstandingOps /\ e.disturbed = TRUE
        /\ e.op[b] = "unused" /\ \A c \in Listening!Slots \ {b} : e.op[c] = accepts.op[c]
        /\ Moves(accepts, e, w) /\ e.at[w] = "leave" /\ AcceptsTyped(e) /\ Handled(e) /\ Ends(e)
    BY <1>3, <1>5, <2>1
  <2>3. Out(e) \ {b} = Out(accepts) \ {b} /\ b \in Out(accepts) /\ b \notin Out(e)
    BY <1>2, <2>2 DEF Out, Listening!Counts
  <2>4. /\ Leaving(e) \ {w} = Leaving(accepts) \ {w} /\ w \in Leaving(e) /\ w \notin Leaving(accepts)
    BY <1>1, <2>2 DEF Leaving, Moves
  <2>5. Balance(e)
    <3>1. /\ One(b \in Out(e)) = 0 /\ One(b \in Out(accepts)) = 1
          /\ One(w \in Leaving(e)) = 1 /\ One(w \in Leaving(accepts)) = 0
          /\ One(e.main = "count") = One(accepts.main = "count")
      BY <2>2, <2>3, <2>4 DEF One, SameMain
    <3>2. One(accepts.main = "count") \in Int /\ accepts.OutstandingOps \in Int
      BY <1>1 DEF One, AcceptsTyped
    <3>3. e.OutstandingOps = accepts.OutstandingOps + One(b \in Out(e)) - One(b \in Out(accepts))
                               + One(w \in Leaving(e)) - One(w \in Leaving(accepts))
                               - One(e.main = "count") + One(accepts.main = "count")
      BY <2>2, <3>1, <3>2
    <3>4. Balance(accepts) /\ (~e.freed => ~accepts.freed)
      BY <2>2 DEF AcceptsInv, SameLife
    <3>5. Out(e) \ {b} = Out(accepts) \ {b} /\ Leaving(e) \ {w} = Leaving(accepts) \ {w}
      BY <2>3, <2>4
    <3>6. accepts.OutstandingOps \in Int
      BY <3>2
    <3> HIDE DEF b
    <3>7. QED
      BY <3>3, <3>4, <3>5, <3>6, BalanceOk
  <2>6. QED
    BY <2>2, <2>5 DEF AcceptsInv, Steady
<1>6. QED
  BY <1>4, <1>5 DEF Listening!Repost

\* The handler counts the accept that it has posted, or leaves.
LEMMA HandlerEnds ==
  ASSUME AcceptsInv(accepts), NEW w \in Listening!Workers, accepts.at[w] \in {"count", "leave"}, NEW e,
         DOMAIN e = AcceptFields, SameMain(accepts, e), SamePool(accepts, e), SameLife(accepts, e),
         e.OutstandingOps \in Int, e.SockCritSec \in Listening!Workers \cup {Listening!NoThread},
         e.disturbed = accepts.disturbed, e.ub = (accepts.ub \/ accepts.freed),
         Moves(accepts, e, w), e.at[w] \in {"leave", "idle"}, ~accepts.disturbed => LockMoves(accepts, e, w),
         Leaving(e) \ {w} = Leaving(accepts) \ {w} => Balance(e)
  PROVE  AcceptsInv(e)
<1>1. AcceptsTyped(accepts)
  BY DEF AcceptsInv
<1>2. SameBegun(accepts, e) /\ e.main = accepts.main
  BY MainStays
<1>3. AcceptsTyped(e)
  <2>1. SocketsTyped(e)
    BY <1>1, SameSockets DEF SamePool
  <2>2. /\ e.op \in [Listening!Slots -> OpStates]
        /\ e.freed \in BOOLEAN /\ e.early \in BOOLEAN /\ e.disturbed \in BOOLEAN /\ e.ub \in BOOLEAN
    BY <1>1 DEF AcceptsTyped, SamePool, SameLife
  <2>3. Typed(accepts, e)
    BY <2>1, <2>2 DEF Typed, Moves
  <2>4. QED
    BY <1>1, <2>3, TypedOk
<1>4. Handled(e) /\ Out(e) = Out(accepts)
  BY <1>1, GoesOn DEF AcceptsInv, Holding, SamePool
<1>5. Leaving(e) \ {w} = Leaving(accepts) \ {w}
  BY DEF Leaving, Moves
<1>6. Ends(e)
  BY <1>2, <1>4, StaysEnded DEF AcceptsInv, SameLife
<1>7. Steady(e)
  BY <1>2, SamePoolKept, StaysSteady DEF AcceptsInv, SameLife
<1>8. QED
  BY <1>3, <1>4, <1>5, <1>6, <1>7 DEF AcceptsInv

LEMMA CountRepostOk ==
  ASSUME AcceptsInv(accepts), NEW w \in Listening!Workers, Listening!CountRepost(w)
  PROVE  AcceptsInv(accepts')
<1> SUFFICES ASSUME NEW e, e = accepts' PROVE AcceptsInv(e)
  OBVIOUS
<1> DEFINE p == Listening!CountOperation(accepts)
<1>1. /\ accepts.at[w] = "count" /\ AcceptsTyped(accepts) /\ e = Listening!Goto(p, w, "leave")
  BY DEF Listening!CountRepost, AcceptsInv
<1>2. /\ DOMAIN p = AcceptFields /\ SameMain(accepts, p) /\ SamePool(accepts, p) /\ SameWorkers(accepts, p)
      /\ SameLife(accepts, p) /\ p.OutstandingOps = accepts.OutstandingOps + 1
      /\ p.disturbed = accepts.disturbed /\ p.ub = (accepts.ub \/ accepts.freed)
  BY <1>1, CountEffect
<1> HIDE DEF p
<1>3. /\ DOMAIN e = AcceptFields /\ SameMain(p, e) /\ SamePool(p, e) /\ SameLife(p, e)
      /\ e.at = [p.at EXCEPT ![w] = "leave"] /\ e.slot = p.slot /\ e.SockCritSec = p.SockCritSec
      /\ e.OutstandingOps = p.OutstandingOps /\ e.disturbed = p.disturbed /\ e.ub = p.ub
  BY <1>1, <1>2, GotoEffect
<1>4. /\ SameMain(accepts, e) /\ SamePool(accepts, e) /\ SameLife(accepts, e)
      /\ e.at = [accepts.at EXCEPT ![w] = "leave"] /\ e.slot = accepts.slot /\ e.SockCritSec = accepts.SockCritSec
      /\ e.OutstandingOps = accepts.OutstandingOps + 1 /\ e.disturbed = accepts.disturbed
      /\ e.ub = (accepts.ub \/ accepts.freed)
  BY <1>2, <1>3 DEF SameMain, SamePool, SameWorkers, SameLife
<1>5. Moves(accepts, e, w) /\ e.at[w] = "leave"
  BY <1>1, <1>4, MovesEffect DEF Doing, Handling
<1>6. ~accepts.disturbed => LockMoves(accepts, e, w)
  BY <1>1, <1>4, <1>5 DEF AcceptsInv, Steady, LockMoves, Moves, Handling
<1>7. accepts.OutstandingOps \in Int /\ accepts.SockCritSec \in Listening!Workers \cup {Listening!NoThread}
  BY <1>1 DEF AcceptsTyped
<1>8. ASSUME Leaving(e) \ {w} = Leaving(accepts) \ {w} PROVE Balance(e)
  <2>1. Out(e) = Out(accepts) /\ e.main = accepts.main
    BY <1>4 DEF Out, SamePool, SameMain
  <2>2. w \in Leaving(e) /\ w \notin Leaving(accepts)
    BY <1>1, <1>5 DEF Leaving
  <2>3. One(w \in Leaving(e)) = 1 /\ One(w \in Leaving(accepts)) = 0
    BY <2>2 DEF One
  <2>4. One(0 \in Out(accepts)) \in Int /\ One(accepts.main = "count") \in Int
    BY DEF One
  <2>5. e.OutstandingOps = accepts.OutstandingOps + One(0 \in Out(e)) - One(0 \in Out(accepts))
                             + One(w \in Leaving(e)) - One(w \in Leaving(accepts))
                             - One(e.main = "count") + One(accepts.main = "count")
    BY <1>4, <1>7, <2>1, <2>3, <2>4
  <2>6. QED
    BY <1>4, <1>7, <1>8, <2>1, <2>5, BalanceOk DEF AcceptsInv, SameLife
<1>9. e.OutstandingOps \in Int /\ e.SockCritSec \in Listening!Workers \cup {Listening!NoThread}
  BY <1>4, <1>7
<1>10. QED
  BY <1>1, <1>3, <1>4, <1>5, <1>6, <1>8, <1>9, HandlerEnds

LEMMA LeaveCriticalSectionOk ==
  ASSUME AcceptsInv(accepts), NEW w \in Listening!Workers, Listening!LeaveCriticalSection(w)
  PROVE  AcceptsInv(accepts')
<1> SUFFICES ASSUME NEW e, e = accepts' PROVE AcceptsInv(e)
  OBVIOUS
<1> DEFINE p == [accepts EXCEPT !.OutstandingOps = @ - 1, !.SockCritSec = Listening!NoThread]
<1>1. /\ accepts.at[w] = "leave" /\ AcceptsTyped(accepts) /\ DOMAIN accepts = AcceptFields
      /\ e = Listening!Goto(Listening!Touch(p), w, "idle")
  BY DEF Listening!LeaveCriticalSection, AcceptsInv, AcceptsTyped
<1>2. /\ DOMAIN p = AcceptFields /\ SameMain(accepts, p) /\ SamePool(accepts, p) /\ SameLife(accepts, p)
      /\ p.at = accepts.at /\ p.slot = accepts.slot /\ p.SockCritSec = Listening!NoThread
      /\ p.OutstandingOps = accepts.OutstandingOps - 1 /\ p.disturbed = accepts.disturbed /\ p.ub = accepts.ub
  BY <1>1 DEF AcceptFields, SameMain, SamePool, SameLife
<1> HIDE DEF p
<1>3. /\ DOMAIN e = AcceptFields /\ SameMain(p, e) /\ SamePool(p, e) /\ SameLife(p, e)
      /\ e.at = [p.at EXCEPT ![w] = "idle"] /\ e.slot = p.slot /\ e.SockCritSec = p.SockCritSec
      /\ e.OutstandingOps = p.OutstandingOps /\ e.disturbed = p.disturbed /\ e.ub = (p.ub \/ p.freed)
  BY <1>1, <1>2, TouchGoto
<1>4. /\ SameMain(accepts, e) /\ SamePool(accepts, e) /\ SameLife(accepts, e)
      /\ e.at = [accepts.at EXCEPT ![w] = "idle"] /\ e.slot = accepts.slot /\ e.SockCritSec = Listening!NoThread
      /\ e.OutstandingOps = accepts.OutstandingOps - 1 /\ e.disturbed = accepts.disturbed
      /\ e.ub = (accepts.ub \/ accepts.freed)
  BY <1>2, <1>3 DEF SameMain, SamePool, SameLife
<1>5. Moves(accepts, e, w) /\ e.at[w] = "idle"
  BY <1>1, <1>4, MovesEffect DEF Doing
<1>6. ~accepts.disturbed => LockMoves(accepts, e, w)
  <2>1. ~accepts.disturbed => accepts.SockCritSec = w
    BY <1>1 DEF AcceptsInv, Steady, Handling
  <2>2. QED
    BY <1>4, <1>5, <2>1, AcceptSets DEF LockMoves, Moves, Handling
<1>7. accepts.OutstandingOps \in Int
  BY <1>1 DEF AcceptsTyped
<1>8. ASSUME Leaving(e) \ {w} = Leaving(accepts) \ {w} PROVE Balance(e)
  <2>1. Out(e) = Out(accepts) /\ e.main = accepts.main
    BY <1>4 DEF Out, SamePool, SameMain
  <2>2. w \notin Leaving(e) /\ w \in Leaving(accepts)
    BY <1>1, <1>5 DEF Leaving
  <2>3. One(w \in Leaving(e)) = 0 /\ One(w \in Leaving(accepts)) = 1
    BY <2>2 DEF One
  <2>4. One(0 \in Out(accepts)) \in Int /\ One(accepts.main = "count") \in Int
    BY DEF One
  <2>5. e.OutstandingOps = accepts.OutstandingOps + One(0 \in Out(e)) - One(0 \in Out(accepts))
                             + One(w \in Leaving(e)) - One(w \in Leaving(accepts))
                             - One(e.main = "count") + One(accepts.main = "count")
    BY <1>4, <1>7, <2>1, <2>3, <2>4
  <2>6. QED
    BY <1>4, <1>7, <1>8, <2>1, <2>5, BalanceOk DEF AcceptsInv, SameLife
<1>9. e.OutstandingOps \in Int /\ e.SockCritSec \in Listening!Workers \cup {Listening!NoThread}
  BY <1>4, <1>7
<1>10. QED
  BY <1>1, <1>3, <1>4, <1>5, <1>6, <1>8, <1>9, HandlerEnds

(***************************************************************************)
(* Clients and time.                                                       *)
(***************************************************************************)
LEMMA SocketChanges ==
  ASSUME NEW a, AcceptsTyped(a), NEW s \in 1 .. Len(a.sockets), NEW v \in SocketStates, NEW e,
         e.sclient = a.sclient, e.sockets = [a.sockets EXCEPT ![s] = v]
  PROVE  /\ SocketsTyped(e)
         /\ v # "closed" => \A c \in Listening!Slots :
              a.sclient[c] # 0 /\ a.sockets[a.sclient[c]] # "closed" => e.sockets[e.sclient[c]] # "closed"
<1>1. /\ a.sockets \in Seq(SocketStates) /\ Len(a.sockets) \in Nat
      /\ \A c \in Listening!Slots : a.sclient[c] \in Nat /\ a.sclient[c] <= Len(a.sockets)
  BY DEF AcceptsTyped
<1>2. /\ e.sockets \in Seq(SocketStates) /\ Len(e.sockets) = Len(a.sockets)
      /\ \A m \in 1 .. Len(a.sockets) : e.sockets[m] = IF m = s THEN v ELSE a.sockets[m]
  BY <1>1, SocketSteps
<1>3. SocketsTyped(e)
  BY <1>1, <1>2 DEF AcceptsTyped, SocketsTyped
<1>4. ASSUME NEW c \in Listening!Slots, a.sclient[c] # 0 PROVE a.sclient[c] \in 1 .. Len(a.sockets)
  BY <1>1, <1>4
<1>5. QED
  BY <1>2, <1>3, <1>4

SameRest(a, e) ==
  /\ SameMain(a, e) /\ SameLife(a, e) /\ SameWorkers(a, e) /\ e.OutstandingOps = a.OutstandingOps /\ e.ub = a.ub

OnlyCompletes(a, e) ==
  \A c \in Listening!Slots : e.op[c] = a.op[c] \/ (a.op[c] = "pending" /\ e.op[c] \in {"ok", "error"})

\* A step of nobody's: the buffers, their sockets and the disturbance change.
LEMMA OutsideOk ==
  ASSUME NEW a, AcceptsInv(a), NEW e, DOMAIN e = AcceptFields, SameRest(a, e), e.disturbed \in BOOLEAN,
         e.op \in [Listening!Slots -> OpStates], SocketsTyped(e), OnlyCompletes(a, e),
         ~e.disturbed => ~a.disturbed /\ PoolKept(a, e)
  PROVE  AcceptsInv(e)
<1>1. AcceptsTyped(a) /\ SameMain(a, e) /\ SameLife(a, e) /\ SameWorkers(a, e)
  BY DEF AcceptsInv, SameRest
<1>2. SameBegun(a, e) /\ e.main = a.main
  BY <1>1, MainStays
<1>3. AcceptsTyped(e)
  <2>1. /\ e.OutstandingOps \in Int /\ e.SockCritSec \in Listening!Workers \cup {Listening!NoThread}
        /\ e.at \in [Listening!Workers -> Doing] /\ e.slot = a.slot
        /\ e.freed \in BOOLEAN /\ e.early \in BOOLEAN /\ e.ub \in BOOLEAN
    BY <1>1 DEF AcceptsTyped, SameRest, SameLife, SameWorkers
  <2>2. Typed(a, e)
    BY <1>1, <2>1 DEF Typed
  <2>3. QED
    BY <1>1, <2>2, TypedOk
<1>4. Handled(e)
  <2>1. SameHands(a, e)
    BY <1>1 DEF SameHands, SameWorkers
  <2>2. \A c \in Listening!Slots : ~Begun(a, c) => a.op[c] = "none"
    BY DEF AcceptsInv, Handled
  <2>3. SameTaken(a, e)
    BY <1>2, <2>2 DEF SameTaken, SameBegun, OnlyCompletes
  <2>4. QED
    BY <2>1, <2>3, HandsOk DEF AcceptsInv
<1>5. Out(e) = Out(a) /\ Leaving(e) = Leaving(a)
  BY <1>1 DEF Out, Leaving, Listening!Counts, SameWorkers, OnlyCompletes
<1>6. Balance(e)
  BY <1>1, <1>2, <1>5, SameBalance DEF AcceptsInv, SameRest, SameLife
<1>7. Ends(e)
  BY <1>1, <1>2, <1>5, StaysEnded DEF AcceptsInv, SameLife
<1>8. Steady(e)
  BY <1>1, <1>2 DEF AcceptsInv, Steady, SameRest, SameLife, SameWorkers, SameBegun, PoolKept
<1>9. QED
  BY <1>3, <1>4, <1>6, <1>7, <1>8 DEF AcceptsInv

Becomes(a, b, v, e) ==
  a.sclient[b] # 0 /\ e.sclient = a.sclient /\ e.sockets = [a.sockets EXCEPT ![a.sclient[b]] = v]

\* A socket that a buffer names becomes silent, old or closed.
LEMMA SocketStepOk ==
  ASSUME NEW a, AcceptsInv(a), NEW e, DOMAIN e = AcceptFields, SameRest(a, e), e.disturbed \in BOOLEAN,
         e.op = a.op, NEW b \in Listening!Slots, NEW v \in SocketStates, Becomes(a, b, v, e),
         ~e.disturbed => ~a.disturbed, e.disturbed \/ v # "closed"
  PROVE  AcceptsInv(e)
<1>1. AcceptsTyped(a) /\ a.sclient[b] \in 1 .. Len(a.sockets)
  <2>1. /\ AcceptsTyped(a) /\ a.sockets \in Seq(SocketStates) /\ a.sclient[b] # 0
        /\ a.sclient[b] \in Nat /\ a.sclient[b] <= Len(a.sockets)
    BY DEF AcceptsInv, AcceptsTyped, Becomes
  <2>2. Len(a.sockets) \in Nat
    BY <2>1
  <2>3. QED
    BY <2>1, <2>2
<1>2. /\ SocketsTyped(e)
      /\ v # "closed" => \A c \in Listening!Slots :
           a.sclient[c] # 0 /\ a.sockets[a.sclient[c]] # "closed" => e.sockets[e.sclient[c]] # "closed"
  BY <1>1, SocketChanges DEF Becomes
<1>3. e.op \in [Listening!Slots -> OpStates] /\ OnlyCompletes(a, e)
  BY <1>1 DEF AcceptsTyped, OnlyCompletes
<1>4. SameBegun(a, e)
  BY MainStays DEF SameRest
<1>5. v # "closed" => PoolKept(a, e)
  BY <1>2, <1>4 DEF PoolKept, SameBegun, InPool, Becomes, Listening!INVALID_SOCKET
<1>6. QED
  BY <1>2, <1>3, <1>5, OutsideOk

LEMMA ConnectOk ==
  ASSUME AcceptsInv(accepts), NEW b \in Listening!Slots, Listening!Connect(b)
  PROVE  AcceptsInv(accepts')
<1> SUFFICES ASSUME NEW e, e = accepts' PROVE AcceptsInv(e)
  OBVIOUS
<1>1. /\ AcceptsTyped(accepts) /\ DOMAIN accepts = AcceptFields /\ accepts.sclient[b] # 0
      /\ e = [accepts EXCEPT !.sockets[accepts.sclient[b]] = "silent", !.clients = @ + 1]
  BY DEF Listening!Connect, Listening!Socket, Listening!INVALID_SOCKET, AcceptsInv, AcceptsTyped
<1>2. /\ DOMAIN e = AcceptFields /\ SameRest(accepts, e) /\ e.disturbed = accepts.disturbed
      /\ e.op = accepts.op /\ e.sclient = accepts.sclient
      /\ e.sockets = [accepts.sockets EXCEPT ![accepts.sclient[b]] = "silent"]
  BY <1>1 DEF AcceptFields, SameRest, SameMain, SameLife, SameWorkers
<1>3. e.disturbed \in BOOLEAN
  BY <1>1, <1>2 DEF AcceptsTyped
<1>4. PICK v \in SocketStates : v # "closed" /\ Becomes(accepts, b, v, e)
  BY <1>1, <1>2 DEF Becomes, SocketStates
<1>5. QED
  BY <1>1, <1>2, <1>3, <1>4, SocketStepOk

LEMMA FiveMinutesOk ==
  ASSUME AcceptsInv(accepts), NEW b \in Listening!Slots, Listening!FiveMinutes(b)
  PROVE  AcceptsInv(accepts')
<1> SUFFICES ASSUME NEW e, e = accepts' PROVE AcceptsInv(e)
  OBVIOUS
<1>1. /\ AcceptsTyped(accepts) /\ DOMAIN accepts = AcceptFields /\ accepts.sclient[b] # 0
      /\ e = [accepts EXCEPT !.sockets[accepts.sclient[b]] = "old"]
  BY DEF Listening!FiveMinutes, Listening!Socket, Listening!INVALID_SOCKET, AcceptsInv, AcceptsTyped
<1>2. /\ DOMAIN e = AcceptFields /\ SameRest(accepts, e) /\ e.disturbed = accepts.disturbed
      /\ e.op = accepts.op /\ e.sclient = accepts.sclient
      /\ e.sockets = [accepts.sockets EXCEPT ![accepts.sclient[b]] = "old"]
  BY <1>1 DEF AcceptFields, SameRest, SameMain, SameLife, SameWorkers
<1>3. e.disturbed \in BOOLEAN
  BY <1>1, <1>2 DEF AcceptsTyped
<1>4. PICK v \in SocketStates : v # "closed" /\ Becomes(accepts, b, v, e)
  BY <1>1, <1>2 DEF Becomes, SocketStates
<1>5. QED
  BY <1>1, <1>2, <1>3, <1>4, SocketStepOk

LEMMA CompletesOk ==
  ASSUME AcceptsInv(accepts), NEW b \in Listening!Slots, Listening!Completes(b)
  PROVE  AcceptsInv(accepts')
<1> SUFFICES ASSUME NEW e, e = accepts' PROVE AcceptsInv(e)
  OBVIOUS
<1>1. AcceptsTyped(accepts) /\ DOMAIN accepts = AcceptFields /\ accepts.op[b] = "pending"
  BY DEF Listening!Completes, AcceptsInv, AcceptsTyped
<1>2. PICK o \in {"ok", "error"} :
        e = [accepts EXCEPT !.op[b] = o, !.disturbed = (o = "error") \/ accepts.disturbed]
  <2>1. accepts.disturbed \in BOOLEAN
    BY <1>1 DEF AcceptsTyped
  <2>2. CASE e = [accepts EXCEPT !.op[b] = "error", !.disturbed = TRUE]
    BY <2>2
  <2>3. CASE e = [accepts EXCEPT !.op[b] = "ok"]
    <3>1. [accepts EXCEPT !.op[b] = "ok"] = [accepts EXCEPT !.op[b] = "ok", !.disturbed = accepts.disturbed]
      BY <1>1 DEF AcceptFields
    <3>2. QED
      BY <2>1, <2>3, <3>1
  <2>4. QED
    BY <2>2, <2>3 DEF Listening!Completes
<1>3. /\ DOMAIN e = AcceptFields /\ SameRest(accepts, e) /\ e.disturbed = ((o = "error") \/ accepts.disturbed)
      /\ e.op = [accepts.op EXCEPT ![b] = o] /\ e.sclient = accepts.sclient /\ e.sockets = accepts.sockets
  BY <1>1, <1>2 DEF AcceptFields, SameRest, SameMain, SameLife, SameWorkers
<1>4. /\ e.op \in [Listening!Slots -> OpStates] /\ e.op[b] = o
      /\ \A c \in Listening!Slots \ {b} : e.op[c] = accepts.op[c]
  BY <1>1, <1>3 DEF AcceptsTyped, OpStates
<1>5. SocketsTyped(e) /\ SameBegun(accepts, e)
  BY <1>1, <1>3, SameSockets, MainStays DEF SameRest
<1>6. e.disturbed \in BOOLEAN
  BY <1>1, <1>3 DEF AcceptsTyped
<1>7. ~e.disturbed => ~accepts.disturbed /\ PoolKept(accepts, e)
  BY <1>3, <1>4, <1>5 DEF PoolKept, SameBegun, InPool
<1>8. OnlyCompletes(accepts, e)
  BY <1>1, <1>4 DEF OnlyCompletes
<1>9. QED
  BY <1>3, <1>4, <1>5, <1>6, <1>7, <1>8, OutsideOk

LEMMA ConnectionEndsOk ==
  ASSUME AcceptsInv(accepts), NEW w \in Listening!Workers, Listening!ConnectionEnds(w)
  PROVE  AcceptsInv(accepts')
<1> SUFFICES ASSUME NEW e, e = accepts' PROVE AcceptsInv(e)
  OBVIOUS
<1> DEFINE b == accepts.slot[w]
           s == accepts.sclient[b]
<1>1. /\ AcceptsTyped(accepts) /\ DOMAIN accepts = AcceptFields /\ accepts.at[w] = "repost"
      /\ e = [accepts EXCEPT !.sockets[s] = "closed", !.disturbed = TRUE]
  BY DEF Listening!ConnectionEnds, AcceptsInv, AcceptsTyped
<1>2. b \in Listening!Slots
  BY <1>1 DEF AcceptsInv, Handled, Holding
<1>3. /\ DOMAIN e = AcceptFields /\ SameRest(accepts, e) /\ e.disturbed = TRUE
      /\ e.op = accepts.op /\ e.sclient = accepts.sclient
      /\ e.sockets = [accepts.sockets EXCEPT ![s] = "closed"]
  BY <1>1 DEF AcceptFields, SameRest, SameMain, SameLife, SameWorkers
<1>4. CASE s # 0
  <2>1. "closed" \in SocketStates /\ Becomes(accepts, b, "closed", e)
    BY <1>3, <1>4 DEF Becomes, SocketStates
  <2>2. QED
    BY <1>2, <1>3, <1>4, <2>1, SocketStepOk
<1>5. CASE s = 0
  <2>1. e.sockets = accepts.sockets
    <3>1. accepts.sockets \in Seq(SocketStates)
      BY <1>1 DEF AcceptsTyped
    <3>2. accepts.sockets = [n \in 1 .. Len(accepts.sockets) |-> accepts.sockets[n]] /\ Len(accepts.sockets) \in Nat
      BY <3>1
    <3>3. s \notin 1 .. Len(accepts.sockets)
      BY <1>5
    <3>4. QED
      BY <1>3, <3>2, <3>3
  <2>2. SocketsTyped(e) /\ e.op \in [Listening!Slots -> OpStates] /\ OnlyCompletes(accepts, e)
    BY <1>1, <1>3, <2>1, SameSockets DEF AcceptsTyped, OnlyCompletes
  <2>3. QED
    BY <1>3, <2>2, OutsideOk
<1>6. QED
  BY <1>4, <1>5

LEMMA AcceptsSteps ==
  ASSUME AcceptsInv(accepts), Listening!AcceptsNext
  PROVE  AcceptsInv(accepts')
<1>1. CASE \/ Listening!PostFirst \/ Listening!CountFirst \/ Listening!OneMinute
           \/ Listening!Reap \/ Listening!CloseOld
  BY <1>1, PostFirstOk, CountFirstOk, OneMinuteOk, ReapOk, CloseOldOk
<1>2. ASSUME NEW w \in Listening!Workers,
             \/ Listening!GetQueuedCompletionStatus(w) \/ Listening!DropFailed(w) \/ Listening!FreeSocketObj(w)
             \/ Listening!EnterCriticalSection(w) \/ Listening!Associate(w)
      PROVE  AcceptsInv(accepts')
  BY <1>2, GetQueuedCompletionStatusOk, DropFailedOk, FreeSocketObjOk, EnterCriticalSectionOk, AssociateOk
<1>3. ASSUME NEW w \in Listening!Workers,
             \/ Listening!Repost(w) \/ Listening!CountRepost(w)
             \/ Listening!LeaveCriticalSection(w) \/ Listening!ConnectionEnds(w)
      PROVE  AcceptsInv(accepts')
  BY <1>3, RepostOk, CountRepostOk, LeaveCriticalSectionOk, ConnectionEndsOk
<1>4. ASSUME NEW b \in Listening!Slots, Listening!Connect(b) \/ Listening!Completes(b) \/ Listening!FiveMinutes(b)
      PROVE  AcceptsInv(accepts')
  BY <1>4, ConnectOk, CompletesOk, FiveMinutesOk
<1>5. QED
  BY <1>1, <1>2, <1>3, <1>4 DEF Listening!AcceptsNext

LEMMA SameCount ==
  ASSUME NEW S
  PROVE  Listening!Cardinality(S) = Cardinality(S)
BY DEF Listening!Cardinality, Cardinality

\* As long as nothing fails, a buffer is taken when one worker has it.
LEMMA OneHolder ==
  ASSUME NEW a, AcceptsInv(a), ~a.disturbed, NEW b \in Listening!Slots, NEW H,
         H = {w \in Listening!Workers : a.slot[w] = b /\ a.at[w] \in {"enter", "associate", "repost"}}
  PROVE  Cardinality(H) <= 1 /\ (a.op[b] = "taken" <=> Cardinality(H) = 1)
<1>1. \A w \in Listening!Workers : w \in H <=> Holds(a, w, b)
  BY DEF AcceptsInv, Steady, Holds, Holding
<1>2. CASE a.op[b] = "taken"
  <2>1. PICK w \in Listening!Workers : Holds(a, w, b)
    BY <1>2 DEF AcceptsInv, Handled
  <2>2. \A v \in Listening!Workers : Holds(a, v, b) => v = w
    BY <2>1 DEF AcceptsInv, Handled, Holds
  <2>3. H = {w}
    BY <1>1, <2>1, <2>2
  <2>4. Cardinality(H) = 1
    BY <2>3, FS_Singleton
  <2>5. QED
    BY <1>2, <2>4
<1>3. CASE a.op[b] # "taken"
  <2>1. \A w \in Listening!Workers : ~Holds(a, w, b)
    BY <1>3 DEF AcceptsInv, Handled, Holds
  <2>2. H = {}
    BY <1>1, <2>1
  <2>3. QED
    BY <1>3, <2>2, FS_EmptySet
<1>4. QED
  BY <1>2, <1>3

(***************************************************************************)
(* The accepts of the completion-port server are counted whatever fails,   *)
(* and its pool stays whole as long as nothing does: for any number of     *)
(* accepts, completion threads and clients (iocpserver.cpp, PostAccept,    *)
(* HandleIo, FreeSocketObj and main).                                      *)
(***************************************************************************)
THEOREM AcceptsAreCounted == Spec => []AcceptsAccounted
<1> DEFINE Inv == Runs(accepts) => AcceptsInv(accepts)
<1>1. Init => Inv
  BY AcceptsStart DEF Init, Runs
<1>2. ASSUME Inv, [Next]_vars PROVE Inv'
  <2>1. CASE ListeningRuns
    BY <1>2, <2>1, AcceptsSteps DEF ListeningRuns
  <2>2. CASE UNCHANGED accepts
    BY <1>2, <2>2 DEF Runs
  <2>3. QED
    BY <1>2, <2>1, <2>2
       DEF Next, OverRuns, ClientRuns, BlockingClientRuns, ProbeRuns, GatewayRuns, InstallerRuns, vars
<1>3. Inv => AcceptsAccounted
  <2> SUFFICES ASSUME AcceptsInv(accepts) PROVE Listening!AcceptsAccounted
    BY DEF AcceptsAccounted
  <2> DEFINE H(b) == {w \in Listening!Workers : accepts.slot[w] = b
                                                /\ accepts.at[w] \in {"enter", "associate", "repost"}}
             Posted == {b \in Listening!Slots : accepts.main = "post" => b < accepts.i}
             HandlerAt == {"associate", "repost", "count", "leave"}
             Uncounted == IF accepts.main = "count" THEN 1 ELSE 0
  <2>1. ~accepts.freed =>
          accepts.OutstandingOps = Listening!Cardinality({b \in Listening!Slots : accepts.op[b] \in Listening!Counts})
                                   + Listening!Cardinality({w \in Listening!Workers : accepts.at[w] = "leave"}) - Uncounted
    BY SameCount DEF AcceptsInv, Balance, Out, Leaving, One
  <2>2. accepts.freed /\ ~accepts.early => {b \in Listening!Slots : accepts.op[b] \in Listening!Counts} = {}
    BY DEF AcceptsInv, Ends, Out
  <2>3. ASSUME ~accepts.disturbed
        PROVE  /\ ~accepts.ub /\ ~accepts.freed /\ accepts.main # "ended"
               /\ \A b \in Posted : (accepts.main = "count" => b <= accepts.i) =>
                    /\ accepts.op[b] \in {"pending", "ok", "taken"}
                    /\ Listening!Socket(accepts, b) # "closed"
                    /\ \A c \in Listening!Slots \ {b} : accepts.sclient[c] # accepts.sclient[b]
                    /\ accepts.op[b] = "taken" <=> Listening!Cardinality(H(b)) = 1
                    /\ Listening!Cardinality(H(b)) <= 1
               /\ \A w \in Listening!Workers : accepts.at[w] \in HandlerAt <=> accepts.SockCritSec = w
    <3>1. /\ ~accepts.ub /\ ~accepts.freed /\ accepts.main # "ended"
          /\ \A w \in Listening!Workers : accepts.at[w] \in HandlerAt <=> accepts.SockCritSec = w
      BY <2>3 DEF AcceptsInv, Steady, Handling
    <3>2. ASSUME NEW b \in Posted, accepts.main = "count" => b <= accepts.i
          PROVE  /\ accepts.op[b] \in {"pending", "ok", "taken"}
                 /\ Listening!Socket(accepts, b) # "closed"
                 /\ \A c \in Listening!Slots \ {b} : accepts.sclient[c] # accepts.sclient[b]
      <4>1. b \in Listening!Slots /\ InPool(accepts, b)
        BY <2>3, <3>2 DEF AcceptsInv, Steady, Begun
      <4>2. QED
        BY <4>1 DEF InPool, Listening!Socket
    <3>3. \A b \in Listening!Slots : Listening!Cardinality(H(b)) <= 1 /\ (accepts.op[b] = "taken" <=> Listening!Cardinality(H(b)) = 1)
      BY <2>3, OneHolder, SameCount
    <3>4. QED
      BY <3>1, <3>2, <3>3
  <2>4. QED
    BY <2>1, <2>2, <2>3 DEF Listening!AcceptsAccounted
<1>4. QED
  BY <1>1, <1>2, <1>3, PTL DEF Spec

=============================================================================
