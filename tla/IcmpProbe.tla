------------------------------ MODULE IcmpProbe ------------------------------
(***************************************************************************)
(* ping and tracert of chapter 11.  Both fill in one ICMP echo request,    *)
(* send it again and again with a new sequence number, and wait for one    *)
(* overlapped receive on a raw socket, which stays posted when the wait    *)
(* times out.  Neither looks at the sequence number of what it receives,   *)
(* so an answer that is late counts for the request that is waited for.    *)
(*                                                                         *)
(* A packet is its sequence of 16-bit words as the machine reads them; a   *)
(* last single byte is a word below 256.  Routers and the destination are  *)
(* named by their distance.                                                *)
(***************************************************************************)
EXTENDS Integers, SequencesExt

CONSTANTS DEFAULT_SEND_COUNT,
          PingTtl, TraceTtl,   \* gTtl of ping, and of tracert
          SystemTtl,           \* that of a socket on which none has been set
          Distances,           \* how far the destination may be
          Ticks,               \* what GetTickCount may return, as two words
          Ids,                 \* process ids
          MaxRequests,         \* bound: requests of tracert, which may retry for ever
          MaxFaults            \* bound: foreign packets and failures

VARIABLE probe

Sum(words) == FoldLeft(LAMBDA a, b : a + b, 0, words)

(* The sum is folded twice into 16 bits and complemented.                  *)
checksum(words) ==
  LET folded == (Sum(words) \div 65536) + (Sum(words) % 65536)
      again == folded + (folded \div 65536)
  IN 65535 - (again % 65536)

EchoRequest == 8
EchoRequest6 == 128

InitIcmpHeader(id, tick) == <<EchoRequest, 0, id, 0>> \o tick \o <<17733, 69>>
InitIcmp6Header(id) == <<EchoRequest6, 0, id, 0, 8995, 35>>

SetIcmpSequence(words, tick) == [words EXCEPT ![4] = tick[1]]

(* Source, destination, length and next header, the last in network order; *)
(* an odd packet is padded.                                                *)
PseudoHeader(words) == <<33022, 65535>> \o <<767, 65534>> \o <<0, 256 * (2 * Len(words) - 1), 0, 256 * 58>>

ComputeIcmp6PseudoHeaderChecksum(words, found) ==
  IF found THEN checksum(PseudoHeader(words) \o words) ELSE 65535

ChecksumOver(af, words, found) ==
  [words EXCEPT ![2] = IF af = 4 THEN checksum(words) ELSE ComputeIcmp6PseudoHeaderChecksum(words, found)]

(* The field counts as zero in its own sum.                                *)
ComputeIcmpChecksum(af, words, found) == ChecksumOver(af, [words EXCEPT ![2] = 0], found)

(* What a receiver checks: the one's complement sum of everything is -0.   *)
Verifies(af, words) == Sum((IF af = 4 THEN <<>> ELSE PseudoHeader(words)) \o words) % 65535 = 0
-----------------------------------------------------------------------------
None == [from |-> 0, type |-> "none"]

(* hops is the time to live set on the socket, 0 for none; last what       *)
(* recvbuf and from hold.  late, unrouted and misled serve the properties: *)
(* a wait has timed out, a checksum could not be made, and a line may come *)
(* from a packet that is no answer or from a request with SystemTtl.       *)
Setup(prog, ttl, af, dist, id, tick) ==
  [prog |-> prog, af |-> af, dist |-> dist, pc |-> "sending", ttl |-> ttl, hops |-> 0,
   i |-> 0, icmpbuf |-> IF af = 4 THEN InitIcmpHeader(id, tick) ELSE InitIcmp6Header(id),
   posted |-> TRUE, got |-> None, last |-> None, inbox |-> <<>>, flying |-> {}, sent |-> 0,
   lines |-> <<>>, late |-> FALSE, misled |-> FALSE, unrouted |-> FALSE, faults |-> 0]

StartPing(af, dist, id, tick) == Setup("ping", PingTtl, af, dist, id, tick)
StartTracert(af, dist, id, tick) == Setup("tracert", 1, af, dist, id, tick)

ProbeInit ==
  \E af \in {4, 6}, dist \in Distances, id \in Ids, tick \in Ticks :
    probe \in {StartPing(af, dist, id, tick), StartTracert(af, dist, id, tick)}

CanFail == probe.faults < MaxFaults

(* A datagram that has come meanwhile completes the receive at once; a     *)
(* receive that cannot be posted is not missed.                            *)
PostRecvfrom(p, ok) ==
  IF ~ok THEN [p EXCEPT !.posted = FALSE, !.got = None, !.faults = @ + 1]
  ELSE IF p.inbox = <<>> THEN [p EXCEPT !.posted = TRUE, !.got = None]
  ELSE [p EXCEPT !.posted = FALSE, !.got = Head(p.inbox), !.last = Head(p.inbox), !.inbox = Tail(@)]

(* tracert sets it before each request, ping before the first; neither     *)
(* minds when that fails, and the socket keeps what it had.                *)
SetsTtl(p) == p.prog = "tracert" \/ p.sent = 0

SetTtlNext(p, ok) == IF ok THEN p.ttl + 1 ELSE p.hops
SetTtl(p, ok) == IF ok THEN p.ttl ELSE p.hops

OnTheWire(hops) == IF hops = 0 THEN SystemTtl ELSE hops

Sent(p, words, hops, failed) ==
  [p EXCEPT !.icmpbuf = words, !.hops = hops, !.sent = @ + 1, !.pc = "waiting",
            !.flying = @ \cup {[n |-> p.sent + 1, ttl |-> OnTheWire(hops)]},
            !.misled = @ \/ hops = 0, !.faults = IF failed THEN @ + 1 ELSE @]

(* The sequence number is set before the checksum is computed.  Without a  *)
(* route to the destination the IPv6 checksum is -1.                       *)
Send ==
  /\ probe.pc = "sending" /\ probe.sent < MaxRequests
  /\ \E tick \in Ticks, found, ok \in BOOLEAN :
       LET words == ComputeIcmpChecksum(probe.af, SetIcmpSequence(probe.icmpbuf, tick), found)
           hops == IF SetsTtl(probe) THEN SetTtl(probe, ok) ELSE probe.hops
       IN /\ found \/ (probe.af = 6 /\ CanFail)
          /\ ok \/ (SetsTtl(probe) /\ CanFail)
          /\ probe' = Sent([probe EXCEPT !.unrouted = @ \/ ~found], words, hops, ~(found /\ ok))

Ended(p) == [p EXCEPT !.pc = "ended", !.flying = {}, !.inbox = <<>>, !.got = None, !.last = None,
                      !.posted = FALSE, !.i = 0, !.ttl = 0, !.hops = 0]

SendFails ==
  /\ probe.pc = "sending" /\ CanFail
  /\ probe' = Ended([probe EXCEPT !.faults = @ + 1])

Again(p) == [p EXCEPT !.pc = "sending"]

(* The for loop of ping and the do loop of tracert.                        *)
NextPing(p) == IF p.i + 1 = DEFAULT_SEND_COUNT THEN Ended(p) ELSE Again([p EXCEPT !.i = @ + 1])
NextHop(p, notdone) == IF notdone /\ p.ttl < TraceTtl THEN Again(p) ELSE Ended(p)

(* "Request timed out."  tracert tries the same distance again.            *)
TimesOut ==
  /\ probe.pc = "waiting" /\ probe.got = None
  /\ LET p == [probe EXCEPT !.late = TRUE]
     IN probe' = IF probe.prog = "ping" THEN NextPing(p) ELSE NextHop(p, TRUE)

(* TTL expired and echo replies pass, and anything else with code 0.       *)
AnalyzePacket(reply) == reply.type # "other, code not 0"

IsSockaddrEqual(p, reply) == reply.from = p.dist

PingReceives(ok) ==
  /\ probe.prog = "ping" /\ probe.pc = "waiting" /\ probe.got # None
  /\ probe' = NextPing(PostRecvfrom(probe, ok))

TracertReceives(ok) ==
  /\ probe.prog = "tracert" /\ probe.pc = "waiting" /\ probe.got # None
  /\ LET reply == probe.got
         taken == AnalyzePacket(reply)
         notdone == ~(taken /\ IsSockaddrEqual(probe, reply))
         p == IF taken THEN [probe EXCEPT !.lines = Append(@, [ttl |-> probe.ttl, from |-> reply.from]),
                                          !.ttl = @ + 1]
              ELSE probe
     IN probe' = NextHop(IF notdone THEN PostRecvfrom(p, ok) ELSE p, notdone)

Receives == \E ok \in BOOLEAN : (ok \/ CanFail) /\ (PingReceives(ok) \/ TracertReceives(ok))
-----------------------------------------------------------------------------
(* The network loses, delays and reorders requests and answers; a request  *)
(* is answered where its time to live ends, or by the destination.         *)
Arrives(p, reply) ==
  IF p.posted THEN [p EXCEPT !.posted = FALSE, !.got = reply, !.last = reply]
  ELSE [p EXCEPT !.inbox = Append(@, reply)]

Answer(ttl, dist) ==
  IF ttl < dist THEN [from |-> ttl, type |-> "time exceeded"] ELSE [from |-> dist, type |-> "echo reply"]

Answered ==
  \E q \in probe.flying :
    LET p == [probe EXCEPT !.flying = @ \ {q}]
    IN \/ probe' = p
       \/ probe' = Arrives(p, Answer(q.ttl, probe.dist))

(* A raw socket receives what is meant for other programs too.             *)
Foreign ==
  /\ probe.pc \in {"sending", "waiting"} /\ CanFail
  /\ \E type \in {"echo reply", "other, code not 0"}, from \in Distances :
       probe' = Arrives([probe EXCEPT !.faults = @ + 1, !.misled = @ \/ type = "echo reply"],
                        [from |-> from, type |-> type])

(* The receive completes with an error.  WSAGetOverlappedResult says so,   *)
(* and main goes on with what the buffer and the address hold: the last    *)
(* packet, or what was on the stack.                                       *)
Leftovers(last) ==
  IF last # None THEN {last}
  ELSE [from : Distances \cup {0}, type : {"echo reply", "other, code not 0"}]

ReceiveFails ==
  /\ probe.posted /\ probe.pc \in {"sending", "waiting"} /\ CanFail
  /\ \E reply \in Leftovers(probe.last) :
       probe' = [probe EXCEPT !.posted = FALSE, !.got = reply, !.faults = @ + 1,
                              !.misled = @ \/ (probe.last = None /\ reply.type = "echo reply")]

ProbeNext == Send \/ SendFails \/ TimesOut \/ Receives \/ Answered \/ Foreign \/ ReceiveFails
-----------------------------------------------------------------------------
(* Every request leaves with a checksum its receiver accepts, the second   *)
(* and later ones too, which are made in the buffer of the one before      *)
(* (SetIcmpSequence, ComputeIcmpChecksum, checksum); excepted is IPv6      *)
(* without a route.                                                        *)
RequestsVerify == (probe.pc = "waiting" /\ ~probe.unrouted) => Verifies(probe.af, probe.icmpbuf)

(* However late answers are, a line of the trace never names a router that *)
(* is farther away than the number of the line says, also when the time to *)
(* live could not be raised.  Excepted are a packet that was no answer and *)
(* was taken for one (AnalyzePacket), and a request that left with         *)
(* SystemTtl because the first SetTtl failed.                              *)
NeverAhead ==
  ~probe.misled => \A k \in DOMAIN probe.lines : probe.lines[k].from <= probe.lines[k].ttl

(* As long as no wait has timed out and nothing has failed every line      *)
(* names the very router, or the destination: only an answer to an earlier *)
(* request, taken late, can put a nearer one there (main).                 *)
ExactOnTime ==
  ~probe.late /\ probe.faults = 0 =>
    \A k \in DOMAIN probe.lines :
      LET line == probe.lines[k]
      IN line.from = IF line.ttl < probe.dist THEN line.ttl ELSE probe.dist

TraceIsTrue == NeverAhead /\ ExactOnTime

(* "We start by setting the TTL value to one", "with each send, the TTL is *)
(* incremented by one" (tracert.cpp:17, :22): also when SetTtl fails.      *)
NamesHops == \A k \in DOMAIN probe.lines : probe.lines[k].from <= probe.lines[k].ttl
=============================================================================
