---------------------------- MODULE EchoService ----------------------------
(***************************************************************************)
(* What an echo server promises on its connections, whatever its I/O       *)
(* model: it returns the units it was sent, each once and in their order,  *)
(* and it ends a connection on its own only when the peer has finished and *)
(* has everything back.  Two weaker promises are of servers that do not    *)
(* keep this one: a server that repeats may return an earlier unit in the  *)
(* place of the next, and a hasty one may end a connection when the peer   *)
(* has finished and is still owed units.  The promise ends (excused) when  *)
(* something outside the server's control has failed.                      *)
(*                                                                         *)
(* Units are numbered in the order sent, so what was sent is a number.     *)
(***************************************************************************)
EXTENDS Naturals, Sequences, SequencesExt

CONSTANT Conns

VARIABLES
    sent,      \* [Conns -> Nat]: units the peer has sent
    finished,  \* [Conns -> BOOLEAN]: the peer will send no more
    out,       \* [Conns -> Seq(Nat)]: the units the server has returned
    ended,     \* [Conns -> BOOLEAN]: the server has closed the connection
    repeats,   \* from now on the server may return a unit again
    hasty,     \* it may end a connection with units not returned
    excused

serviceVars == <<sent, finished, out, ended, repeats, hasty, excused>>

kind == <<repeats, hasty, excused>>

Init ==
    /\ sent = [c \in Conns |-> 0]
    /\ finished = [c \in Conns |-> FALSE]
    /\ out = [c \in Conns |-> <<>>]
    /\ ended = [c \in Conns |-> FALSE]
    /\ {repeats, hasty} \subseteq BOOLEAN
    /\ excused = FALSE

Send(c) ==
    /\ ~finished[c]
    /\ sent' = [sent EXCEPT ![c] = sent'[c]] /\ sent'[c] > sent[c]
    /\ UNCHANGED <<finished, out, ended, kind>>

Finish(c) ==
    /\ finished' = [finished EXCEPT ![c] = TRUE]
    /\ UNCHANGED <<sent, out, ended, kind>>

(* The server returns the next units, or as many earlier ones. *)
Returned(c) ==
    /\ out' = [out EXCEPT ![c] = out'[c]]
    /\ IsPrefix(out[c], out'[c]) /\ Len(out'[c]) <= sent[c]
    /\ \A i \in Len(out[c]) + 1..Len(out'[c]) :
           out'[c][i] = i \/ (repeats /\ out'[c][i] \in 1..i)

Echo(c) ==
    /\ ~ended[c]
    /\ Returned(c)
    /\ UNCHANGED <<sent, finished, ended, kind>>

(* It may end the connection with the step that returns the last of them. *)
End(c) ==
    /\ finished[c] /\ ~ended[c]
    /\ Returned(c)
    /\ hasty \/ Len(out'[c]) = sent[c]
    /\ ended' = [ended EXCEPT ![c] = TRUE]
    /\ UNCHANGED <<sent, finished, kind>>

(* A send of a server that repeats is cut short. *)
CutShort ==
    /\ ~repeats /\ repeats'
    /\ UNCHANGED <<sent, finished, out, ended, hasty, excused>>

Excused == excused'

Next == Excused \/ CutShort \/ \E c \in Conns : Send(c) \/ Finish(c) \/ Echo(c) \/ End(c)

Spec == Init /\ [][Next]_serviceVars
=============================================================================
