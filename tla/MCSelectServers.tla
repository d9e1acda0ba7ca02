---------------------------- MODULE MCSelectServers ----------------------------
(* Instance of SelectServers for TLC: one connection that sends two messages, three to *)
(* asyncserver, which may leave one unread (or a UDP socket that receives them),    *)
(* beside one that only connects and ends.                                             *)
EXTENDS SelectServers
CONSTANTS s1, s2
MCMaxMessages == s1 :> 3 @@ s2 :> 0
MCMessagesTo == [x \in Servers |-> [n \in 0..1 |-> IF x = "async" /\ n = 0 THEN 3 ELSE 2]]
=============================================================================
