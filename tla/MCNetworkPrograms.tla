-------------------------- MODULE MCNetworkPrograms --------------------------
(* Instance of NetworkPrograms for TLC. *)
EXTENDS NetworkPrograms
MCTicks == {<<0, 1>>, <<65535, 32767>>}

(* A stream protocol and a raw one of the same family.                     *)
Protocols == <<[af |-> 2, type |-> 1, proto |-> 6, flags |-> 1],
               [af |-> 2, type |-> 3, proto |-> 0, flags |-> 2]>>

(* The user of authpf, and gateways on which she is banned, listed as a    *)
(* member of a class or a group, not listed, or behind a wrong line.       *)
Ann == [name |-> "ann", class |-> "staff", groups |-> {"net"}]

Line(sign, is) == [sign |-> sign, is |-> is]
Missing(st) == [st |-> st, lines |-> <<>>]
Listing(lines) == [st |-> "open", lines |-> lines]
Files(banned, allow, config) == [banned |-> banned, allow |-> allow, config |-> config]

MCGateways ==
  {Files("absent", Missing("absent"), <<"blank", "pair">>),
   Files("open", Missing("absent"), <<>>),
   Files("absent", Missing("unreadable"), <<>>),
   Files("absent", Listing(<<Line("", "bob"), Line("@", "staff")>>), <<"pair">>),
   Files("absent", Listing(<<Line("%", "wheel"), Line("%", "net")>>), <<"pair", "no name">>),
   Files("absent", Listing(<<Line("%", "no group"), Line("", "*")>>), <<>>),
   Files("absent", Listing(<<Line("", "bob"), Line("%", "wheel")>>), <<>>)}
=============================================================================
