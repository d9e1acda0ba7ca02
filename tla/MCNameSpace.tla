------------------------------ MODULE MCNameSpace ------------------------------
(* Two servers that want the same name, four with names of their own, a    *)
(* client that looks everything up, one that deletes what it finds, and    *)
(* two programs that are after the service classes.  The servers of three  *)
(* classes are one more than the array of classes holds, and four services *)
(* one more than the other array does.                                     *)
EXTENDS NameSpace

MCPrograms == {"s1", "s2", "s3", "s4", "s5", "s6", "c1", "c2", "r", "t"}

MCWorkloads == {{"s1", "s2", "r"}, {"s1", "s3", "c1", "c2"}, {"s1", "c1", "t"},
                {"s1", "s2", "s4"}, {"s1", "s3", "s5", "s6"}}

MCPlan ==
  [s1 |-> [role |-> "server", class |-> "C1", name |-> "a", delete |-> FALSE],
   s2 |-> [role |-> "server", class |-> "C2", name |-> "a", delete |-> FALSE],
   s3 |-> [role |-> "server", class |-> "C2", name |-> "b", delete |-> FALSE],
   s4 |-> [role |-> "server", class |-> "C3", name |-> "c", delete |-> FALSE],
   s5 |-> [role |-> "server", class |-> "C1", name |-> "d", delete |-> FALSE],
   s6 |-> [role |-> "server", class |-> "C2", name |-> "e", delete |-> FALSE],
   c1 |-> [role |-> "client", class |-> "C1", name |-> "*", delete |-> FALSE],
   c2 |-> [role |-> "client", class |-> "C1", name |-> "*", delete |-> TRUE],
   r  |-> [role |-> "remover", class |-> "C2", name |-> "a", delete |-> FALSE],
   t  |-> [role |-> "asker", class |-> "C2", name |-> "a", delete |-> FALSE]]
=============================================================================
