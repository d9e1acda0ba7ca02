---------------------------- MODULE MCDlMalloc ----------------------------
(* Values of the constants of DlMalloc for TLC. *)
EXTENDS DlMalloc

MCThreads == {"t1"}

MCSizes == {3, 9}

MCAlignments == {4}

MCBulks == {<<2, 3>>}

MCLimits == {32}

MCCapacities == {12}

(* The system grants everything, mapping at the lowest or the highest page, or nothing. *)
MCOsAnswers ==
    {[brk |-> TRUE, base |-> 16, unmap |-> TRUE], [brk |-> FALSE, base |-> 32, unmap |-> TRUE],
     [brk |-> FALSE, base |-> NULL, unmap |-> FALSE]}
=============================================================================
