-------------------------- MODULE MCStackLowering --------------------------
(***************************************************************************)
(* RAM of nine cells, a window of four and chunks of two.  RAM begins    *)
(* with any set of its cells in use; words in use next to each other       *)
(* cancel out.  The programs: one access by dup and by swap, at the edge   *)
(* of the window and beyond it; operations that become one shuffle, with   *)
(* and without a prefix that stays, up to its limits and beyond them;      *)
(* source reads and writes around an access, which change what is free.    *)
(***************************************************************************)
EXTENDS StackLowering

MCRams == {[a \in Words |-> IF a \notin used THEN 0 ELSE IF a % 2 = 0 THEN 1 ELSE Order - 1]
             : used \in SUBSET Words}

MCStacks == {<<3, 0, 7, 1, 0, 6, 2, 8, 0, 4, 5, 6>>}

MCPrograms ==
    {<<<<"Dup", 4>>>>,
     <<<<"Swap", 6>>>>,
     <<<<"Swap", 4>>, <<"Dup", 6>>, <<"Pop", 1>>, <<"Dup", 4>>, <<"Swap", 5>>>>,
     <<<<"Dup", 6>>, <<"Pop", 1>>, <<"Swap", 4>>, <<"Pop", 2>>>>,
     <<<<"Dup", 4>>, <<"Dup", 4>>, <<"Dup", 4>>, <<"Dup", 4>>>>,
     <<<<"Push", 4>>, <<"Push", 8>>, <<"Push", 0>>, <<"RamWrite", 2>>, <<"Swap", 4>>,
       <<"Push", 3>>, <<"RamRead", 3>>, <<"Add", 0>>, <<"Sub", 0>>>>}

=============================================================================
