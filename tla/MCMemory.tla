------------------------------ MODULE MCMemory ------------------------------
(* Memory for TLC: programs with one and two segments, files that exec         *)
(* refuses, and one whose second segment does not start at a page.             *)
EXTENDS Memory

Seg(vaddr, filesz, memsz) == [vaddr |-> vaddr, filesz |-> filesz, memsz |-> memsz]
File(magic, segs, complete) == [magic |-> magic, segs |-> segs, complete |-> complete]

MCIncrements == {-12, -3, 1, 3}

MCPrograms ==
    {File(TRUE, <<Seg(0, 1, 2)>>, TRUE), File(TRUE, <<Seg(0, 2, 2), Seg(2, 1, 3)>>, TRUE),
     File(TRUE, <<Seg(0, 2, 2)>>, FALSE), File(TRUE, <<Seg(0, 2, 1)>>, TRUE), File(FALSE, <<>>, TRUE),
     File(TRUE, <<Seg(0, 2, 2), Seg(3, 1, 1)>>, TRUE)}
=============================================================================
