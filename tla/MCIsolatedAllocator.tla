------------------------ MODULE MCIsolatedAllocator ------------------------
(***************************************************************************)
(* A small instance of the isolated allocator: blocks of 8 bytes or a few  *)
(* more, three places mmap may choose, so that a second and a third block  *)
(* are mapped and a fourth is refused, addresses that need padding, and    *)
(* requests of less and of more than half a block.                         *)
(***************************************************************************)
EXTENDS IsolatedAllocator

MCSizes == {2, 6}
MCAlignments == {4}
MCCapacities == {10}
MCBases == {2, 17, 33}
=============================================================================
