---------------------------- MODULE MCAllocHooks ----------------------------
(***************************************************************************)
(* Small instances of the malloc hooks: two threads, two heap addresses so *)
(* that a released address is soon reused by the other thread, the size 0  *)
(* that makes realloc release its block, and two sessions.                 *)
(***************************************************************************)
EXTENDS AllocHooks, TLC

MCSizes == {0, 1}
MCCounts == {2}
AllOutcomes == {"inplace", "moved", "failed", "freed"}
InPlace == {"inplace"}

Symmetry == Permutations(Addrs)
=============================================================================
