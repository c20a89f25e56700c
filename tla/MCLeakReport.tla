---------------------------- MODULE MCLeakReport ----------------------------
(***************************************************************************)
(* Small instances of the leak report: up to four leaks, the size 0, one   *)
(* that is too small for a pointer and one that is not, two samples so     *)
(* that three blocks of one size exceed them, and words that do and do not *)
(* point into a module.                                                    *)
(***************************************************************************)
EXTENDS LeakReport

MCAddrs == 1 .. 4
MCSizes == {0, 1, 2}
MCWords == {1, 2}
MCModule == {2}
=============================================================================
