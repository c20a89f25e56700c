---------------------------- MODULE MCCpuMonitor ----------------------------
(***************************************************************************)
(* Small instances of the CPU monitor with the program's own numbers: a    *)
(* unit is 5 ms, a tick of the kernel 10 ms, the sleep 500 ms.  One thread *)
(* sleeps, runs at the threshold or spins from one moment to the next, the *)
(* other one spins.                                                        *)
(***************************************************************************)
EXTENDS CpuMonitor

MCWakes == {101}
MCDelays == {5, 20}
MCShares == <<{0, 90, 100}, {100}>>
=============================================================================
