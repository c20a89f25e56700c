--------------------------- MODULE MCCrashHandler ---------------------------
(***************************************************************************)
(* Small instances of the crash handler: two threads, a signal raised by   *)
(* an instruction and one raised by abort, handlers nested two deep.  All  *)
(* crashes come in one millisecond, so that their reports meet in a file.  *)
(* For Domovoy's handler an ignored signal is one that the application's   *)
(* handler returns from.                                                   *)
(***************************************************************************)
EXTENDS CrashHandler

MCDispositions == {"dfl", "app"}
=============================================================================
