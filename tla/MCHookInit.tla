----------------------------- MODULE MCHookInit -----------------------------
(***************************************************************************)
(* Small instances of the lazy initialisation: two threads, a bootstrap    *)
(* buffer with room for two requests and a half, one hook call per dlsym.  *)
(* memalign and posix_memalign do as realloc does and are looked up after  *)
(* it; open64, openat, openat64 and socket do as open and close do.        *)
(***************************************************************************)
EXTENDS HookInit

MCRealFunctions ==
    [alloc |-> <<"malloc", "free", "calloc", "realloc">>, io |-> <<"open", "close">>]
MCDlsymCalls == {"malloc", "calloc", "free"}
=============================================================================
