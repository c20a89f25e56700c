----------------------------- MODULE AllocHooks -----------------------------
(***************************************************************************)
(* Linux leak tracking: the interposed malloc family                       *)
(* (src/memory/linux_alloc_hooks.cpp), the map g_allocations it keeps, the *)
(* sessions DomovoyCore::Init and Shutdown open and close (src/core.cpp),  *)
(* and the enumeration RunLeakDetection reports from                       *)
(* (src/memory/memory_analyzer.cpp).                                       *)
(*                                                                         *)
(* No lock covers a whole hook.  A hook is therefore split at the call of  *)
(* the real function, at the read of config_.enable_leak_detection and at  *)
(* the update of the map, which its submap mutex makes one step.  A real   *)
(* call that fails without touching the heap (malloc returning NULL) gives *)
(* AddAllocation nothing to add and changes no state.                      *)
(*                                                                         *)
(* The hooks are taken as initialised: EnsureInit has run before main.     *)
(***************************************************************************)
EXTENDS Integers, FiniteSets

CONSTANTS
    Threads,          \* threads of the application
    Main,             \* the one of them that calls Init and Shutdown
    Addrs,            \* addresses the C heap can return
    NoAddr,           \* nullptr
    Sizes,            \* sizes the application asks for
    NoSize,           \* no block here, no entry here
    Counts,           \* nmemb arguments of calloc
    ReallocOutcomes,  \* what the C library's realloc may do, see RealRealloc
    MaxSessions       \* bound on calls of Init

ASSUME HookAssumption ==
    /\ Main \in Threads
    /\ NoAddr \notin Addrs
    /\ Sizes \subseteq Nat
    /\ Counts \subseteq Nat
    /\ NoSize \notin Nat
    /\ ReallocOutcomes \subseteq {"inplace", "moved", "failed", "freed"}
    /\ MaxSessions \in Nat

VARIABLES
    heap,      \* the C heap: the size of the block at an address, or NoSize
    tracked,   \* g_allocations: the size recorded for an address, or NoSize
    leakOn,    \* config_.enable_leak_detection
    phase,     \* of DomovoyCore: "off", "on", "scan", "report"
    sessions,  \* calls of Init so far
    left,      \* addresses the enumeration has yet to visit
    report,    \* the AllocationList the enumeration has filled
    pc,        \* where each thread is in a hook
    call,      \* arguments and results of each thread's hook
    held,      \* pointers the application holds and may pass to free
    seen,      \* history: live blocks whose hook found leak detection enabled
    quiet,     \* history: no hook has run since the enumeration began
    displaced  \* history: a realloc has moved, released or failed to resize its block

vars == <<heap, tracked, leakOn, phase, sessions, left, report, pc, call,
          held, seen, quiet, displaced>>
core == <<leakOn, phase, sessions, left, report>>

Steps == {"idle", "rm_check", "rm", "add_check", "add", "real_free"}

\* ptr is the argument, new the result, size the bytes recorded for it, and
\* back the pointers the caller holds when the hook has returned.
Calls == [op : {"none", "alloc", "free", "realloc"}, ptr : Addrs \cup {NoAddr},
          new : Addrs \cup {NoAddr}, size : Nat, back : SUBSET Addrs]

NoCall == [op |-> "none", ptr |-> NoAddr, new |-> NoAddr, size |-> 0, back |-> {}]

Record == [addr : Addrs, size : Nat]

Free == {p \in Addrs : heap[p] = NoSize}

-----------------------------------------------------------------------------
Init ==
    /\ heap = [p \in Addrs |-> NoSize]
    /\ tracked = [p \in Addrs |-> NoSize]
    /\ leakOn = FALSE
    /\ phase = "off"
    /\ sessions = 0
    /\ left = {}
    /\ report = {}
    /\ pc = [t \in Threads |-> "idle"]
    /\ call = [t \in Threads |-> NoCall]
    /\ held = {}
    /\ seen = {}
    /\ quiet = FALSE
    /\ displaced = FALSE

\* A thread outside the hooks; Main is also busy while it walks the map.
Ready(t) == pc[t] = "idle" /\ (t = Main => phase # "scan")

\* The hook returns to its caller.
Return(t) ==
    /\ pc' = [pc EXCEPT ![t] = "idle"]
    /\ call' = [call EXCEPT ![t] = NoCall]
    /\ held' = held \cup call[t].back

\* The real allocation of malloc, calloc, memalign and posix_memalign.
RealAlloc(t, s) ==
    /\ Ready(t)
    /\ \E p \in Free :
        /\ heap' = [heap EXCEPT ![p] = s]
        /\ call' = [call EXCEPT ![t] =
                     [op |-> "alloc", ptr |-> NoAddr, new |-> p, size |-> s, back |-> {p}]]
    /\ pc' = [pc EXCEPT ![t] = "add_check"]
    /\ UNCHANGED <<tracked, held, seen>>

Malloc(t, s) == RealAlloc(t, s)

\* Mutant: calloc records the size of one element.
CallocOfOne(t, n, s) ==
    /\ Ready(t)
    /\ \E p \in Free :
        /\ heap' = [heap EXCEPT ![p] = n * s]
        /\ call' = [call EXCEPT ![t] =
                     [op |-> "alloc", ptr |-> NoAddr, new |-> p, size |-> s, back |-> {p}]]
    /\ pc' = [pc EXCEPT ![t] = "add_check"]
    /\ UNCHANGED <<tracked, held, seen>>

\* real_calloc refuses a product that overflows, so the product is exact.
Calloc(t, n, s) == RealAlloc(t, n * s)

Memalign(t, s) == RealAlloc(t, s)

PosixMemalign(t, s) == RealAlloc(t, s)

\* Mutant: free releases the memory before it removes the entry.
FreeReleasesFirst(t, p) ==
    /\ Ready(t)
    /\ held' = held \ {p}
    /\ heap' = [heap EXCEPT ![p] = NoSize]
    /\ seen' = seen \ {p}
    /\ pc' = [pc EXCEPT ![t] = "rm_check"]
    /\ call' = [call EXCEPT ![t] = [NoCall EXCEPT !.op = "free", !.ptr = p]]
    /\ UNCHANGED tracked

\* free(ptr): the entry is removed first, the memory released afterwards.
FreeCall(t, p) ==
    /\ Ready(t)
    /\ held' = held \ {p}
    /\ pc' = [pc EXCEPT ![t] = "rm_check"]
    /\ call' = [call EXCEPT ![t] = [NoCall EXCEPT !.op = "free", !.ptr = p]]
    /\ UNCHANGED <<heap, tracked, seen>>

\* realloc(ptr, size) calls the real function first and only then looks at the map.
\* That function keeps the block where it is, moves it, fails and leaves it alone,
\* or, for size 0, releases it and returns nullptr.
RealRealloc(t, p, s) ==
    /\ Ready(t)
    /\ held' = held \ {p}
    /\ pc' = [pc EXCEPT ![t] = "rm_check"]
    /\ \E o \in ReallocOutcomes :
        \/ /\ o = "inplace" /\ s # 0
           /\ heap' = [heap EXCEPT ![p] = s]
           /\ call' = [call EXCEPT ![t] =
                [op |-> "realloc", ptr |-> p, new |-> p, size |-> s, back |-> {p}]]
           /\ UNCHANGED seen
        \/ /\ o = "moved" /\ s # 0
           /\ \E q \in Free :
                /\ heap' = [heap EXCEPT ![p] = NoSize, ![q] = s]
                /\ call' = [call EXCEPT ![t] =
                     [op |-> "realloc", ptr |-> p, new |-> q, size |-> s, back |-> {q}]]
           /\ seen' = seen \ {p}
        \/ /\ o = "failed" /\ s # 0
           /\ call' = [call EXCEPT ![t] =
                [op |-> "realloc", ptr |-> p, new |-> NoAddr, size |-> s, back |-> {p}]]
           /\ UNCHANGED <<heap, seen>>
        \/ /\ o = "freed" /\ s = 0
           /\ heap' = [heap EXCEPT ![p] = NoSize]
           /\ call' = [call EXCEPT ![t] =
                [op |-> "realloc", ptr |-> p, new |-> NoAddr, size |-> 0, back |-> {}]]
           /\ seen' = seen \ {p}
    /\ UNCHANGED tracked

\* realloc(nullptr, size) allocates, and `if (ptr)` skips the removal.
ReallocNull(t, s) == RealAlloc(t, s)

\* What follows RemoveAllocation: real_free in free, AddAllocation in realloc.
AfterRemove(t) == IF call[t].op = "free" THEN "real_free" ELSE "add_check"

\* Mutant: RemoveAllocation is forgotten.
RemoveSkipped(t) ==
    /\ pc[t] = "rm_check"
    /\ pc' = [pc EXCEPT ![t] = AfterRemove(t)]
    /\ UNCHANGED <<heap, tracked, call, held, seen>>

\* RemoveAllocation reads the flag and returns early when it is off.
RemoveCheck(t) ==
    /\ pc[t] = "rm_check"
    /\ pc' = [pc EXCEPT ![t] = IF leakOn THEN "rm" ELSE AfterRemove(t)]
    /\ UNCHANGED <<heap, tracked, call, held, seen>>

\* g_allocations->erase(ptr)
Erase(t) ==
    /\ pc[t] = "rm"
    /\ tracked' = [tracked EXCEPT ![call[t].ptr] = NoSize]
    /\ pc' = [pc EXCEPT ![t] = AfterRemove(t)]
    /\ UNCHANGED <<heap, call, held, seen>>

\* real_free(ptr), and free returns.
RealFree(t) ==
    /\ pc[t] = "real_free"
    /\ heap' = [heap EXCEPT ![call[t].ptr] = NoSize]
    /\ seen' = seen \ {call[t].ptr}
    /\ Return(t)
    /\ UNCHANGED tracked

\* AddAllocation of a null pointer: the hook returns.
AddNothing(t) ==
    /\ pc[t] = "add_check"
    /\ call[t].new = NoAddr
    /\ Return(t)
    /\ UNCHANGED <<heap, tracked, seen>>

\* Mutant: AddAllocation does not test the pointer.
AddCheckAny(t) ==
    /\ pc[t] = "add_check"
    /\ IF leakOn
       THEN /\ pc' = [pc EXCEPT ![t] = "add"]
            /\ seen' = seen \cup ({call[t].new} \cap Addrs)
            /\ UNCHANGED <<call, held>>
       ELSE /\ Return(t)
            /\ seen' = seen \ {call[t].new}
    /\ UNCHANGED <<heap, tracked>>

\* AddAllocation reads the flag: it goes on to the map or the hook returns.
AddCheck(t) ==
    /\ pc[t] = "add_check"
    /\ call[t].new # NoAddr
    /\ IF leakOn
       THEN /\ pc' = [pc EXCEPT ![t] = "add"]
            /\ seen' = seen \cup {call[t].new}
            /\ UNCHANGED <<call, held>>
       ELSE /\ Return(t)
            /\ seen' = seen \ {call[t].new}
    /\ UNCHANGED <<heap, tracked>>

\* Mutant: insert, which leaves an entry that is already there.
InsertIfAbsent(t) ==
    /\ pc[t] = "add"
    /\ tracked' = [tracked EXCEPT ![call[t].new] = IF @ = NoSize THEN call[t].size ELSE @]
    /\ Return(t)
    /\ UNCHANGED <<heap, seen>>

\* g_allocations->insert_or_assign(ptr, size), and the hook returns.
Insert(t) ==
    /\ pc[t] = "add"
    /\ tracked' = [tracked EXCEPT ![call[t].new] = call[t].size]
    /\ Return(t)
    /\ UNCHANGED <<heap, seen>>

\* A step of thread t in one of the hooks.
HookStep(t) ==
    \/ \E s \in Sizes : \/ Malloc(t, s) \/ Memalign(t, s) \/ PosixMemalign(t, s)
                        \/ \E n \in Counts : Calloc(t, n, s)
                        \/ ReallocNull(t, s)
                        \/ \E p \in held : RealRealloc(t, p, s)
    \/ \E p \in held : FreeCall(t, p)
    \/ RemoveCheck(t) \/ Erase(t) \/ RealFree(t)
    \/ AddNothing(t) \/ AddCheck(t) \/ Insert(t)

-----------------------------------------------------------------------------
\* DomovoyCore::Init: the configuration takes effect for the hooks.
CoreInit(cfg) ==
    /\ phase = "off" /\ pc[Main] = "idle"
    /\ sessions < MaxSessions
    /\ phase' = "on"
    /\ leakOn' = cfg
    /\ sessions' = sessions + 1
    /\ UNCHANGED <<heap, tracked, left, report, pc, call, held, seen, quiet, displaced>>

\* Shutdown comes to RunLeakDetection, which it calls whatever the configuration.
BeginScan ==
    /\ phase = "on" /\ pc[Main] = "idle"
    /\ phase' = "scan"
    /\ left' = Addrs
    /\ report' = {}
    /\ quiet' = \A t \in Threads : pc[t] = "idle"
    /\ UNCHANGED <<heap, tracked, leakOn, sessions, pc, call, held, seen, displaced>>

\* Mutant: entries of size zero are left out of the enumeration.
VisitNonEmpty(a) ==
    /\ phase = "scan" /\ a \in left
    /\ left' = left \ {a}
    /\ report' = IF tracked[a] \in {NoSize, 0} THEN report
                 ELSE report \cup {[addr |-> a, size |-> tracked[a]]}
    /\ UNCHANGED <<heap, tracked, leakOn, phase, sessions, pc, call, held, seen, quiet,
                   displaced>>

\* The range-for over g_allocations takes no lock over the whole walk: what it
\* finds for an address is what the map holds when it gets there.
Visit(a) ==
    /\ phase = "scan" /\ a \in left
    /\ left' = left \ {a}
    /\ report' = IF tracked[a] = NoSize THEN report
                 ELSE report \cup {[addr |-> a, size |-> tracked[a]]}
    /\ UNCHANGED <<heap, tracked, leakOn, phase, sessions, pc, call, held, seen, quiet,
                   displaced>>

\* Nothing is marked reachable, so every record is a leak to sort, group and type.
EndScan ==
    /\ phase = "scan" /\ left = {}
    /\ phase' = "report"
    /\ UNCHANGED <<heap, tracked, leakOn, sessions, left, report, pc, call, held, seen,
                   quiet, displaced>>

\* The rest of Shutdown: the report is out, config_ = DomovoyConfig() ends tracking.
\* The map keeps its entries.
CoreShutdown ==
    /\ phase = "report" /\ pc[Main] = "idle"
    /\ phase' = "off"
    /\ leakOn' = FALSE
    /\ report' = {}
    /\ quiet' = FALSE
    /\ UNCHANGED <<heap, tracked, sessions, left, pc, call, held, seen, displaced>>

\* A realloc of t's is under way that did not leave its block where it was.
Displaces(t) == call[t].op = "realloc" /\ call[t].new # call[t].ptr

Next ==
    \/ \E t \in Threads :
        /\ HookStep(t)
        /\ quiet' = FALSE
        /\ displaced' = (displaced \/ Displaces(t)')
        /\ UNCHANGED core
    \/ \E cfg \in BOOLEAN : CoreInit(cfg)
    \/ BeginScan
    \/ \E a \in Addrs : Visit(a)
    \/ EndScan
    \/ CoreShutdown

Spec == Init /\ [][Next]_vars

-----------------------------------------------------------------------------
\* Every variable holds values of its type; a hook that has come to the map has a block
\* to record, never the nullptr of a failed call.
TypeOK ==
    /\ heap \in [Addrs -> Nat \cup {NoSize}]
    /\ tracked \in [Addrs -> Nat \cup {NoSize}]
    /\ leakOn \in BOOLEAN
    /\ phase \in {"off", "on", "scan", "report"}
    /\ sessions \in 0 .. MaxSessions
    /\ left \subseteq Addrs
    /\ report \subseteq Record
    /\ pc \in [Threads -> Steps]
    /\ call \in [Threads -> Calls]
    /\ \A t \in Threads : pc[t] = "add" => call[t].new \in Addrs
    /\ held \subseteq Addrs
    /\ seen \subseteq Addrs
    /\ quiet \in BOOLEAN
    /\ displaced \in BOOLEAN

\* Thread t has released p with realloc and has not yet removed p's entry.
Releasing(t, p) ==
    /\ pc[t] \in {"rm_check", "rm"}
    /\ call[t].op = "realloc" /\ call[t].ptr = p

\* In the first session the map describes memory that exists: an entry whose block
\* the C heap has released is one that a realloc in progress is about to remove, and
\* the entry of a block that the application holds has the block's own size.
EntriesTrue ==
    sessions = 1 /\ leakOn =>
        \A p \in Addrs : tracked[p] # NoSize =>
            /\ heap[p] # NoSize \/ \E t \in Threads : Releasing(t, p)
            /\ p \in held => tracked[p] = heap[p]

\* A report of the first session that no hook interfered with names only blocks that
\* are allocated, with their sizes: RunLeakDetection reports no freed block.
ReportSound ==
    phase = "report" /\ quiet /\ sessions = 1 =>
        \A r \in report : heap[r.addr] = r.size

\* "track allocations in real-time" (README.md:711): a block whose hook found leak
\* detection enabled, and that the application holds, is in the map with its size.
Complete == \A p \in seen \cap held : tracked[p] = heap[p]

\* Complete holds until a realloc moves, releases or fails to resize its block: only
\* there does the hook remove an entry after the block has changed hands.
CompleteInPlace == ~displaced => Complete

\* Until then a quiet report of the first session, with leak detection enabled, lists
\* exactly the tracked blocks that are still allocated.
ReportExact ==
    phase = "report" /\ quiet /\ sessions = 1 /\ leakOn /\ ~displaced =>
        report = {[addr |-> p, size |-> heap[p]] : p \in seen}

\* Until then an entry only goes away in a hook that has taken the pointer from the
\* application: no step removes the entry of a block that somebody holds.
EraseOnlyTaken ==
    [][~displaced =>
        \A p \in Addrs : tracked[p] # NoSize /\ tracked'[p] = NoSize => p \notin held]_vars

\* resolve_type reads the first word of every reported block (memory_analyzer.cpp:201),
\* "safely without triggering access violations" (README.md:771): with no hook
\* running meanwhile, each of them is allocated.
ReportedAreLive ==
    phase = "report" /\ quiet => \A r \in report : heap[r.addr] # NoSize
=============================================================================
