------------------------------ MODULE HookInit ------------------------------
(***************************************************************************)
(* The lazy initialisation of the Linux hooks: EnsureInit, InitHooks and   *)
(* the bootstrap buffer of src/memory/linux_alloc_hooks.cpp, EnsureIoInit  *)
(* and InitIoHooks of src/io/linux_io_hooks.cpp.  The two guards are alike *)
(* and independent; a behaviour is about one of them, which `part` names.  *)
(*                                                                         *)
(* The hooks of the C heap test their own function pointer and, while      *)
(* dlsym is at work, serve malloc and calloc from a static buffer: dlsym   *)
(* itself allocates, on the thread that is inside InitHooks.  Each thread  *)
(* therefore has a stack of hook calls.  in_dlsym and bootstrap_idx are    *)
(* plain globals: every read and every write of them is a step of its own, *)
(* which covers what a build may make of the race, one read included.      *)
(***************************************************************************)
EXTENDS Integers, Sequences, FiniteSets

CONSTANTS
    Threads,
    Nobody,       \* no thread has begun the initialisation
    RealFunctions, \* for each part, its hooks in the order their pointers are set
    Sizes,        \* sizes asked of the bootstrap buffer
    BufSize,      \* sizeof(bootstrap_buf)
    DlsymCalls,   \* hooks that dlsym calls on its own thread
    MaxDlsymCalls \* bound on such calls in one dlsym

ASSUME HookInitAssumption ==
    /\ Nobody \notin Threads
    /\ RealFunctions \in [{"alloc", "io"} -> Seq(STRING)]
    /\ \A p \in {"alloc", "io"} : RealFunctions[p] # <<>>
    /\ Sizes \subseteq Nat /\ BufSize \in Nat /\ MaxDlsymCalls \in Nat
    /\ DlsymCalls \subseteq {"malloc", "calloc", "free"}

VARIABLES
    part,           \* whose guard this is: "alloc" or "io"
    resolved,       \* how many of the real_ pointers have been set, in order
    in_dlsym, bootstrap_idx,
    initialized,    \* hooks_initialized
    initializing,   \* hooks_initializing
    g_allocations,  \* the map exists
    stack,          \* each thread's hook calls, the innermost last
    winner,         \* history: the thread that got to run InitHooks
    handed,         \* history: the bytes of the bootstrap buffer handed out
    overlap,        \* history: a byte has been handed out twice
    raced,          \* history: two threads were past the check of the room at once
    failed          \* history: InitHooks was left by an exception

vars == <<part, resolved, in_dlsym, bootstrap_idx, initialized, initializing,
          g_allocations, stack, winner, handed, overlap, raced, failed>>
guards == <<initialized, initializing, g_allocations, winner, failed>>
buffer == <<bootstrap_idx, handed, overlap, raced>>
shared == <<part, resolved, in_dlsym, guards, buffer>>

Fns == RealFunctions[part]
Names(fns) == {fns[i] : i \in DOMAIN fns}
FunctionNames == Names(RealFunctions["alloc"]) \cup Names(RealFunctions["io"])

\* The functions whose real_ pointer is still null.
Missing == {Fns[i] : i \in resolved + 1 .. Len(Fns)}

\* "init" stands for domovoy_linux_alloc_hooks_init and domovoy_linux_io_hooks_init.
Entries == Names(Fns) \cup {"init"}

Steps == {"test", "boot", "take", "load", "store", "ensure", "exchange", "spin",
          "lookup", "map", "publish", "ensured", "call"}

\* boot: the argument points into the bootstrap buffer; ptr: p - bootstrap_buf; idx: the
\* index that += has read; calls: the hooks that the current dlsym has called.
Frame == [fn : FunctionNames \cup {"init"}, step : Steps, size : Sizes \cup {0}, boot : BOOLEAN,
          ptr : Nat, idx : Nat, calls : 0 .. MaxDlsymCalls]

Init ==
    /\ part \in {"alloc", "io"}
    /\ resolved = 0
    /\ in_dlsym = FALSE
    /\ bootstrap_idx = 0
    /\ initialized = FALSE
    /\ initializing = FALSE
    /\ g_allocations = FALSE
    /\ stack = [t \in Threads |-> <<>>]
    /\ winner = Nobody
    /\ handed = {}
    /\ overlap = FALSE
    /\ raced = FALSE
    /\ failed = FALSE

Busy(t) == stack[t] # <<>>
Top(t) == stack[t][Len(stack[t])]
At(t, step) == Busy(t) /\ Top(t).step = step

NewFrame(call) == [fn |-> call.fn, step |-> "test", size |-> call.size, boot |-> call.boot,
                   ptr |-> 0, idx |-> 0, calls |-> 0]

Goto(t, step) == stack' = [stack EXCEPT ![t][Len(stack[t])].step = step]
Return(t) == stack' = [stack EXCEPT ![t] = SubSeq(@, 1, Len(@) - 1)]

-----------------------------------------------------------------------------
\* The calls of hooks; only free is ever given a pointer into the bootstrap buffer.
HookCalls ==
    [fn : {"malloc", "calloc"} \cap Entries, size : Sizes, boot : {FALSE}]
    \cup [fn : {"free"} \cap Entries, size : {0}, boot : BOOLEAN]
    \cup [fn : Entries \ {"malloc", "calloc", "free"}, size : {0}, boot : {FALSE}]

\* The application calls a hook.
Enter(t, call) ==
    /\ ~Busy(t)
    /\ call.boot => handed # {}
    /\ stack' = [stack EXCEPT ![t] = <<NewFrame(call)>>]

\* dlsym calls a hook, on the thread inside InitHooks.  It can only free a block of the
\* C heap once malloc has been looked up.
EnterFromDlsym(t, call) ==
    /\ At(t, "lookup") /\ part = "alloc"
    /\ call.fn \in DlsymCalls
    /\ call.boot => handed # {}
    /\ call.fn = "free" /\ ~call.boot => resolved > 0
    /\ Top(t).calls < MaxDlsymCalls
    /\ stack' = [stack EXCEPT ![t] =
         Append([stack[t] EXCEPT ![Len(stack[t])].calls = @ + 1], NewFrame(call))]

\* Mutant: only malloc knows the bootstrap buffer.
BootstrapsMalloc(fn) == fn = "malloc" /\ in_dlsym

\* `if (in_dlsym)` of malloc and calloc.
Bootstraps(fn) == fn \in {"malloc", "calloc"} /\ in_dlsym

\* `if (!real_fn)` of the hooks of the C heap.  The hooks of IO, and the two entry
\* points Init calls, go to the guard at once.
Test(t) ==
    /\ At(t, "test")
    /\ LET fn == Top(t).fn
           direct == part = "io" \/ fn = "init"
           null == ~direct /\ fn \in Missing
       IN \/ direct /\ Goto(t, "ensure")
          \/ ~direct /\ ~null /\ Goto(t, "call")
          \/ null /\ Bootstraps(fn) /\ Goto(t, "boot")
          \/ null /\ Top(t).boot /\ Return(t)
          \/ null /\ ~Bootstraps(fn) /\ ~Top(t).boot /\ Goto(t, "ensure")

\* Mutant: the room is checked without the request.
HasRoomForNothing(size) == bootstrap_idx < BufSize

\* bootstrap_idx + size <= sizeof(bootstrap_buf)
HasRoom(size) == bootstrap_idx + size <= BufSize

\* A thread between the check of the room and the store of the index.
InBoot(t) == At(t, "take") \/ At(t, "load") \/ At(t, "store")

\* The bootstrap buffer: the room is checked, and the hook returns nullptr without it.
BootCheck(t) ==
    /\ At(t, "boot")
    /\ IF HasRoom(Top(t).size)
       THEN Goto(t, "take") /\ raced' = (raced \/ \E u \in Threads : InBoot(u))
       ELSE Return(t) /\ UNCHANGED raced
    /\ UNCHANGED <<part, resolved, in_dlsym, guards, bootstrap_idx, handed, overlap>>

\* void* p = bootstrap_buf + bootstrap_idx, which reads the index again.
BootTake(t) ==
    /\ At(t, "take")
    /\ stack' = [stack EXCEPT ![t][Len(stack[t])] =
                    [@ EXCEPT !.step = "load", !.ptr = bootstrap_idx]]
    /\ UNCHANGED shared

\* bootstrap_idx += size: the index is read once more,
BootLoad(t) ==
    /\ At(t, "load")
    /\ stack' = [stack EXCEPT ![t][Len(stack[t])] =
                    [@ EXCEPT !.step = "store", !.idx = bootstrap_idx]]
    /\ UNCHANGED shared

\* and the sum is stored; the hook returns p.
BootStore(t) ==
    /\ At(t, "store")
    /\ LET bytes == Top(t).ptr .. Top(t).ptr + Top(t).size - 1
       IN /\ overlap' = (overlap \/ bytes \cap handed # {})
          /\ handed' = handed \cup bytes
    /\ bootstrap_idx' = Top(t).idx + Top(t).size
    /\ Return(t)
    /\ UNCHANGED <<part, resolved, in_dlsym, guards, raced>>

\* EnsureInit: the fast path, else the exchange.
Ensure(t) ==
    /\ At(t, "ensure")
    /\ Goto(t, IF initialized THEN "ensured" ELSE "exchange")

\* Mutant: the flag is set and its old value is not looked at.
NobodyBegan(t) == TRUE

\* The value that hooks_initializing.exchange(true) returns is false.
IsFirst(t) == ~initializing

\* hooks_initializing.exchange(true): one thread finds it clear and enters InitHooks,
\* whose first assignment is to in_dlsym.
Exchange(t) ==
    /\ At(t, "exchange")
    /\ initializing' = TRUE
    /\ IF IsFirst(t)
       THEN Goto(t, "lookup") /\ in_dlsym' = (part = "alloc") /\ winner' = t
       ELSE Goto(t, "spin") /\ UNCHANGED <<in_dlsym, winner>>
    /\ UNCHANGED <<part, resolved, initialized, g_allocations, failed, buffer>>

Spin(t) ==
    /\ At(t, "spin") /\ initialized
    /\ Goto(t, "ensured")

\* dlsym returns, and the next pointer is set; after the last one in_dlsym is cleared.
Resolve(t) ==
    /\ At(t, "lookup")
    /\ resolved' = resolved + 1
    /\ in_dlsym' = (in_dlsym /\ resolved + 1 < Len(Fns))
    /\ stack' = [stack EXCEPT
         ![t][Len(stack[t])].step = IF resolved + 1 < Len(Fns) THEN "lookup"
                                    ELSE IF part = "alloc" THEN "map" ELSE "publish",
         ![t][Len(stack[t])].calls = 0]
    /\ UNCHANGED <<part, guards, buffer>>

\* The map is allocated from the pool and constructed.
MakeMap(t) ==
    /\ At(t, "map")
    /\ g_allocations' = TRUE
    /\ Goto(t, "publish")
    /\ UNCHANGED <<part, resolved, in_dlsym, initialized, initializing, winner, failed, buffer>>

\* The pool throws std::bad_alloc, out of the hook: nobody clears initializing.
MapThrows(t) ==
    /\ At(t, "map")
    /\ failed' = TRUE
    /\ stack' = [stack EXCEPT ![t] = <<>>]
    /\ UNCHANGED <<part, resolved, in_dlsym, initialized, initializing, g_allocations,
                   winner, buffer>>

Publish(t) ==
    /\ At(t, "publish")
    /\ initialized' = TRUE
    /\ Goto(t, "ensured")
    /\ UNCHANGED <<part, resolved, in_dlsym, initializing, g_allocations, winner, failed,
                   buffer>>

\* EnsureInit returns to the hook, which goes on to the real function.
Ensured(t) ==
    /\ At(t, "ensured")
    /\ IF Top(t).fn = "init" THEN Return(t) ELSE Goto(t, "call")

\* The real function has been called and its result recorded (see AllocHooks and
\* IoMonitor; without the map nothing is recorded): the hook returns.
Call(t) ==
    /\ At(t, "call")
    /\ Return(t)

\* A thread's steps; those of the first line change nothing but its stack.
Step(t) ==
    \/ (Test(t) \/ Ensure(t) \/ Spin(t) \/ Ensured(t) \/ Call(t)) /\ UNCHANGED shared
    \/ BootCheck(t) \/ BootTake(t) \/ BootLoad(t) \/ BootStore(t)
    \/ Exchange(t) \/ Resolve(t) \/ MakeMap(t) \/ MapThrows(t) \/ Publish(t)

Next ==
    \E t \in Threads :
        \/ Step(t)
        \/ \E call \in HookCalls :
            (Enter(t, call) \/ EnterFromDlsym(t, call)) /\ UNCHANGED shared

Spec == Init /\ [][Next]_vars

\* A thread inside a hook is scheduled again.
FairSpec == Spec /\ \A t \in Threads : WF_vars(Step(t))

-----------------------------------------------------------------------------
\* Every variable holds values of its type, and only the winner's own calls nest.
TypeOK ==
    /\ part \in {"alloc", "io"}
    /\ resolved \in 0 .. Len(Fns)
    /\ {in_dlsym, initialized, initializing, g_allocations, overlap, raced, failed}
         \subseteq BOOLEAN
    /\ bootstrap_idx \in Nat
    /\ winner \in Threads \cup {Nobody}
    /\ stack \in [Threads -> Seq(Frame)]
    /\ \A t \in Threads : Len(stack[t]) <= (IF t = winner THEN 2 ELSE 1)

\* The blocks that the bootstrap has handed out lie inside its buffer and are disjoint:
\* what the plain globals are meant to be enough for (linux_alloc_hooks.cpp:34, "we use a
\* simple global since InitHooks is only called once").
BootBlocks == handed \subseteq 0 .. BufSize - 1 /\ ~overlap

\* They do as long as no thread passes the check of the room while another is between its
\* own check and the store of the index: dlsym's own calls, which nest in InitHooks, and
\* calls of other threads before and after them never break them.
BootSafe == ~raced => BootBlocks

\* The guards implement OnceInit: whatever threads call hooks at once, from dlsym too,
\* one of them initialises, and no hook calls through a pointer that is still null.
Once == INSTANCE OnceInit WITH
    Functions <- FunctionNames, None <- "none",
    missing <- Missing, ready <- initialized,
    calling <- [t \in Threads |-> IF At(t, "call") THEN Top(t).fn ELSE "none"]
OnceSpec == Once!Spec

\* dlsym("free") has freed a block of the C heap: real_malloc is set, real_free is not,
\* and the hook waits for the initialisation its own thread is in.
SelfWait ==
    resolved = 1 /\ \E t \in Threads :
        Len(stack[t]) = 2 /\ Top(t).fn = "free" /\ ~Top(t).boot

\* A hook that is called returns, unless InitHooks was left by an exception: the spin
\* of the other threads ends, and the thread that initialises never waits for itself,
\* although its dlsym calls malloc, calloc and free again, but for one window: the
\* look-up of free itself.
HooksReturn == \A t \in Threads : Busy(t) ~> (~Busy(t) \/ failed \/ SelfWait)
=============================================================================
