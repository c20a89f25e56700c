---------------------------- MODULE CrashHandler ----------------------------
(***************************************************************************)
(* The crash handler on Linux (src/crash_handler.cpp): Install, Uninstall  *)
(* and HandleCrashSignal, with the threads whose faults it handles and the *)
(* reporter that DomovoyCore creates before Install and destroys after     *)
(* Uninstall (src/core.cpp).                                               *)
(*                                                                         *)
(* sa_mask is empty: a handler can be interrupted by another signal.  A    *)
(* fault of its own signal, which is blocked, ends the process; abort      *)
(* (glibc before 2.41) unblocks SIGABRT first, so that its handler can be  *)
(* entered again.  Handlers of several threads run at once.  The handler   *)
(* allocates, from the C heap and from the pool: one lock stands for       *)
(* theirs, and a fault may come while it is held.                          *)
(***************************************************************************)
EXTENDS Integers, Sequences, FiniteSets, JsonFileReporter

CONSTANTS
    Threads,
    Main,         \* the thread that calls Init and Shutdown
    Nobody,       \* the allocators' lock is free
    Signals,      \* the handled signals
    Sync,         \* the ones raised by an instruction, run again on return
    Dispositions, \* what the application may have set, see AppActions
    MaxMs,        \* bound on the milliseconds of system_clock
    MaxDepth      \* bound on nested handlers of one thread

\* SIG_DFL, SIG_IGN, a handler, and SIG_DFL with SA_SIGINFO in sa_flags.
AppActions == {"dfl", "ign", "app", "dfl_siginfo"}

ASSUME CrashAssumption ==
    /\ Main \in Threads /\ Nobody \notin Threads
    /\ Sync \subseteq Signals /\ Dispositions \subseteq AppActions
    /\ MaxMs \in Nat \ {0} /\ MaxDepth \in Nat \ {0}

VARIABLES
    disp,         \* the kernel's action for a signal
    old_actions, installed_,
    altstack,     \* threads with an alternate signal stack
    phase,        \* of the core: off, install, on, uninstall, stop, destroyed, down
    todo,         \* signals that Install or Uninstall has yet to set
    reporter_,    \* "null", "live", or "destroyed" but not yet reset
    mutex_,       \* who is inside an allocator
    frames,       \* each thread's handlers, the innermost last
    status,       \* "running", or how the process ended
    killer        \* history: the handler that ended it, or an empty sequence

life == <<disp, old_actions, installed_, altstack, phase, todo, reporter_>>
process == <<mutex_, frames, status, killer, reporter>>
vars == <<life, mutex_, frames, status, killer, reporter>>

\* at: the time of the report, 0 for none;
\* locked: the handler is inside an allocator;
\* raised: raise has been called, and waits for the handler to return.
Frame == [sig : Signals, step : {"build", "read", "call", "write", "chain", "return"},
          at : 0 .. MaxMs, locked : BOOLEAN, raised : BOOLEAN]

NewFrame(s) == [sig |-> s, step |-> "build", at |-> 0, locked |-> FALSE, raised |-> FALSE]

\* The steps of a handler that allocate.
Allocating == {"build", "call", "write"}

Init ==
    /\ disp \in [Signals -> Dispositions]
    /\ old_actions = [s \in Signals |-> "dfl"]
    /\ installed_ = FALSE
    /\ altstack = {}
    /\ phase = "off"
    /\ todo = {}
    /\ reporter_ = "null"
    /\ mutex_ = Nobody
    /\ frames = [t \in Threads |-> <<>>]
    /\ status = "running"
    /\ killer = <<>>
    /\ InitReporter

Handling(t) == frames[t] # <<>>
Top(t) == frames[t][Len(frames[t])]
In(t, step) == status = "running" /\ Handling(t) /\ Top(t).step = step
Runs(t) == status = "running" /\ ~Handling(t)
Replace(t, f) == frames' = [frames EXCEPT ![t][Len(frames[t])] = f]
Goto(t, step) == Replace(t, [Top(t) EXCEPT !.step = step])

Die(how) == status' = how /\ UNCHANGED frames

-----------------------------------------------------------------------------
\* Init creates the reporter and calls Install, which sets up the stack of its thread.
BeginInstall ==
    /\ Runs(Main) /\ phase = "off" /\ mutex_ = Nobody /\ ~installed_
    /\ reporter_' = "live"
    /\ installed_' = TRUE
    /\ altstack' = {Main}
    /\ phase' = "install"
    /\ todo' = Signals
    /\ UNCHANGED <<disp, old_actions>>

\* Mutant: the old action is asked for after the new one is set.
SavedLate(s) == "crash"

\* What sigaction stores in old_actions[sig].
Saved(s) == disp[s]

\* sigaction(sig, &sa, &old_actions[sig])
InstallSignal(s) ==
    /\ Runs(Main) /\ phase = "install" /\ s \in todo
    /\ old_actions' = [old_actions EXCEPT ![s] = Saved(s)]
    /\ disp' = [disp EXCEPT ![s] = "crash"]
    /\ todo' = todo \ {s}
    /\ phase' = IF todo = {s} THEN "on" ELSE "install"
    /\ UNCHANGED <<installed_, altstack, reporter_>>

BeginUninstall ==
    /\ Runs(Main) /\ phase = "on" /\ installed_
    /\ installed_' = FALSE
    /\ phase' = "uninstall"
    /\ todo' = Signals
    /\ UNCHANGED <<disp, old_actions, altstack, reporter_>>

\* sigaction(sig, &old_actions[sig], nullptr)
RestoreSignal(s) ==
    /\ Runs(Main) /\ phase = "uninstall" /\ s \in todo
    /\ disp' = [disp EXCEPT ![s] = old_actions[s]]
    /\ todo' = todo \ {s}
    /\ UNCHANGED <<old_actions, installed_, altstack, phase, reporter_>>

\* SS_DISABLE ends Uninstall; no running handler is waited for.
DisableStack ==
    /\ Runs(Main) /\ phase = "uninstall" /\ todo = {}
    /\ altstack' = altstack \ {Main}
    /\ phase' = "stop"
    /\ UNCHANGED <<disp, old_actions, installed_, todo, reporter_>>

\* Shutdown destroys the reporter, then resets the pointer to it.
Destroy ==
    /\ Runs(Main)
    /\ \/ phase = "stop" /\ phase' = "destroyed" /\ reporter_' = "destroyed"
       \/ phase = "destroyed" /\ phase' = "down" /\ reporter_' = "null"
    /\ UNCHANGED <<disp, old_actions, installed_, altstack, todo>>

CoreStep ==
    /\ mutex_ # Main
    /\ UNCHANGED process
    /\ \/ BeginInstall \/ BeginUninstall \/ DisableStack \/ Destroy
       \/ \E s \in Signals : InstallSignal(s) \/ RestoreSignal(s)

-----------------------------------------------------------------------------
\* A thread goes into an allocator, and leaves it.
EnterAllocator(t) ==
    /\ Runs(t) /\ mutex_ = Nobody
    /\ mutex_' = t
    /\ UNCHANGED <<life, frames, status, killer, reporter>>

LeaveAllocator(t) ==
    /\ Runs(t) /\ mutex_ = t
    /\ mutex_' = Nobody
    /\ UNCHANGED <<life, frames, status, killer, reporter>>

\* The kernel delivers s, raised by t itself, on top of the frames below.  An action of
\* the application's own is taken to end the process.
Deliver(t, s, below) ==
    IF disp[s] # "crash" THEN Die("unhandled")
    ELSE IF s \in Sync /\ \E i \in DOMAIN below : below[i].sig = s THEN Die("blocked")
    ELSE frames' = [frames EXCEPT ![t] = Append(below, NewFrame(s))] /\ UNCHANGED status

\* A crash: in the application's code, inside an allocator, or in a handler, whose
\* unwinder and reporter may meet a corrupted heap or the end of their stack.
Fault(t, s) ==
    /\ status = "running"
    /\ Handling(t) => Top(t).step \in Allocating /\ Len(frames[t]) < MaxDepth
    /\ Deliver(t, s, frames[t])
    /\ UNCHANGED <<life, mutex_, killer, reporter>>

\* The stack of t is full: without an alternate one the handler cannot run.
Overflow(t, s) ==
    /\ Runs(t) /\ s \in Sync
    /\ IF t \in altstack THEN Deliver(t, s, <<>>) ELSE Die("no_stack")
    /\ UNCHANGED <<life, mutex_, killer, reporter>>

\* The handler goes into an allocator: one that has interrupted its own thread inside
\* waits for itself.  WriteToFile reads the clock first, which may have been set back.
Allocate(t) ==
    /\ status = "running" /\ Handling(t) /\ mutex_ = Nobody
    /\ Top(t).step \in Allocating
    /\ mutex_' = t
    /\ \E ms \in 1 .. MaxMs :
         Replace(t, [Top(t) EXCEPT !.locked = TRUE,
                                   !.at = IF Top(t).step = "call" THEN ms ELSE @])
    /\ UNCHANGED <<life, status, killer, reporter>>

\* It leaves the allocator and goes on.
Proceed(t, from, to) ==
    /\ In(t, from) /\ Top(t).locked
    /\ mutex_' = Nobody
    /\ Replace(t, [Top(t) EXCEPT !.step = to, !.locked = FALSE])
    /\ UNCHANGED <<life, status, killer>>

\* The trace and the report are put together.
Build(t) ==
    /\ Proceed(t, "build", "read")
    /\ UNCHANGED reporter

\* Mutant: the test of the pointer is turned round.
HasNoReporter(t) == reporter_ = "null"

\* DomovoyCore::GetReporter() is not null.
HasReporter(t) == reporter_ # "null"

\* The pointer is read and tested; the call comes later.
ReadReporter(t) ==
    /\ In(t, "read")
    /\ Goto(t, IF HasReporter(t) THEN "call" ELSE "chain")
    /\ UNCHANGED <<life, mutex_, status, killer, reporter>>

\* reporter->ReportCrash(report): the file is opened, and another crash report of the
\* same millisecond truncated,
OpenCrashFile(t) ==
    /\ Proceed(t, "call", "write")
    /\ OpenReport("crash", Top(t).at)

\* and the text, once it is made, written.
WriteCrashFile(t) ==
    /\ Proceed(t, "write", "chain")
    /\ WriteReport("crash", Top(t).at, t)

\* Through a destroyed reporter the call may also be one of a pure virtual function,
\* which aborts.
CallDestroyed(t) ==
    /\ In(t, "call") /\ ~Top(t).locked /\ reporter_ # "live"
    /\ Die("aborted")
    /\ UNCHANGED <<life, mutex_, killer, reporter>>

\* Mutant: SIG_DFL is taken for one more action that needs nothing done.
IsNeverDefault(s) == FALSE

\* old_actions[sig].sa_handler == SIG_DFL, without SA_SIGINFO.
IsDefault(s) == old_actions[s] = "dfl"

\* The old action: SIG_DFL is set and the signal raised again, to be delivered when
\* the handler returns; a handler is called; nothing is done for the others.
Chain(t) ==
    /\ In(t, "chain")
    /\ LET s == Top(t).sig
       IN /\ disp' = IF IsDefault(s) THEN [disp EXCEPT ![s] = "dfl"] ELSE disp
          /\ Replace(t, [Top(t) EXCEPT !.step = "return", !.raised = IsDefault(s)])
    /\ UNCHANGED <<old_actions, installed_, altstack, phase, todo, reporter_, mutex_,
                   status, killer, reporter>>

\* The application's handler ends the process.
AppHandlerExits(t) ==
    /\ In(t, "chain") /\ old_actions[Top(t).sig] = "app"
    /\ Die("app")
    /\ killer' = <<Top(t)>>
    /\ UNCHANGED <<life, mutex_, reporter>>

\* The handler returns: the raised signal ends the process, as abort does of itself;
\* else the faulting instruction runs again, and faults again unless the handler of
\* the application has put things right.
HandlerReturn(t) ==
    /\ In(t, "return")
    /\ LET f == Top(t)
           below == SubSeq(frames[t], 1, Len(frames[t]) - 1)
       IN \/ /\ f.raised \/ f.sig \notin Sync
             /\ Die("chained")
             /\ killer' = <<f>>
          \/ /\ ~f.raised /\ f.sig \in Sync
             /\ Deliver(t, f.sig, below)
             /\ UNCHANGED killer
          \/ /\ f.sig \in Sync /\ old_actions[f.sig] = "app"
             /\ frames' = [frames EXCEPT ![t] = below]
             /\ UNCHANGED <<status, killer>>
    /\ UNCHANGED <<life, mutex_, reporter>>

HandlerStep(t) ==
    \/ Allocate(t) \/ Build(t)
    \/ ReadReporter(t) \/ CallDestroyed(t) \/ OpenCrashFile(t) \/ WriteCrashFile(t)
    \/ Chain(t) \/ AppHandlerExits(t) \/ HandlerReturn(t)

Next ==
    \/ CoreStep
    \/ \E t \in Threads :
        \/ EnterAllocator(t) \/ LeaveAllocator(t)
        \/ \E s \in Signals : Fault(t, s) \/ Overflow(t, s)
        \/ HandlerStep(t)

Spec == Init /\ [][Next]_vars

\* Every thread is scheduled again, and one that waits for the allocators' lock gets it
\* at last if it is free again and again.
FairSpec ==
    /\ Spec
    /\ \A t \in Threads :
        WF_vars(LeaveAllocator(t)) /\ SF_vars(HandlerStep(t))

-----------------------------------------------------------------------------
\* Every variable holds values of its type; Install saves the application's actions,
\* never Domovoy's own, and no thread is in two handlers of one fault.
TypeOK ==
    /\ disp \in [Signals -> AppActions \cup {"crash"}]
    /\ old_actions \in [Signals -> AppActions]
    /\ installed_ \in BOOLEAN
    /\ altstack \subseteq {Main}
    /\ phase \in {"off", "install", "on", "uninstall", "stop", "destroyed", "down"}
    /\ todo \subseteq Signals
    /\ reporter_ \in {"null", "live", "destroyed"}
    /\ mutex_ \in Threads \cup {Nobody}
    /\ frames \in [Threads -> Seq(Frame)]
    /\ \A t \in Threads : \A i, j \in DOMAIN frames[t] :
        i # j /\ frames[t][i].sig \in Sync => frames[t][i].sig # frames[t][j].sig
    /\ killer \in Seq(Frame)

\* The report of a crash that ended the process is on disk, unless Shutdown had begun
\* or the directory cannot be written to.
OnDiskFor(f) == writable /\ phase \in {"install", "on"} => OnDisk("crash", f.at) # {}

\* Some handler has truncated the report of time at and not yet written its own.
Truncated(at) ==
    \E t \in Threads : \E i \in DOMAIN frames[t] :
        frames[t][i].step = "write" /\ frames[t][i].at = at

\* When the handler ends the process, itself or through the application's handler, a
\* report of its crash is on disk, or one of another crash in the same millisecond:
\* whatever handlers are nested in it or run beside it, only one that is between
\* truncating that very file and writing to it can have taken the report away.
CrashReported ==
    \A i \in DOMAIN killer : Truncated(killer[i].at) \/ OnDiskFor(killer[i])

\* The allocators' lock is held by a thread that has crashed while it was inside.
Wedged == mutex_ # Nobody /\ Handling(mutex_) /\ ~Top(mutex_).locked

\* A crash is being handled whose signal the application had not left at its default.
NotDefault ==
    \E t \in Threads : \E i \in DOMAIN frames[t] : old_actions[frames[t][i].sig] # "dfl"

\* A crash that is being handled ends the process, whatever handlers are nested in it,
\* run beside it or race with Shutdown, unless a thread was inside an allocator when it
\* crashed or the application handles or ignores the signal.
CrashEnds == \A t \in Threads : Handling(t) ~> (status # "running" \/ Wedged \/ NotDefault)
=============================================================================
