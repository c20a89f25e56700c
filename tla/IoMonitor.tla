------------------------------ MODULE IoMonitor ------------------------------
(***************************************************************************)
(* Descriptor leak tracking: IoMonitor (src/io/io_monitor.cpp), the Linux  *)
(* hooks that feed it (src/io/linux_io_hooks.cpp) and the calls that       *)
(* DomovoyCore::Init and Shutdown make to it (src/core.cpp).               *)
(*                                                                         *)
(* A hook reads enabled_ before it takes mutex_, so it is split there; the *)
(* update of open_fds_ under the lock is one step.  ReportLeakedFds keeps  *)
(* the lock while the reporter writes its file, and Disable clears enabled_*)
(* before it takes the lock: those are steps of their own.  A call that    *)
(* fails (fd < 0) reaches no callback and changes no state.                *)
(*                                                                         *)
(* A descriptor may also be closed behind the hooks' back (fclose of an    *)
(* fdopen, dup2, close_range).  Descriptors opened behind their back       *)
(* (fopen, accept) are outside this model.                                 *)
(***************************************************************************)
EXTENDS Integers, FiniteSets

CONSTANTS
    Threads,        \* threads of the application
    Main,           \* the one of them that calls Init and Shutdown
    NoThread,       \* mutex_ is free
    Fds,            \* descriptors the kernel hands out
    NoFd,           \* a thread outside the hooks is about no descriptor
    NoFile,         \* no open file behind a descriptor, no entry for it
    MaxSessions     \* bound on calls of Init

ASSUME MonitorAssumption ==
    /\ Main \in Threads
    /\ NoThread \notin Threads
    /\ NoFd \notin Fds
    /\ NoFile \notin {"file", "socket"}
    /\ MaxSessions \in Nat

VARIABLES
    files,     \* the kernel's table: what is open at a descriptor, or NoFile
    enabled_,  \* IoMonitor's flag, read without the lock
    mutex_,    \* the thread that holds the lock over several steps, or NoThread
    open_fds_, \* the map: FdInfo.is_socket of a descriptor, or NoFile
    phase,     \* of the core: "off", "on", "report", "disable", "swap"
    report,    \* the entries ReportLeakedFds has copied for the reporter
    sessions,  \* calls of Init so far
    pc,        \* where each thread is in a hook
    fd,        \* the descriptor each thread's hook is about
    held,      \* descriptors the application holds and may pass to close
    seen,      \* history: descriptors whose hook found the monitor enabled
    unhooked   \* history: closed behind the hooks' back since last recorded

vars == <<files, enabled_, mutex_, open_fds_, phase, report, sessions, pc, fd,
          held, seen, unhooked>>
core == <<enabled_, mutex_, phase, report, sessions>>

Kinds == {"file", "socket"}
Steps == {"idle", "add_check", "add", "rm_check", "rm", "real_close"}

NoEntries == [f \in Fds |-> NoFile]

\* The descriptors the kernel has nothing open at.
Closed == {f \in Fds : files[f] = NoFile}

Init ==
    /\ files = NoEntries
    /\ enabled_ = FALSE
    /\ mutex_ = NoThread
    /\ open_fds_ = NoEntries
    /\ phase = "off"
    /\ report = NoEntries
    /\ sessions = 0
    /\ pc = [t \in Threads |-> "idle"]
    /\ fd = [t \in Threads |-> NoFd]
    /\ held = {}
    /\ seen = {}
    /\ unhooked = {}

\* A thread outside the hooks; Main is busy while it is inside Shutdown.
Ready(t) == pc[t] = "idle" /\ (t = Main => phase \in {"off", "on"})

\* A hook returns.
Return(t) ==
    /\ pc' = [pc EXCEPT ![t] = "idle"]
    /\ fd' = [fd EXCEPT ![t] = NoFd]

-----------------------------------------------------------------------------
\* The real call of open, open64, openat, openat64 ("file") and socket.
RealOpen(t, kind) ==
    /\ Ready(t)
    /\ \E f \in Closed :
        /\ files' = [files EXCEPT ![f] = kind]
        /\ fd' = [fd EXCEPT ![t] = f]
    /\ pc' = [pc EXCEPT ![t] = "add_check"]
    /\ UNCHANGED <<open_fds_, held, seen, unhooked>>

Open(t) == RealOpen(t, "file")

Socket(t) == RealOpen(t, "socket")

\* OnOpen and OnSocket return early when the monitor is disabled.
OnOpenCheck(t) ==
    /\ pc[t] = "add_check"
    /\ IF enabled_
       THEN /\ pc' = [pc EXCEPT ![t] = "add"]
            /\ seen' = seen \cup {fd[t]}
            /\ UNCHANGED <<fd, held>>
       ELSE /\ Return(t)
            /\ held' = held \cup {fd[t]}
            /\ seen' = seen \ {fd[t]}
    /\ UNCHANGED <<files, open_fds_, unhooked>>

\* Mutant: OnSocket records its descriptor as a file.
OnOpenAsFile(t) ==
    /\ pc[t] = "add"
    /\ mutex_ = NoThread
    /\ open_fds_' = [open_fds_ EXCEPT ![fd[t]] = "file"]
    /\ held' = held \cup {fd[t]}
    /\ unhooked' = unhooked \ {fd[t]}
    /\ Return(t)
    /\ UNCHANGED <<files, seen>>

\* open_fds_[fd] = info under the lock, and the hook returns the descriptor.
OnOpen(t) ==
    /\ pc[t] = "add"
    /\ mutex_ = NoThread
    /\ open_fds_' = [open_fds_ EXCEPT ![fd[t]] = files[fd[t]]]
    /\ held' = held \cup {fd[t]}
    /\ unhooked' = unhooked \ {fd[t]}
    /\ Return(t)
    /\ UNCHANGED <<files, seen>>

\* close(fd): OnClose first, the kernel's close afterwards.
Close(t, f) ==
    /\ Ready(t)
    /\ held' = held \ {f}
    /\ fd' = [fd EXCEPT ![t] = f]
    /\ pc' = [pc EXCEPT ![t] = "rm_check"]
    /\ UNCHANGED <<files, open_fds_, seen, unhooked>>

\* OnClose returns early when the monitor is disabled.
OnCloseCheck(t) ==
    /\ pc[t] = "rm_check"
    /\ pc' = [pc EXCEPT ![t] = IF enabled_ THEN "rm" ELSE "real_close"]
    /\ UNCHANGED <<files, open_fds_, fd, held, seen, unhooked>>

\* open_fds_.erase(fd) under the lock.
OnClose(t) ==
    /\ pc[t] = "rm"
    /\ mutex_ = NoThread
    /\ open_fds_' = [open_fds_ EXCEPT ![fd[t]] = NoFile]
    /\ pc' = [pc EXCEPT ![t] = "real_close"]
    /\ unhooked' = unhooked \ {fd[t]}
    /\ UNCHANGED <<files, fd, held, seen>>

\* real_close(fd): from here on the kernel may reuse the number.
RealClose(t) ==
    /\ pc[t] = "real_close"
    /\ files' = [files EXCEPT ![fd[t]] = NoFile]
    /\ seen' = seen \ {fd[t]}
    /\ Return(t)
    /\ UNCHANGED <<open_fds_, held, unhooked>>

\* The descriptor is closed by a call that has no hook: its entry stays.
CloseUnhooked(t, f) ==
    /\ Ready(t)
    /\ held' = held \ {f}
    /\ files' = [files EXCEPT ![f] = NoFile]
    /\ seen' = seen \ {f}
    /\ unhooked' = unhooked \cup {f}
    /\ UNCHANGED <<open_fds_, pc, fd>>

HookStep(t) ==
    \/ Open(t) \/ Socket(t)
    \/ OnOpenCheck(t) \/ OnOpen(t)
    \/ \E f \in held : Close(t, f) \/ CloseUnhooked(t, f)
    \/ OnCloseCheck(t) \/ OnClose(t) \/ RealClose(t)

-----------------------------------------------------------------------------
\* Init: Enable, when the configuration asks for IO monitoring.
CoreInit(cfg) ==
    /\ phase = "off" /\ pc[Main] = "idle"
    /\ sessions < MaxSessions
    /\ phase' = "on"
    /\ enabled_' = cfg
    /\ sessions' = sessions + 1
    /\ UNCHANGED <<files, mutex_, open_fds_, report, pc, fd, held, seen, unhooked>>

\* Mutant: the entries are copied and the lock is released before the report is out.
ReportUnlocked ==
    /\ phase = "on" /\ pc[Main] = "idle"
    /\ enabled_ /\ open_fds_ # NoEntries
    /\ mutex_ = NoThread
    /\ phase' = "report"
    /\ report' = open_fds_
    /\ UNCHANGED <<files, enabled_, mutex_, open_fds_, sessions, pc, fd, held, seen, unhooked>>

\* Shutdown calls ReportLeakedFds: the lock is taken and the entries are copied.
ReportLock ==
    /\ phase = "on" /\ pc[Main] = "idle"
    /\ enabled_ /\ open_fds_ # NoEntries
    /\ mutex_ = NoThread
    /\ mutex_' = Main
    /\ phase' = "report"
    /\ report' = open_fds_
    /\ UNCHANGED <<files, enabled_, open_fds_, sessions, pc, fd, held, seen, unhooked>>

\* Mutant: the lock, taken by hand, is not released on the way out of an empty map.
ReportNothingLocked ==
    /\ phase = "on" /\ pc[Main] = "idle"
    /\ ~enabled_ \/ (mutex_ = NoThread /\ open_fds_ = NoEntries)
    /\ mutex_' = IF enabled_ THEN Main ELSE mutex_
    /\ phase' = "disable"
    /\ UNCHANGED <<files, enabled_, open_fds_, report, sessions, pc, fd, held, seen, unhooked>>

\* It returns early when the monitor is disabled or the map is empty.
ReportNothing ==
    /\ phase = "on" /\ pc[Main] = "idle"
    /\ ~enabled_ \/ open_fds_ = NoEntries
    /\ phase' = "disable"
    /\ UNCHANGED <<files, enabled_, mutex_, open_fds_, report, sessions, pc, fd, held, seen,
                   unhooked>>

\* Mutant: the lock is taken by hand and never released.
ReportKeepsLock ==
    /\ phase = "report"
    /\ phase' = "disable"
    /\ report' = NoEntries
    /\ UNCHANGED <<files, enabled_, mutex_, open_fds_, sessions, pc, fd, held, seen, unhooked>>

\* reporter->ReportIoLeak(report) writes the file, then the lock is released.  (On
\* Linux the file's own fopen does not pass through the hooks and cannot ask for
\* the lock again.)
ReportWrite ==
    /\ phase = "report"
    /\ phase' = "disable"
    /\ mutex_' = NoThread
    /\ report' = NoEntries
    /\ UNCHANGED <<files, enabled_, open_fds_, sessions, pc, fd, held, seen, unhooked>>

\* Disable: nothing when already disabled, else the flag goes first.
DisableFlag ==
    /\ phase = "disable"
    /\ enabled_' = FALSE
    /\ phase' = IF enabled_ THEN "swap" ELSE "off"
    /\ UNCHANGED <<files, mutex_, open_fds_, report, sessions, pc, fd, held, seen, unhooked>>

\* FdMap().swap(open_fds_) under the lock.
DisableSwap ==
    /\ phase = "swap"
    /\ mutex_ = NoThread
    /\ open_fds_' = NoEntries
    /\ seen' = {}
    /\ phase' = "off"
    /\ UNCHANGED <<files, enabled_, mutex_, report, sessions, pc, fd, held, unhooked>>

ShutdownStep == ReportLock \/ ReportNothing \/ ReportWrite \/ DisableFlag \/ DisableSwap

Next ==
    \/ \E t \in Threads : HookStep(t) /\ UNCHANGED core
    \/ \E cfg \in BOOLEAN : CoreInit(cfg)
    \/ ShutdownStep

Spec == Init /\ [][Next]_vars

\* A thread inside Shutdown is eventually scheduled again.
FairSpec == Spec /\ WF_vars(ReportWrite \/ DisableFlag \/ DisableSwap)

-----------------------------------------------------------------------------
\* Every variable holds values of its type; the lock is held over several steps by
\* Shutdown only, and only while it writes the report, whichever way it leaves
\* ReportLeakedFds.
TypeOK ==
    /\ files \in [Fds -> Kinds \cup {NoFile}]
    /\ enabled_ \in BOOLEAN
    /\ mutex_ = IF phase = "report" THEN Main ELSE NoThread
    /\ open_fds_ \in [Fds -> Kinds \cup {NoFile}]
    /\ phase \in {"off", "on", "report", "disable", "swap"}
    /\ report \in [Fds -> Kinds \cup {NoFile}]
    /\ sessions \in 0 .. MaxSessions
    /\ pc \in [Threads -> Steps]
    /\ fd \in [Threads -> Fds \cup {NoFd}]
    /\ held \subseteq Fds
    /\ seen \subseteq Fds
    /\ unhooked \subseteq Fds

\* A descriptor that the application holds and whose hook found the monitor enabled
\* is in the map, as a file or as a socket as the kernel has it: in every session,
\* whatever opens, closes and reuses of the number interleave.
FdsTracked ==
    \A f \in seen \cap held : files[f] # NoFile /\ open_fds_[f] = files[f]

\* Until the report is out it names every such descriptor that is still held, with
\* its kind: a leak is not missed because another thread opens or closes meanwhile.
LeaksReported ==
    phase = "report" => \A f \in seen \cap held : report[f] = files[f]

\* In the first session the report names only descriptors that are open in the kernel
\* all the while it is being written, as what they are: a close under way cannot
\* overtake it, and the only exception is a descriptor closed behind the hooks' back
\* and not opened through them again.
ReportedAreOpenFirst ==
    phase = "report" /\ sessions = 1 =>
        \A f \in Fds \ unhooked : report[f] \in {NoFile, files[f]}

\* "any FD still present in the tracking map (not yet close()d) is reported"
\* (README.md:804): in any session, what is reported has not been closed by close.
ReportedAreOpen ==
    phase = "report" => \A f \in Fds \ unhooked : report[f] # NoFile => files[f] # NoFile

\* "Shutdown should report the leaked FD" (test_io.cpp:48): a Shutdown that has come
\* to the report writes it and comes to its end.
ShutdownEnds == phase = "report" ~> phase = "off"
=============================================================================
