--------------------------- MODULE IoMonitor_proofs ---------------------------
(***************************************************************************)
(* Proofs about the descriptor monitor for every set of threads and        *)
(* descriptors and every number of sessions.                               *)
(*                                                                         *)
(* No lock covers a hook, so the argument is one of ownership: a           *)
(* descriptor that is open belongs to the application (held) or to one     *)
(* hook, and the entry of a number only changes in the hook that owns it   *)
(* (OwnPart).  The report is the one place where the lock matters: while   *)
(* it is held the map is what was copied (LockPart).  That the report of   *)
(* the first session names no closed descriptor rests on what a close      *)
(* under way has already done to the map (FirstPart).                      *)
(***************************************************************************)
EXTENDS IoMonitor, TLAPS

\* A hook that is under way owns its descriptor: it is open, nobody holds it, and no
\* other hook is about it.
OwnPart ==
    /\ \A t \in Threads :
        IF pc[t] = "idle" THEN fd[t] = NoFd
        ELSE fd[t] \in Fds /\ fd[t] \notin held /\ files[fd[t]] # NoFile
    /\ \A t, u \in Threads : t # u /\ fd[t] = fd[u] => fd[t] = NoFd

\* What the application holds, and what a hook has seen, is open.
OpenPart == \A f \in held \cup seen : files[f] # NoFile

\* While the report holds the lock, what it has copied is what the map holds.
LockPart ==
    /\ mutex_ = Main <=> phase = "report"
    /\ phase = "report" => enabled_ /\ report = open_fds_

\* The first session, as long as the monitor is enabled in it.
First == sessions = 1 /\ enabled_ /\ phase \in {"on", "report"}

\* Before the first session nothing is recorded; during it an entry tells the truth
\* unless its descriptor was closed behind the hooks' back, and a close that is about
\* to call the kernel has removed its entry.
FirstPart ==
    /\ sessions = 0 =>
        /\ phase = "off" /\ ~enabled_
        /\ open_fds_ = NoEntries
        /\ \A t \in Threads : pc[t] \notin {"add", "rm"}
    /\ First =>
        /\ \A f \in Fds \ unhooked : open_fds_[f] \in {NoFile, files[f]}
        /\ \A t \in Threads : pc[t] = "real_close" => open_fds_[fd[t]] = NoFile

Control == OwnPart /\ OpenPart /\ FdsTracked /\ LockPart /\ FirstPart

IInv == TypeOK /\ Control

-----------------------------------------------------------------------------
\* Every step keeps the types; that a hook names a descriptor rests on OwnPart.
LEMMA StepTyped ==
    ASSUME TypeOK, OwnPart, [Next]_vars
    PROVE  TypeOK'
<1> USE MonitorAssumption DEF TypeOK, OwnPart, Kinds, Steps, NoEntries, core
<1>1. ASSUME NEW t \in Threads, NEW kind \in Kinds, RealOpen(t, kind), UNCHANGED core
      PROVE  TypeOK'
    BY <1>1 DEF RealOpen, Ready, Closed
<1>2. ASSUME NEW t \in Threads, OnOpenCheck(t), UNCHANGED core PROVE TypeOK'
    BY <1>2 DEF OnOpenCheck, Return
<1>3. ASSUME NEW t \in Threads, OnOpen(t), UNCHANGED core PROVE TypeOK'
    BY <1>3 DEF OnOpen, Return
<1>4. ASSUME NEW t \in Threads, OnCloseCheck(t), UNCHANGED core PROVE TypeOK'
    BY <1>4 DEF OnCloseCheck, Return
<1>5. ASSUME NEW t \in Threads, OnClose(t), UNCHANGED core PROVE TypeOK'
    BY <1>5 DEF OnClose, Return
<1>6. ASSUME NEW t \in Threads, RealClose(t), UNCHANGED core PROVE TypeOK'
    BY <1>6 DEF RealClose, Return
<1>7. ASSUME NEW t \in Threads, NEW f \in held, Close(t, f), UNCHANGED core
      PROVE  TypeOK'
    BY <1>7 DEF Close, Ready
<1>8. ASSUME NEW t \in Threads, NEW f \in held, CloseUnhooked(t, f), UNCHANGED core
      PROVE  TypeOK'
    BY <1>8 DEF CloseUnhooked, Ready
<1>9. ASSUME NEW cfg \in BOOLEAN, CoreInit(cfg) PROVE TypeOK'
    BY <1>9 DEF CoreInit
<1>10. CASE ReportLock
    BY <1>10 DEF ReportLock
<1>11. CASE ReportNothing
    BY <1>11 DEF ReportNothing
<1>12. CASE ReportWrite
    BY <1>12 DEF ReportWrite
<1>13. CASE DisableFlag
    BY <1>13 DEF DisableFlag
<1>14. CASE DisableSwap
    BY <1>14 DEF DisableSwap
<1>15. CASE UNCHANGED vars
    BY <1>15 DEF vars
<1> QED
    BY <1>1, <1>2, <1>3, <1>4, <1>5, <1>6, <1>7,
       <1>8, <1>9, <1>10, <1>11, <1>12, <1>13, <1>14, <1>15
    DEF Next, HookStep, Open, Socket, Kinds, ShutdownStep

\* A descriptor changes hands between the application, the hooks and the kernel as a
\* whole: it never has two owners.
LEMMA OwnKept ==
    ASSUME TypeOK, OwnPart, OpenPart, [Next]_vars
    PROVE  OwnPart'
<1> USE MonitorAssumption DEF TypeOK, OwnPart, OpenPart, Kinds, core
<1>1. ASSUME NEW t \in Threads, NEW kind \in Kinds, RealOpen(t, kind), UNCHANGED core
      PROVE  OwnPart'
    BY <1>1 DEF RealOpen, Ready, Closed
<1>2. ASSUME NEW t \in Threads, OnOpenCheck(t), UNCHANGED core PROVE OwnPart'
    BY <1>2 DEF OnOpenCheck, Return
<1>3. ASSUME NEW t \in Threads, OnOpen(t), UNCHANGED core PROVE OwnPart'
    BY <1>3 DEF OnOpen, Return
<1>4. ASSUME NEW t \in Threads, OnCloseCheck(t), UNCHANGED core PROVE OwnPart'
    BY <1>4 DEF OnCloseCheck, Return
<1>5. ASSUME NEW t \in Threads, OnClose(t), UNCHANGED core PROVE OwnPart'
    BY <1>5 DEF OnClose, Return
<1>6. ASSUME NEW t \in Threads, RealClose(t), UNCHANGED core PROVE OwnPart'
    BY <1>6 DEF RealClose, Return
<1>7. ASSUME NEW t \in Threads, NEW f \in held, Close(t, f), UNCHANGED core
      PROVE  OwnPart'
    BY <1>7 DEF Close, Ready
<1>8. ASSUME NEW t \in Threads, NEW f \in held, CloseUnhooked(t, f), UNCHANGED core
      PROVE  OwnPart'
    BY <1>8 DEF CloseUnhooked, Ready
<1>9. ASSUME NEW cfg \in BOOLEAN, CoreInit(cfg) PROVE OwnPart'
    BY <1>9 DEF CoreInit
<1>10. CASE ReportLock
    BY <1>10 DEF ReportLock
<1>11. CASE ReportNothing
    BY <1>11 DEF ReportNothing
<1>12. CASE ReportWrite
    BY <1>12 DEF ReportWrite
<1>13. CASE DisableFlag
    BY <1>13 DEF DisableFlag
<1>14. CASE DisableSwap
    BY <1>14 DEF DisableSwap
<1>15. CASE UNCHANGED vars
    BY <1>15 DEF vars
<1> QED
    BY <1>1, <1>2, <1>3, <1>4, <1>5, <1>6, <1>7,
       <1>8, <1>9, <1>10, <1>11, <1>12, <1>13, <1>14, <1>15
    DEF Next, HookStep, Open, Socket, Kinds, ShutdownStep

\* The kernel closes a descriptor only in the step that drops it from held and seen.
LEMMA OpenKept ==
    ASSUME TypeOK, OwnPart, OpenPart, [Next]_vars
    PROVE  OpenPart'
<1> USE MonitorAssumption DEF TypeOK, OwnPart, OpenPart, Kinds, core
<1>1. ASSUME NEW t \in Threads, NEW kind \in Kinds, RealOpen(t, kind), UNCHANGED core
      PROVE  OpenPart'
    BY <1>1 DEF RealOpen, Ready, Closed
<1>2. ASSUME NEW t \in Threads, OnOpenCheck(t), UNCHANGED core PROVE OpenPart'
    BY <1>2 DEF OnOpenCheck, Return
<1>3. ASSUME NEW t \in Threads, OnOpen(t), UNCHANGED core PROVE OpenPart'
    BY <1>3 DEF OnOpen, Return
<1>4. ASSUME NEW t \in Threads, OnCloseCheck(t), UNCHANGED core PROVE OpenPart'
    BY <1>4 DEF OnCloseCheck, Return
<1>5. ASSUME NEW t \in Threads, OnClose(t), UNCHANGED core PROVE OpenPart'
    BY <1>5 DEF OnClose, Return
<1>6. ASSUME NEW t \in Threads, RealClose(t), UNCHANGED core PROVE OpenPart'
    BY <1>6 DEF RealClose, Return
<1>7. ASSUME NEW t \in Threads, NEW f \in held, Close(t, f), UNCHANGED core
      PROVE  OpenPart'
    BY <1>7 DEF Close, Ready
<1>8. ASSUME NEW t \in Threads, NEW f \in held, CloseUnhooked(t, f), UNCHANGED core
      PROVE  OpenPart'
    BY <1>8 DEF CloseUnhooked, Ready
<1>9. ASSUME NEW cfg \in BOOLEAN, CoreInit(cfg) PROVE OpenPart'
    BY <1>9 DEF CoreInit
<1>10. CASE ReportLock
    BY <1>10 DEF ReportLock
<1>11. CASE ReportNothing
    BY <1>11 DEF ReportNothing
<1>12. CASE ReportWrite
    BY <1>12 DEF ReportWrite
<1>13. CASE DisableFlag
    BY <1>13 DEF DisableFlag
<1>14. CASE DisableSwap
    BY <1>14 DEF DisableSwap
<1>15. CASE UNCHANGED vars
    BY <1>15 DEF vars
<1> QED
    BY <1>1, <1>2, <1>3, <1>4, <1>5, <1>6, <1>7,
       <1>8, <1>9, <1>10, <1>11, <1>12, <1>13, <1>14, <1>15
    DEF Next, HookStep, Open, Socket, Kinds, ShutdownStep

\* The entry of a held descriptor changes in no hook, since hooks own their own; a
\* descriptor becomes held together with its entry, or unseen.
LEMMA TrackedKept ==
    ASSUME TypeOK, OwnPart, OpenPart, FdsTracked, [Next]_vars
    PROVE  FdsTracked'
<1> USE MonitorAssumption DEF TypeOK, OwnPart, OpenPart, FdsTracked, Kinds, NoEntries, core
<1>1. ASSUME NEW t \in Threads, NEW kind \in Kinds, RealOpen(t, kind), UNCHANGED core
      PROVE  FdsTracked'
    BY <1>1 DEF RealOpen, Ready, Closed
<1>2. ASSUME NEW t \in Threads, OnOpenCheck(t), UNCHANGED core PROVE FdsTracked'
    BY <1>2 DEF OnOpenCheck, Return
<1>3. ASSUME NEW t \in Threads, OnOpen(t), UNCHANGED core PROVE FdsTracked'
    BY <1>3 DEF OnOpen, Return
<1>4. ASSUME NEW t \in Threads, OnCloseCheck(t), UNCHANGED core PROVE FdsTracked'
    BY <1>4 DEF OnCloseCheck, Return
<1>5. ASSUME NEW t \in Threads, OnClose(t), UNCHANGED core PROVE FdsTracked'
    BY <1>5 DEF OnClose, Return
<1>6. ASSUME NEW t \in Threads, RealClose(t), UNCHANGED core PROVE FdsTracked'
    BY <1>6 DEF RealClose, Return
<1>7. ASSUME NEW t \in Threads, NEW f \in held, Close(t, f), UNCHANGED core
      PROVE  FdsTracked'
    BY <1>7 DEF Close, Ready
<1>8. ASSUME NEW t \in Threads, NEW f \in held, CloseUnhooked(t, f), UNCHANGED core
      PROVE  FdsTracked'
    BY <1>8 DEF CloseUnhooked, Ready
<1>9. ASSUME NEW cfg \in BOOLEAN, CoreInit(cfg) PROVE FdsTracked'
    BY <1>9 DEF CoreInit
<1>10. CASE ReportLock
    BY <1>10 DEF ReportLock
<1>11. CASE ReportNothing
    BY <1>11 DEF ReportNothing
<1>12. CASE ReportWrite
    BY <1>12 DEF ReportWrite
<1>13. CASE DisableFlag
    BY <1>13 DEF DisableFlag
<1>14. CASE DisableSwap
    BY <1>14 DEF DisableSwap
<1>15. CASE UNCHANGED vars
    BY <1>15 DEF vars
<1> QED
    BY <1>1, <1>2, <1>3, <1>4, <1>5, <1>6, <1>7,
       <1>8, <1>9, <1>10, <1>11, <1>12, <1>13, <1>14, <1>15
    DEF Next, HookStep, Open, Socket, Kinds, ShutdownStep

\* While the report is written the lock keeps the map as it was copied.
LEMMA LockKept ==
    ASSUME TypeOK, LockPart, [Next]_vars
    PROVE  LockPart'
<1> USE MonitorAssumption DEF TypeOK, LockPart, core
<1>1. ASSUME NEW t \in Threads, NEW kind \in Kinds, RealOpen(t, kind), UNCHANGED core
      PROVE  LockPart'
    BY <1>1 DEF RealOpen, Ready, Closed
<1>2. ASSUME NEW t \in Threads, OnOpenCheck(t), UNCHANGED core PROVE LockPart'
    BY <1>2 DEF OnOpenCheck, Return
<1>3. ASSUME NEW t \in Threads, OnOpen(t), UNCHANGED core PROVE LockPart'
    BY <1>3 DEF OnOpen, Return
<1>4. ASSUME NEW t \in Threads, OnCloseCheck(t), UNCHANGED core PROVE LockPart'
    BY <1>4 DEF OnCloseCheck, Return
<1>5. ASSUME NEW t \in Threads, OnClose(t), UNCHANGED core PROVE LockPart'
    BY <1>5 DEF OnClose, Return
<1>6. ASSUME NEW t \in Threads, RealClose(t), UNCHANGED core PROVE LockPart'
    BY <1>6 DEF RealClose, Return
<1>7. ASSUME NEW t \in Threads, NEW f \in held, Close(t, f), UNCHANGED core
      PROVE  LockPart'
    BY <1>7 DEF Close, Ready
<1>8. ASSUME NEW t \in Threads, NEW f \in held, CloseUnhooked(t, f), UNCHANGED core
      PROVE  LockPart'
    BY <1>8 DEF CloseUnhooked, Ready
<1>9. ASSUME NEW cfg \in BOOLEAN, CoreInit(cfg) PROVE LockPart'
    BY <1>9 DEF CoreInit
<1>10. CASE ReportLock
    BY <1>10 DEF ReportLock
<1>11. CASE ReportNothing
    BY <1>11 DEF ReportNothing
<1>12. CASE ReportWrite
    BY <1>12 DEF ReportWrite
<1>13. CASE DisableFlag
    BY <1>13 DEF DisableFlag
<1>14. CASE DisableSwap
    BY <1>14 DEF DisableSwap
<1>15. CASE UNCHANGED vars
    BY <1>15 DEF vars
<1> QED
    BY <1>1, <1>2, <1>3, <1>4, <1>5, <1>6, <1>7,
       <1>8, <1>9, <1>10, <1>11, <1>12, <1>13, <1>14, <1>15
    DEF Next, HookStep, Open, Socket, Kinds, ShutdownStep

\* In the first session a hook that closes has removed the entry before it calls the
\* kernel, and a hook that opens writes what it has opened.
LEMMA FirstKept ==
    ASSUME TypeOK, OwnPart, LockPart, FirstPart, [Next]_vars
    PROVE  FirstPart'
<1> USE MonitorAssumption DEF TypeOK, OwnPart, LockPart, FirstPart, First, NoEntries, core
<1>1. ASSUME NEW t \in Threads, NEW kind \in Kinds, RealOpen(t, kind), UNCHANGED core
      PROVE  FirstPart'
    BY <1>1 DEF RealOpen, Ready, Closed
<1>2. ASSUME NEW t \in Threads, OnOpenCheck(t), UNCHANGED core PROVE FirstPart'
    BY <1>2 DEF OnOpenCheck, Return
<1>3. ASSUME NEW t \in Threads, OnOpen(t), UNCHANGED core PROVE FirstPart'
    BY <1>3 DEF OnOpen, Return
<1>4. ASSUME NEW t \in Threads, OnCloseCheck(t), UNCHANGED core PROVE FirstPart'
    BY <1>4 DEF OnCloseCheck, Return
<1>5. ASSUME NEW t \in Threads, OnClose(t), UNCHANGED core PROVE FirstPart'
    BY <1>5 DEF OnClose, Return
<1>6. ASSUME NEW t \in Threads, RealClose(t), UNCHANGED core PROVE FirstPart'
    BY <1>6 DEF RealClose, Return
<1>7. ASSUME NEW t \in Threads, NEW f \in held, Close(t, f), UNCHANGED core
      PROVE  FirstPart'
    BY <1>7 DEF Close, Ready
<1>8. ASSUME NEW t \in Threads, NEW f \in held, CloseUnhooked(t, f), UNCHANGED core
      PROVE  FirstPart'
    BY <1>8 DEF CloseUnhooked, Ready
<1>9. ASSUME NEW cfg \in BOOLEAN, CoreInit(cfg) PROVE FirstPart'
    BY <1>9 DEF CoreInit
<1>10. CASE ReportLock
    BY <1>10 DEF ReportLock
<1>11. CASE ReportNothing
    BY <1>11 DEF ReportNothing
<1>12. CASE ReportWrite
    BY <1>12 DEF ReportWrite
<1>13. CASE DisableFlag
    BY <1>13 DEF DisableFlag
<1>14. CASE DisableSwap
    BY <1>14 DEF DisableSwap
<1>15. CASE UNCHANGED vars
    BY <1>15 DEF vars
<1> QED
    BY <1>1, <1>2, <1>3, <1>4, <1>5, <1>6, <1>7,
       <1>8, <1>9, <1>10, <1>11, <1>12, <1>13, <1>14, <1>15
    DEF Next, HookStep, Open, Socket, Kinds, ShutdownStep

-----------------------------------------------------------------------------
\* The inductive invariant holds whatever opens, closes and sessions interleave.
THEOREM InductiveInvariant == Spec => []IInv
<1>1. Init => IInv
    <2> SUFFICES ASSUME Init PROVE IInv
        OBVIOUS
    <2> USE MonitorAssumption DEF Init, NoEntries
    <2>1. TypeOK
        <3>1. sessions \in 0 .. MaxSessions
            OBVIOUS
        <3>2. pc \in [Threads -> Steps]
            BY DEF Steps
        <3>3. enabled_ \in BOOLEAN /\ phase \in {"off", "on", "report", "disable", "swap"}
            OBVIOUS
        <3>4. /\ files \in [Fds -> Kinds \cup {NoFile}]
              /\ open_fds_ \in [Fds -> Kinds \cup {NoFile}]
              /\ report \in [Fds -> Kinds \cup {NoFile}]
            OBVIOUS
        <3>5. fd \in [Threads -> Fds \cup {NoFd}] /\ mutex_ = NoThread /\ phase # "report"
            OBVIOUS
        <3>6. held \subseteq Fds /\ seen \subseteq Fds /\ unhooked \subseteq Fds
            OBVIOUS
        <3> QED
            BY ONLY <3>1, <3>2, <3>3, <3>4, <3>5, <3>6 DEF TypeOK
    <2>2. OwnPart
        BY DEF OwnPart
    <2>3. OpenPart /\ FdsTracked
        BY DEF OpenPart, FdsTracked
    <2>4. LockPart
        BY DEF LockPart
    <2>5. FirstPart
        BY DEF FirstPart, First
    <2> QED
        BY ONLY <2>1, <2>2, <2>3, <2>4, <2>5 DEF IInv, Control
<1>2. IInv /\ [Next]_vars => IInv'
    BY StepTyped, OwnKept, OpenKept, TrackedKept, LockKept, FirstKept DEF IInv, Control
<1> QED
    BY <1>1, <1>2, PTL DEF Spec

\* The hooks, Init and Shutdown keep every variable in its type.
THEOREM TypeCorrect == Spec => []TypeOK
<1>1. IInv => TypeOK
    BY DEF IInv
<1> QED
    BY <1>1, InductiveInvariant, PTL

\* In every session, a held descriptor whose hook found the monitor enabled is in the
\* map as what it is (io_monitor.cpp:101-128).
THEOREM DescriptorsTracked == Spec => []FdsTracked
<1>1. IInv => FdsTracked
    BY DEF IInv, Control
<1> QED
    BY <1>1, InductiveInvariant, PTL

\* ReportLeakedFds misses no such descriptor, for all the time it writes the report
\* (io_monitor.cpp:130-153).
THEOREM NoLeakMissed == Spec => []LeaksReported
<1>1. IInv => LeaksReported
    BY DEF IInv, Control, FdsTracked, LockPart, LeaksReported
<1> QED
    BY <1>1, InductiveInvariant, PTL

\* In the first session it names no descriptor that close has closed.
THEOREM NoFalseLeak == Spec => []ReportedAreOpenFirst
<1>1. IInv => ReportedAreOpenFirst
    BY DEF IInv, Control, LockPart, FirstPart, First, ReportedAreOpenFirst
<1> QED
    BY <1>1, InductiveInvariant, PTL
=============================================================================
