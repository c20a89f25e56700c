------------------------- MODULE CrashHandler_proofs -------------------------
(***************************************************************************)
(* Proofs about the crash handler for every set of threads and of signals  *)
(* and every depth of nested handlers: the actions that Install saves are  *)
(* the application's own, and a process ended by the handler before        *)
(* Shutdown leaves a report, unless another handler had just truncated it. *)
(*                                                                         *)
(* The report is written many steps before the process ends, of a thread   *)
(* whose handler others may interrupt.  So the invariant is about every    *)
(* frame of every thread (FramePart): one that is past the reporter has    *)
(* reported, unless Shutdown has begun, and its file still exists.  A file *)
(* is empty only while a frame, maybe one far down some stack, is between  *)
(* opening and writing it (FilePart).  The argument needs the reporter to  *)
(* live while Domovoy's actions are set, and no handler to run before they *)
(* are (PhasePart).                                                        *)
(***************************************************************************)
EXTENDS CrashHandler, SequenceTheorems, TLAPS

\* The reports have somewhere to go: from Install to Shutdown.
Serving == phase \in {"install", "on"}

\* The milliseconds of which a crash report has been opened, or cannot be.
Times == {m \in 0 .. MaxMs : writable => FileName(Prefix["crash"], m) \in DOMAIN files}

\* A handler past its reporter has reported, and its file exists.
FrameOK(f, serving, times) ==
    /\ f.step \in {"build", "read"} => f.at = 0
    /\ f.step = "read" => ~f.locked
    /\ f.step = "call" /\ f.locked => f.at # 0
    /\ f.step = "write" => f.at # 0
    /\ f.step \in {"chain", "return"} /\ serving => f.at # 0
    /\ f.step \in {"write", "chain", "return"} /\ f.at # 0 => f.at \in times

\* The handlers of one thread.
Good(q, serving, times) ==
    /\ q \in Seq(Frame)
    /\ \A i \in 1 .. Len(q) : FrameOK(q[i], serving, times)
    /\ \A i, j \in 1 .. Len(q) : i # j /\ q[i].sig \in Sync => q[i].sig # q[j].sig

FramePart ==
    /\ frames \in [Threads -> Seq(Frame)]
    /\ \A t \in Threads : Good(frames[t], Serving, Times)

PhasePart ==
    /\ Serving => reporter_ = "live"
    /\ phase = "off" => /\ \A t \in Threads : frames[t] = <<>>
                        /\ \A s \in Signals : disp[s] # "crash"
    /\ phase = "install" => \A s \in todo : disp[s] # "crash"

\* What ended the process: a handler of which the same can be said.
KillerPart ==
    /\ killer \in Seq(Frame)
    /\ \A i \in 1 .. Len(killer) : Serving => killer[i].at # 0 /\ killer[i].at \in Times
    /\ killer # <<>> => status # "running"

\* A crash report on disk is empty only while some handler has yet to write to it.
FilePart ==
    writable => \A m \in 1 .. MaxMs :
        FileName(Prefix["crash"], m) \in DOMAIN files =>
            files[FileName(Prefix["crash"], m)] # {} \/ Truncated(m)

Control == FramePart /\ PhasePart /\ KillerPart

IInv == TypeOK /\ Control /\ FilePart
-----------------------------------------------------------------------------
\* Sequences of frames.
LEMMA GoodLater ==
    ASSUME NEW q, NEW a \in BOOLEAN, NEW S, NEW b \in BOOLEAN, NEW T,
           Good(q, a, S), b => a, S \subseteq T
    PROVE  Good(q, b, T)
    BY DEF Good, FrameOK

LEMMA GoodTop ==
    ASSUME NEW q, NEW a \in BOOLEAN, NEW S, Good(q, a, S), q # <<>>,
           NEW f \in Frame, f.sig = q[Len(q)].sig, FrameOK(f, a, S)
    PROVE  Good([q EXCEPT ![Len(q)] = f], a, S)
<1>1. q \in Seq(Frame) /\ Len(q) \in Nat \ {0}
    BY DEF Good
<1> DEFINE r == [q EXCEPT ![Len(q)] = f]
<1>2. r \in Seq(Frame) /\ Len(r) = Len(q)
    BY <1>1
<1>3. r[Len(q)] = f /\ \A i \in 1 .. Len(q) : i # Len(q) => r[i] = q[i]
    BY <1>1
<1> HIDE DEF r
<1>4. \A i \in 1 .. Len(r) : FrameOK(r[i], a, S)
    BY <1>2, <1>3 DEF Good
<1>5. \A i \in 1 .. Len(q) : r[i].sig = q[i].sig
    BY <1>1, <1>3
<1>6. \A i, j \in 1 .. Len(r) : i # j /\ r[i].sig \in Sync => r[i].sig # r[j].sig
    BY <1>2, <1>5 DEF Good
<1>7. Good(r, a, S)
    BY <1>2, <1>4, <1>6 DEF Good
<1> QED
    BY <1>7 DEF r

LEMMA GoodAppend ==
    ASSUME NEW q, NEW a \in BOOLEAN, NEW S, Good(q, a, S),
           NEW f \in Frame, FrameOK(f, a, S),
           f.sig \in Sync => \A i \in DOMAIN q : q[i].sig # f.sig
    PROVE  Good(Append(q, f), a, S)
<1>1. q \in Seq(Frame) /\ Len(q) \in Nat /\ DOMAIN q = 1 .. Len(q)
    BY DEF Good
<1> DEFINE r == Append(q, f)
<1>2. r \in Seq(Frame) /\ Len(r) = Len(q) + 1
    BY <1>1
<1>3. r[Len(q) + 1] = f /\ \A i \in 1 .. Len(q) : r[i] = q[i]
    BY <1>1
<1> HIDE DEF r
<1>4. \A i \in 1 .. Len(r) : i = Len(q) + 1 \/ i \in 1 .. Len(q)
    BY <1>1, <1>2
<1>5. \A i \in 1 .. Len(r) : FrameOK(r[i], a, S)
    BY <1>3, <1>4 DEF Good
<1>6. \A i, j \in 1 .. Len(r) : i # j /\ r[i].sig \in Sync => r[i].sig # r[j].sig
    BY <1>1, <1>3, <1>4 DEF Good
<1>7. Good(r, a, S)
    BY <1>2, <1>5, <1>6 DEF Good
<1> QED
    BY <1>7 DEF r

LEMMA GoodFront ==
    ASSUME NEW q, NEW a \in BOOLEAN, NEW S, Good(q, a, S), q # <<>>
    PROVE  Good(SubSeq(q, 1, Len(q) - 1), a, S)
<1>1. q \in Seq(Frame) /\ Len(q) \in Nat \ {0}
    BY DEF Good
<1> DEFINE r == SubSeq(q, 1, Len(q) - 1)
<1>2. /\ r \in Seq(Frame) /\ Len(r) = Len(q) - 1
      /\ \A i \in 1 .. Len(q) - 1 : r[i] = q[i]
    <2>1. PICK k \in Nat : k = Len(q) - 1
        BY <1>1
    <2>2. \A i \in 1 .. k : q[i] \in Frame
        BY <1>1, <2>1
    <2> HIDE DEF Frame
    <2>3. /\ SubSeq(q, 1, k) \in Seq(Frame)
          /\ Len(SubSeq(q, 1, k)) = IF 1 <= k THEN k - 1 + 1 ELSE 0
          /\ \A i \in 1 .. k - 1 + 1 : SubSeq(q, 1, k)[i] = q[1 + i - 1]
        BY <2>2, SubSeqProperties
    <2>4. /\ Len(SubSeq(q, 1, k)) = k
          /\ \A i \in 1 .. k : SubSeq(q, 1, k)[i] = q[i]
        BY <2>3
    <2> QED
        BY <2>1, <2>3, <2>4
<1> HIDE DEF r
<1>3. \A i \in 1 .. Len(r) : i \in 1 .. Len(q) /\ r[i] = q[i]
    BY <1>1, <1>2
<1>4. Good(r, a, S)
    BY <1>2, <1>3 DEF Good
<1> QED
    BY <1>4 DEF r

LEMMA TopFrame ==
    ASSUME FramePart, NEW t \in Threads, Handling(t)
    PROVE  /\ Len(frames[t]) \in Nat \ {0} /\ Top(t) \in Frame
           /\ FrameOK(Top(t), Serving, Times)
<1>1. frames[t] \in Seq(Frame) /\ frames[t] # <<>>
    BY DEF FramePart, Handling
<1>2. Len(frames[t]) \in Nat \ {0}
    BY <1>1
<1> QED
    BY <1>1, <1>2 DEF FramePart, Good, Top

-----------------------------------------------------------------------------
\* A step changes the frames of one thread at most, and takes back no report.
Advances == (Serving' => Serving) /\ Times \subseteq Times'

LEMMA FramesSame ==
    ASSUME FramePart, Advances, frames' = frames
    PROVE  FramePart'
<1>1. Serving \in BOOLEAN /\ Serving' \in BOOLEAN
    BY DEF Serving
<1> QED
    BY <1>1, GoodLater DEF FramePart, Advances

LEMMA FramesOf ==
    ASSUME FramePart, Advances, NEW t \in Threads, NEW q, Good(q, Serving', Times'),
           frames' = [frames EXCEPT ![t] = q]
    PROVE  FramePart'
<1>1. Serving \in BOOLEAN /\ Serving' \in BOOLEAN
    BY DEF Serving
<1>2. q \in Seq(Frame)
    BY DEF Good
<1>3. frames' \in [Threads -> Seq(Frame)]
    BY <1>2 DEF FramePart
<1>4. ASSUME NEW u \in Threads PROVE Good(frames'[u], Serving', Times')
    <2>1. CASE u = t
        BY <2>1 DEF FramePart
    <2>2. CASE u # t
        <3>1. frames'[u] = frames[u]
            BY <2>2 DEF FramePart
        <3> QED
            BY <1>1, <3>1, GoodLater DEF FramePart, Advances
    <2> QED
        BY <2>1, <2>2
<1> QED
    BY <1>3, <1>4 DEF FramePart

LEMMA ReplaceKept ==
    ASSUME FramePart, Advances, NEW t \in Threads, Handling(t), NEW f \in Frame,
           f.sig = Top(t).sig, FrameOK(f, Serving', Times'), Replace(t, f)
    PROVE  FramePart'
<1>1. Serving \in BOOLEAN /\ Serving' \in BOOLEAN
    BY DEF Serving
<1>2. PICK q : q = frames[t]
    OBVIOUS
<1>3. Good(q, Serving', Times') /\ q # <<>> /\ f.sig = q[Len(q)].sig
    BY <1>1, <1>2, GoodLater DEF FramePart, Advances, Handling, Top
<1>4. Good([q EXCEPT ![Len(q)] = f], Serving', Times')
    BY <1>1, <1>3, GoodTop
<1>5. frames' = [frames EXCEPT ![t] = [q EXCEPT ![Len(q)] = f]]
    BY <1>2 DEF Replace, FramePart
<1> QED
    BY <1>4, <1>5, FramesOf

\* The kernel's part of a fault.
LEMMA DeliverKept ==
    ASSUME FramePart, PhasePart, Advances, NEW t \in Threads, NEW s \in Signals,
           NEW below, Good(below, Serving', Times'), Deliver(t, s, below),
           UNCHANGED <<phase, disp>>
    PROVE  FramePart' /\ (phase' = "off" => frames' = frames)
<1>1. CASE frames' = frames
    BY <1>1, FramesSame
<1>2. CASE frames' # frames
    <2>1. /\ disp[s] = "crash" /\ (s \in Sync => \A i \in DOMAIN below : below[i].sig # s)
          /\ frames' = [frames EXCEPT ![t] = Append(below, NewFrame(s))]
        BY <1>2 DEF Deliver, Die
    <2>2. NewFrame(s) \in Frame /\ NewFrame(s).sig = s
        BY CrashAssumption DEF NewFrame, Frame
    <2>3. FrameOK(NewFrame(s), Serving', Times')
        BY DEF NewFrame, FrameOK
    <2>4. Good(Append(below, NewFrame(s)), Serving', Times')
        <3>1. Serving' \in BOOLEAN
            BY DEF Serving
        <3> QED
            BY <2>1, <2>2, <2>3, <3>1, GoodAppend
    <2> QED
        BY <2>1, <2>4, FramesOf DEF PhasePart
<1> QED
    BY <1>1, <1>2

-----------------------------------------------------------------------------
\* The types of everything but the frames.
LifeTypes ==
    /\ disp \in [Signals -> AppActions \cup {"crash"}]
    /\ old_actions \in [Signals -> AppActions]
    /\ installed_ \in BOOLEAN
    /\ altstack \subseteq {Main}
    /\ phase \in {"off", "install", "on", "uninstall", "stop", "destroyed", "down"}
    /\ todo \subseteq Signals
    /\ reporter_ \in {"null", "live", "destroyed"}
    /\ mutex_ \in Threads \cup {Nobody}

LEMMA TypeParts == TypeOK => LifeTypes
    BY DEF TypeOK, LifeTypes

LEMMA TypeWhole == LifeTypes /\ FramePart /\ KillerPart => TypeOK
<1> SUFFICES ASSUME LifeTypes, FramePart, KillerPart PROVE TypeOK
    OBVIOUS
<1>1. ASSUME NEW t \in Threads, NEW i \in DOMAIN frames[t], NEW j \in DOMAIN frames[t],
             i # j, frames[t][i].sig \in Sync
      PROVE  frames[t][i].sig # frames[t][j].sig
    <2>1. DOMAIN frames[t] = 1 .. Len(frames[t])
        BY DEF FramePart
    <2> QED
        BY <1>1, <2>1 DEF FramePart, Good
<1> QED
    BY <1>1 DEF TypeOK, LifeTypes, FramePart, KillerPart

LEMMA NoKiller ==
    ASSUME KillerPart, status = "running", killer' = killer
    PROVE  KillerPart'
<1>1. killer = <<>> /\ killer \in Seq(Frame) /\ Len(killer) = 0
    BY DEF KillerPart
<1>2. \A i \in 1 .. Len(killer') : FALSE
    BY <1>1
<1> QED
    BY <1>1, <1>2 DEF KillerPart

\* Steps of Init and Shutdown.
LEMMA CoreKept ==
    ASSUME IInv, CoreStep
    PROVE  LifeTypes' /\ Control'
<1> USE DEF IInv, Control
<1>1. /\ UNCHANGED <<mutex_, frames, status, killer, reporter>> /\ status = "running"
    BY DEF CoreStep, process, BeginInstall, BeginUninstall, DisableStack, Destroy,
           InstallSignal, RestoreSignal, Runs
<1>2. KillerPart'
    BY <1>1, NoKiller
<1>3. Times' = Times
    BY <1>1 DEF Times, reporter
<1>4. CASE BeginInstall
    <2>1. \A t \in Threads : frames[t] = <<>>
        BY <1>4 DEF BeginInstall, PhasePart
    <2>2. FramePart'
        BY <1>1, <2>1 DEF FramePart, Good
    <2>3. PhasePart'
        BY <1>4, <2>1 DEF BeginInstall, PhasePart, Serving
    <2>4. LifeTypes'
        BY <1>1, <1>4, TypeParts DEF BeginInstall, LifeTypes
    <2> QED
        BY <1>2, <2>2, <2>3, <2>4
<1>5. CASE \E s \in Signals : InstallSignal(s)
    <2>1. PICK s \in Signals : InstallSignal(s)
        BY <1>5
    <2>2. Advances
        BY <1>3, <2>1 DEF Advances, InstallSignal, Serving
    <2>3. PhasePart'
        BY <2>1, TypeParts DEF InstallSignal, PhasePart, Serving, LifeTypes
    <2>4. LifeTypes'
        <3>1. disp[s] \in AppActions
            BY <2>1, TypeParts DEF InstallSignal, PhasePart, LifeTypes
        <3> QED
            BY <1>1, <2>1, <3>1, TypeParts DEF InstallSignal, Saved, LifeTypes
    <2> QED
        BY <1>1, <1>2, <2>2, <2>3, <2>4, FramesSame
<1>6. CASE \/ BeginUninstall \/ DisableStack \/ Destroy
           \/ \E s \in Signals : RestoreSignal(s)
    <2>1. Serving' = FALSE /\ phase' \notin {"off", "install"}
        BY <1>6 DEF BeginUninstall, DisableStack, Destroy, RestoreSignal, Serving
    <2>2. Advances /\ PhasePart'
        BY <1>3, <2>1 DEF Advances, PhasePart
    <2>3. LifeTypes'
        BY <1>1, <1>6, TypeParts
        DEF BeginUninstall, DisableStack, Destroy, RestoreSignal, LifeTypes
    <2> QED
        BY <1>1, <1>2, <2>2, <2>3, FramesSame
<1> QED
    BY <1>4, <1>5, <1>6 DEF CoreStep

\* Steps that are none of Init's or Shutdown's: what they leave alone.
LEMMA ThreadKept ==
    ASSUME IInv, UNCHANGED <<old_actions, installed_, altstack, phase, todo, reporter_>>,
           disp' = disp \/ \E s \in Signals : disp' = [disp EXCEPT ![s] = "dfl"],
           mutex_' \in Threads \cup {Nobody},
           phase = "off" => frames' = frames,
           FramePart', KillerPart'
    PROVE  LifeTypes' /\ Control'
<1> USE DEF IInv, Control
<1>1. /\ disp' \in [Signals -> AppActions \cup {"crash"}]
      /\ \A s \in Signals : disp[s] # "crash" => disp'[s] # "crash"
    BY TypeParts DEF LifeTypes, AppActions
<1>2. LifeTypes'
    BY <1>1, TypeParts DEF LifeTypes
<1>3. PhasePart'
    BY <1>1, TypeParts DEF PhasePart, Serving, LifeTypes
<1> QED
    BY <1>2, <1>3

LEMMA FaultKept ==
    ASSUME IInv, NEW t \in Threads, NEW s \in Signals, Fault(t, s) \/ Overflow(t, s)
    PROVE  LifeTypes' /\ Control'
<1> USE DEF IInv, Control
<1>1. /\ UNCHANGED <<life, mutex_, killer, reporter>> /\ status = "running"
    BY DEF Fault, Overflow, Runs
<1>2. Advances
    BY <1>1 DEF Advances, life, reporter, Serving, Times
<1>3. KillerPart'
    BY <1>1, NoKiller
<1>4. \A q : Good(q, Serving, Times) => Good(q, Serving', Times')
    <2>1. Serving \in BOOLEAN /\ Serving' \in BOOLEAN
        BY DEF Serving
    <2> QED
        BY <1>2, <2>1, GoodLater DEF Advances
<1>5. FramePart' /\ (phase' = "off" => frames' = frames)
    <2>1. CASE Fault(t, s)
        <3>1. Good(frames[t], Serving', Times')
            BY <1>4 DEF FramePart
        <3>2. Deliver(t, s, frames[t]) /\ UNCHANGED <<phase, disp>>
            BY <1>1, <2>1 DEF Fault, life
        <3>3. PICK q : q = frames[t] /\ Good(q, Serving', Times') /\ Deliver(t, s, q)
            BY <3>1, <3>2
        <3> QED
            BY <1>2, <3>2, <3>3, DeliverKept
    <2>2. CASE Overflow(t, s)
        <3>1. CASE t \in altstack
            <4>1. Good(<<>>, Serving', Times')
                BY DEF Good
            <4>2. Deliver(t, s, <<>>) /\ UNCHANGED <<phase, disp>>
                BY <1>1, <2>2, <3>1 DEF Overflow, life
            <4> QED
                BY <1>2, <4>1, <4>2, DeliverKept
        <3>2. CASE t \notin altstack
            BY <1>2, <2>2, <3>2, FramesSame DEF Overflow, Die
        <3> QED
            BY <3>1, <3>2
    <2> QED
        BY <2>1, <2>2
<1> QED
    BY <1>1, <1>3, <1>5, TypeParts, ThreadKept DEF life, LifeTypes

-----------------------------------------------------------------------------
\* Steps of a handler.
LEMMA Running ==
    ASSUME IInv, NEW t \in Threads, NEW step, In(t, step)
    PROVE  /\ status = "running" /\ Handling(t) /\ Top(t).step = step
           /\ Top(t) \in Frame /\ FrameOK(Top(t), Serving, Times) /\ phase # "off"
<1>1. status = "running" /\ Handling(t) /\ Top(t).step = step
    BY DEF In
<1>2. phase # "off"
    BY <1>1 DEF IInv, Control, PhasePart, Handling
<1> QED
    BY <1>1, <1>2, TopFrame DEF IInv, Control

\* A handler goes on to its next frame.
LEMMA MoveKept ==
    ASSUME IInv, NEW t \in Threads, Handling(t), status = "running", NEW g \in Frame,
           g.sig = Top(t).sig, FrameOK(g, Serving', Times'), Replace(t, g), Advances,
           UNCHANGED <<life, status, killer>>, mutex_' \in Threads \cup {Nobody}
    PROVE  LifeTypes' /\ Control'
<1> USE DEF IInv, Control
<1>1. FramePart'
    BY ReplaceKept
<1>2. KillerPart'
    BY NoKiller
<1>3. phase # "off"
    BY DEF PhasePart, Handling
<1> QED
    BY <1>1, <1>2, <1>3, ThreadKept DEF life

LEMMA AllocateKept ==
    ASSUME IInv, NEW t \in Threads, Allocate(t)
    PROVE  LifeTypes' /\ Control'
<1>1. /\ UNCHANGED <<life, status, killer, reporter>> /\ mutex_' = t
      /\ status = "running" /\ Handling(t) /\ Top(t).step \in Allocating
    BY DEF Allocate
<1>2. Advances /\ Serving' = Serving /\ Times' = Times
    BY <1>1 DEF Advances, life, reporter, Serving, Times
<1>3. PICK f \in Frame : f = Top(t) /\ FrameOK(f, Serving, Times)
    BY <1>1, TopFrame DEF IInv, Control
<1>4. PICK ms \in 1 .. MaxMs :
        Replace(t, [f EXCEPT !.locked = TRUE, !.at = IF f.step = "call" THEN ms ELSE @])
    BY <1>3 DEF Allocate
<1>10. PICK at : at = IF f.step = "call" THEN ms ELSE f.at
    OBVIOUS
<1>5. at \in 0 .. MaxMs /\ (f.step = "call" => at # 0) /\ (f.step # "call" => at = f.at)
    BY <1>10, CrashAssumption DEF Frame
<1>6. PICK g : g = [f EXCEPT !.locked = TRUE, !.at = at]
    OBVIOUS
<1>7. g \in Frame /\ g.sig = f.sig /\ g.at = at /\ g.step = f.step
    BY <1>5, <1>6 DEF Frame
<1>8. FrameOK(g, Serving', Times')
    BY <1>1, <1>2, <1>3, <1>5, <1>7 DEF FrameOK, Allocating
<1>9. Replace(t, g)
    BY <1>4, <1>6, <1>10
<1> QED
    BY <1>1, <1>2, <1>3, <1>7, <1>8, <1>9, MoveKept

LEMMA BuildKept ==
    ASSUME IInv, NEW t \in Threads, Build(t)
    PROVE  LifeTypes' /\ Control'
<1>1. /\ UNCHANGED <<life, status, killer, reporter>> /\ mutex_' = Nobody
      /\ In(t, "build")
    BY DEF Build, Proceed
<1>2. Advances /\ Serving' = Serving /\ Times' = Times
    BY <1>1 DEF Advances, life, reporter, Serving, Times
<1>3. PICK f \in Frame : f = Top(t) /\ FrameOK(f, Serving, Times) /\ f.step = "build"
    BY <1>1, Running
<1>4. PICK g : g = [f EXCEPT !.step = "read", !.locked = FALSE]
    OBVIOUS
<1>5. g \in Frame /\ g.sig = f.sig /\ g.at = f.at /\ g.step = "read" /\ ~g.locked
    BY <1>4 DEF Frame
<1>6. FrameOK(g, Serving', Times')
    BY <1>3, <1>5 DEF FrameOK
<1>7. Replace(t, g)
    BY <1>3, <1>4 DEF Build, Proceed
<1> QED
    BY <1>1, <1>2, <1>3, <1>5, <1>6, <1>7, Running, MoveKept

LEMMA ReadKept ==
    ASSUME IInv, NEW t \in Threads, ReadReporter(t)
    PROVE  LifeTypes' /\ Control'
<1>1. UNCHANGED <<life, mutex_, status, killer, reporter>> /\ In(t, "read")
    BY DEF ReadReporter
<1>2. Advances /\ Serving' = Serving /\ Times' = Times
    BY <1>1 DEF Advances, life, reporter, Serving, Times
<1>3. PICK f \in Frame : f = Top(t) /\ FrameOK(f, Serving, Times) /\ f.step = "read"
    BY <1>1, Running
<1>4. PICK step \in {"call", "chain"} : Goto(t, step) /\ (step = "chain" => ~Serving)
    BY DEF ReadReporter, HasReporter, IInv, Control, PhasePart
<1>5. PICK g : g = [f EXCEPT !.step = step]
    OBVIOUS
<1>6. /\ g \in Frame /\ g.sig = f.sig /\ g.at = f.at /\ g.step = step
      /\ g.locked = f.locked
    BY <1>5 DEF Frame
<1>7. ~f.locked
    BY <1>3 DEF FrameOK
<1>8. FrameOK(g, Serving', Times')
    BY <1>2, <1>3, <1>4, <1>6, <1>7 DEF FrameOK
<1>9. Replace(t, g)
    BY <1>3, <1>4, <1>5 DEF Goto
<1>10. mutex_' \in Threads \cup {Nobody}
    BY <1>1 DEF IInv, TypeOK
<1> QED
    BY <1>1, <1>2, <1>3, <1>6, <1>8, <1>9, <1>10, Running, MoveKept

LEMMA OpenKept ==
    ASSUME IInv, NEW t \in Threads, OpenCrashFile(t)
    PROVE  LifeTypes' /\ Control'
<1>1. /\ UNCHANGED <<life, status, killer>> /\ mutex_' = Nobody
      /\ In(t, "call") /\ Top(t).locked
    BY DEF OpenCrashFile, Proceed
<1>2. PICK f \in Frame : /\ f = Top(t) /\ FrameOK(f, Serving, Times)
                         /\ f.step = "call" /\ f.locked
    BY <1>1, Running
<1>3. f.at # 0 /\ f.at \in 0 .. MaxMs
    BY <1>2 DEF FrameOK, Frame
<1> DEFINE name(k) == FileName(Prefix["crash"], k)
<1>4. /\ writable' = writable
      /\ DOMAIN files \subseteq DOMAIN files'
      /\ writable => name(f.at) \in DOMAIN files'
    BY <1>2 DEF OpenCrashFile, OpenReport, OpenFile
<1>5. Advances /\ Serving' = Serving /\ f.at \in Times'
    <2> HIDE DEF name
    <2>1. Times = {k \in 0 .. MaxMs : writable => name(k) \in DOMAIN files}
        BY DEF Times, name
    <2>2. Times' = {k \in 0 .. MaxMs : writable' => name(k) \in DOMAIN files'}
        BY DEF Times, name
    <2>3. Serving' = Serving
        BY <1>1 DEF Serving, life
    <2> QED
        BY <1>3, <1>4, <2>1, <2>2, <2>3 DEF Advances
<1>6. PICK g : g = [f EXCEPT !.step = "write", !.locked = FALSE]
    OBVIOUS
<1>7. g \in Frame /\ g.sig = f.sig /\ g.at = f.at /\ g.step = "write"
    BY <1>6 DEF Frame
<1>8. FrameOK(g, Serving', Times')
    BY <1>3, <1>5, <1>7 DEF FrameOK
<1>9. Replace(t, g)
    BY <1>2, <1>6 DEF OpenCrashFile, Proceed
<1> QED
    BY <1>1, <1>2, <1>5, <1>7, <1>8, <1>9, Running, MoveKept

LEMMA WriteKept ==
    ASSUME IInv, NEW t \in Threads, WriteCrashFile(t)
    PROVE  LifeTypes' /\ Control'
<1>1. /\ UNCHANGED <<life, status, killer>> /\ mutex_' = Nobody
      /\ In(t, "write")
    BY DEF WriteCrashFile, Proceed
<1>2. PICK f \in Frame : f = Top(t) /\ FrameOK(f, Serving, Times) /\ f.step = "write"
    BY <1>1, Running
<1>3. writable' = writable /\ DOMAIN files' = DOMAIN files
    BY DEF WriteCrashFile, WriteReport, WriteFile
<1>4. Advances /\ Serving' = Serving /\ Times' = Times
    BY <1>1, <1>3 DEF Advances, life, Serving, Times
<1>5. PICK g : g = [f EXCEPT !.step = "chain", !.locked = FALSE]
    OBVIOUS
<1>6. g \in Frame /\ g.sig = f.sig /\ g.at = f.at /\ g.step = "chain"
    BY <1>5 DEF Frame
<1>7. FrameOK(g, Serving', Times')
    BY <1>2, <1>4, <1>6 DEF FrameOK
<1>8. Replace(t, g)
    BY <1>2, <1>5 DEF WriteCrashFile, Proceed
<1> QED
    BY <1>1, <1>2, <1>4, <1>6, <1>7, <1>8, Running, MoveKept

LEMMA ChainKept ==
    ASSUME IInv, NEW t \in Threads, Chain(t)
    PROVE  LifeTypes' /\ Control'
<1> USE DEF IInv, Control
<1>1. /\ UNCHANGED <<old_actions, installed_, altstack, phase, todo, reporter_, mutex_,
                     status, killer, reporter>>
      /\ In(t, "chain")
    BY DEF Chain
<1>2. PICK f \in Frame : f = Top(t)
    BY <1>1, Running
<1>3. /\ status = "running" /\ Handling(t) /\ phase # "off" /\ f.step = "chain"
      /\ FrameOK(f, Serving, Times)
    BY <1>1, <1>2, Running
<1>4. Advances /\ Serving' = Serving /\ Times' = Times
    BY <1>1 DEF Advances, reporter, Serving, Times
<1>5. PICK raised \in BOOLEAN : raised = IsDefault(f.sig)
    BY DEF IsDefault
<1>6. PICK g : g = [f EXCEPT !.step = "return", !.raised = raised]
    OBVIOUS
<1>7. g \in Frame /\ g.sig = f.sig /\ g.at = f.at /\ f.sig \in Signals /\ g.step = "return"
    BY <1>6 DEF Frame
<1>8. FrameOK(g, Serving', Times')
    BY <1>3, <1>4, <1>7 DEF FrameOK
<1>9. Replace(t, g)
    BY <1>2, <1>5, <1>6 DEF Chain
<1>10. FramePart'
    BY <1>2, <1>3, <1>4, <1>7, <1>8, <1>9, ReplaceKept
<1>11. KillerPart'
    BY <1>1, <1>3, NoKiller
<1>12. disp' = disp \/ \E s \in Signals : disp' = [disp EXCEPT ![s] = "dfl"]
    BY <1>2, <1>7 DEF Chain
<1> QED
    BY <1>1, <1>3, <1>10, <1>11, <1>12, TypeParts, ThreadKept DEF LifeTypes

\* The process ends in a handler that is past its reporter.
LEMMA KillerOK ==
    ASSUME IInv, NEW t \in Threads, In(t, "chain") \/ In(t, "return"),
           killer' = <<Top(t)>>, status' # "running", UNCHANGED <<life, reporter>>
    PROVE  KillerPart'
<1>1. PICK f \in Frame : f = Top(t)
    BY Running
<1>2. f.step \in {"chain", "return"} /\ FrameOK(f, Serving, Times)
    BY <1>1, Running
<1>3. Serving' = Serving /\ Times' = Times
    BY DEF life, reporter, Serving, Times
<1>4. killer' = <<f>> /\ <<f>> \in Seq(Frame) /\ Len(<<f>>) = 1 /\ <<f>>[1] = f
    BY <1>1
<1> QED
    BY <1>2, <1>3, <1>4 DEF KillerPart, FrameOK

LEMMA EndKept ==
    ASSUME IInv, NEW t \in Threads, CallDestroyed(t) \/ AppHandlerExits(t)
    PROVE  LifeTypes' /\ Control'
<1> USE DEF IInv, Control
<1>1. /\ UNCHANGED <<life, mutex_, reporter, frames>> /\ status = "running"
    BY DEF CallDestroyed, AppHandlerExits, Die, In
<1>2. KillerPart'
    <2>1. CASE CallDestroyed(t)
        BY <1>1, <2>1, NoKiller DEF CallDestroyed
    <2>2. CASE AppHandlerExits(t)
        BY <1>1, <2>2, KillerOK DEF AppHandlerExits, Die
    <2> QED
        BY <2>1, <2>2
<1>3. FramePart'
    BY <1>1, FramesSame DEF Advances, life, reporter, Serving, Times
<1> QED
    BY <1>1, <1>2, <1>3, TypeParts, ThreadKept DEF life, LifeTypes

LEMMA ReturnKept ==
    ASSUME IInv, NEW t \in Threads, HandlerReturn(t)
    PROVE  LifeTypes' /\ Control'
<1> USE DEF IInv, Control
<1>1. UNCHANGED <<life, mutex_, reporter>> /\ In(t, "return")
    BY DEF HandlerReturn
<1>2. PICK f \in Frame : f = Top(t)
    BY <1>1, Running
<1>2a. PICK below : below = SubSeq(frames[t], 1, Len(frames[t]) - 1)
    OBVIOUS
<1>3. /\ status = "running" /\ Handling(t) /\ phase # "off" /\ f.sig \in Signals
    BY <1>1, Running DEF Frame
<1>4. Advances /\ Serving' = Serving /\ Times' = Times
    BY <1>1 DEF Advances, life, reporter, Serving, Times
<1>5. Good(below, Serving', Times')
    <2>1. Good(frames[t], Serving, Times) /\ frames[t] # <<>> /\ Serving \in BOOLEAN
        BY <1>3 DEF FramePart, Handling, Serving
    <2> QED
        BY <1>2a, <1>4, <2>1, GoodFront
<1>6. \/ Die("chained") /\ killer' = <<f>>
      \/ Deliver(t, f.sig, below) /\ UNCHANGED killer
      \/ frames' = [frames EXCEPT ![t] = below] /\ UNCHANGED <<status, killer>>
    BY <1>2, <1>2a DEF HandlerReturn
<1>7. FramePart'
    <2>1. CASE Die("chained")
        BY <1>4, <2>1, FramesSame DEF Die
    <2>2. CASE Deliver(t, f.sig, below)
        BY <1>1, <1>3, <1>4, <1>5, <2>2, DeliverKept DEF life
    <2>3. CASE frames' = [frames EXCEPT ![t] = below]
        BY <1>4, <1>5, <2>3, FramesOf
    <2> QED
        BY <1>6, <2>1, <2>2, <2>3
<1>8. KillerPart'
    <2>1. CASE Die("chained") /\ killer' = <<f>>
        BY <1>1, <1>2, <2>1, KillerOK DEF Die
    <2>2. CASE UNCHANGED killer
        BY <1>3, <2>2, NoKiller
    <2> QED
        BY <1>6, <2>1, <2>2
<1> QED
    BY <1>1, <1>3, <1>7, <1>8, TypeParts, ThreadKept DEF life, LifeTypes

LEMMA PlainKept ==
    ASSUME IInv, \E t \in Threads : EnterAllocator(t) \/ LeaveAllocator(t)
    PROVE  LifeTypes' /\ Control'
<1> USE DEF IInv, Control
<1>1. /\ UNCHANGED <<life, frames, status, killer, reporter>> /\ status = "running"
      /\ mutex_' \in Threads \cup {Nobody}
    BY DEF EnterAllocator, LeaveAllocator, Runs
<1>2. KillerPart'
    BY <1>1, NoKiller
<1>3. FramePart'
    BY <1>1, FramesSame DEF Advances, life, reporter, Serving, Times
<1> QED
    BY <1>1, <1>2, <1>3, ThreadKept DEF life

-----------------------------------------------------------------------------
\* The files and the handlers that are writing to them: r still has the open files of q.
Keeps(q, r) ==
    \A i \in DOMAIN q : q[i].step = "write" =>
        i \in DOMAIN r /\ r[i].step = "write" /\ r[i].at = q[i].at

LEMMA StillTruncated ==
    ASSUME \A t \in Threads : Keeps(frames[t], frames'[t]), NEW m, Truncated(m)
    PROVE  Truncated(m)'
    BY DEF Truncated, Keeps

LEMMA FilesSame ==
    ASSUME FilePart, UNCHANGED reporter, \A t \in Threads : Keeps(frames[t], frames'[t])
    PROVE  FilePart'
    BY StillTruncated DEF FilePart, reporter

LEMMA KeepsReplace ==
    ASSUME FramePart, NEW t \in Threads, Handling(t), NEW g, Replace(t, g),
           Top(t).step = "write" => g.step = "write" /\ g.at = Top(t).at
    PROVE  \A u \in Threads : Keeps(frames[u], frames'[u])
<1>1. frames \in [Threads -> Seq(Frame)] /\ Len(frames[t]) \in Nat \ {0}
    BY TopFrame DEF FramePart
<1>2. frames' = [frames EXCEPT ![t] = [frames[t] EXCEPT ![Len(frames[t])] = g]]
    BY <1>1 DEF Replace
<1>3. PICK q \in Seq(Frame) : q = frames[t]
    BY <1>1
<1>4. Keeps(q, [q EXCEPT ![Len(q)] = g])
    BY <1>1, <1>3 DEF Keeps, Top
<1>5. \A u \in Threads : u # t => frames'[u] = frames[u]
    BY <1>1, <1>2
<1>6. frames'[t] = [q EXCEPT ![Len(q)] = g]
    BY <1>1, <1>2, <1>3
<1> QED
    BY <1>3, <1>4, <1>5, <1>6 DEF Keeps

LEMMA KeepsDeliver ==
    ASSUME FramePart, NEW t \in Threads, NEW s, NEW below \in Seq(Frame),
           Keeps(frames[t], below), Deliver(t, s, below)
    PROVE  \A u \in Threads : Keeps(frames[u], frames'[u])
<1>1. CASE frames' = frames
    BY <1>1 DEF Keeps
<1>2. CASE frames' = [frames EXCEPT ![t] = Append(below, NewFrame(s))]
    <2>1. \A i \in DOMAIN below : /\ i \in DOMAIN Append(below, NewFrame(s))
                                  /\ Append(below, NewFrame(s))[i] = below[i]
        OBVIOUS
    <2>2. Keeps(frames[t], Append(below, NewFrame(s)))
        BY <2>1 DEF Keeps
    <2>3. frames \in [Threads -> Seq(Frame)]
        BY DEF FramePart
    <2> QED
        BY <1>2, <2>2, <2>3 DEF Keeps
<1> QED
    BY <1>1, <1>2 DEF Deliver, Die

\* A handler that returns writes to nothing any more.
LEMMA KeepsFront ==
    ASSUME FramePart, NEW t \in Threads, Handling(t), Top(t).step # "write"
    PROVE  LET below == SubSeq(frames[t], 1, Len(frames[t]) - 1)
           IN  below \in Seq(Frame) /\ Keeps(frames[t], below)
<1>1. PICK q \in Seq(Frame) : q = frames[t]
    BY DEF FramePart
<1>2. Len(q) \in Nat \ {0} /\ DOMAIN q = 1 .. Len(q) /\ q[Len(q)].step # "write"
    BY <1>1, TopFrame DEF Top
<1>3. PICK k \in Nat : k = Len(q) - 1
    <2>1. Len(q) \in Nat /\ Len(q) # 0
        BY <1>2
    <2> QED
        BY <2>1
<1>4. \A i \in 1 .. k : q[i] \in Frame
    BY <1>2, <1>3
<1> HIDE DEF Frame
<1>5. /\ SubSeq(q, 1, k) \in Seq(Frame)
      /\ Len(SubSeq(q, 1, k)) = IF 1 <= k THEN k - 1 + 1 ELSE 0
      /\ \A i \in 1 .. k - 1 + 1 : SubSeq(q, 1, k)[i] = q[1 + i - 1]
    BY <1>4, SubSeqProperties
<1>6. PICK r \in Seq(Frame) : r = SubSeq(q, 1, k)
    BY <1>5
<1>7. DOMAIN r = 1 .. k /\ \A i \in 1 .. k : r[i] = q[i]
    BY <1>5, <1>6
<1>8. \A i \in 1 .. Len(q) : i \in 1 .. k \/ i = Len(q)
    <2>1. Len(q) \in Nat /\ Len(q) = k + 1
        BY <1>2, <1>3
    <2> QED
        BY <2>1
<1>9. Keeps(q, r)
    BY <1>2, <1>7, <1>8 DEF Keeps
<1> QED
    BY <1>1, <1>3, <1>6, <1>9

LEMMA OpenFiles ==
    ASSUME IInv, NEW t \in Threads, OpenCrashFile(t)
    PROVE  FilePart'
<1> USE DEF IInv, Control
<1>1. In(t, "call") /\ Top(t).locked
    BY DEF OpenCrashFile, Proceed
<1>2. PICK f \in Frame : f = Top(t) /\ f.step = "call"
    BY <1>1, Running
<1>3a. PICK g : g = [f EXCEPT !.step = "write", !.locked = FALSE]
    OBVIOUS
<1>3. g.step = "write" /\ g.at = f.at
    BY <1>3a DEF Frame
<1>4. Replace(t, g) /\ Handling(t)
    BY <1>1, <1>2, <1>3a DEF OpenCrashFile, Proceed, In
<1>5. \A u \in Threads : Keeps(frames[u], frames'[u])
    BY <1>2, <1>4, KeepsReplace
<1>6. Truncated(f.at)'
    <2>1. /\ frames \in [Threads -> Seq(Frame)] /\ Len(frames[t]) \in Nat \ {0}
          /\ DOMAIN frames[t] = 1 .. Len(frames[t])
        BY <1>4, TopFrame DEF FramePart
    <2>2. Len(frames[t]) \in DOMAIN frames'[t] /\ frames'[t][Len(frames[t])] = g
        BY <1>4, <2>1 DEF Replace
    <2> QED
        BY <1>3, <2>2 DEF Truncated
<1> DEFINE name(k) == FileName(Prefix["crash"], k)
<1>7. /\ writable' = writable
      /\ writable => files' = [n \in DOMAIN files \cup {name(f.at)} |->
                                IF n = name(f.at) THEN {} ELSE files[n]]
    BY <1>2 DEF OpenCrashFile, OpenReport, OpenFile
<1>8. \A m : name(m) = name(f.at) => m = f.at
    BY DEF FileName
<1> HIDE DEF name
<1>9. ASSUME writable, NEW m \in 1 .. MaxMs, name(m) \in DOMAIN files'
      PROVE  files'[name(m)] # {} \/ Truncated(m)'
    <2>1. CASE m = f.at
        BY <1>6, <2>1
    <2>2. CASE m # f.at
        <3>1. name(m) \in DOMAIN files /\ files'[name(m)] = files[name(m)]
            BY <1>7, <1>8, <1>9, <2>2
        <3>2. files[name(m)] # {} \/ Truncated(m)
            BY <1>9, <3>1 DEF FilePart, name
        <3> QED
            BY <1>5, <3>1, <3>2, StillTruncated
    <2> QED
        BY <2>1, <2>2
<1> QED
    BY <1>7, <1>9 DEF FilePart, name

LEMMA WriteFiles ==
    ASSUME IInv, NEW t \in Threads, WriteCrashFile(t)
    PROVE  FilePart'
<1> USE DEF IInv, Control
<1>1. In(t, "write")
    BY DEF WriteCrashFile, Proceed
<1>2. PICK f \in Frame : f = Top(t) /\ f.step = "write" /\ f.at # 0 /\ f.at \in Times
    BY <1>1, Running DEF FrameOK
<1>3. PICK g : Replace(t, g) /\ Handling(t)
    BY <1>1 DEF WriteCrashFile, Proceed, In
<1> DEFINE name(k) == FileName(Prefix["crash"], k)
<1>4. /\ writable' = writable
      /\ writable => files' = [files EXCEPT ![name(f.at)] = @ \cup {t}]
    BY <1>2 DEF WriteCrashFile, WriteReport, WriteFile
<1>5. \A m : name(m) = name(f.at) => m = f.at
    BY DEF FileName
<1>6. writable => name(f.at) \in DOMAIN files
    BY <1>2 DEF Times
<1> HIDE DEF name
<1>7. ASSUME NEW m, m # f.at, Truncated(m) PROVE Truncated(m)'
    <2>0. PICK u \in Threads : \E i \in DOMAIN frames[u] :
            frames[u][i].step = "write" /\ frames[u][i].at = m
        BY <1>7 DEF Truncated
    <2>1. PICK i \in DOMAIN frames[u] : frames[u][i].step = "write" /\ frames[u][i].at = m
        BY <2>0
    <2>2. /\ frames \in [Threads -> Seq(Frame)] /\ Len(frames[t]) \in Nat \ {0}
          /\ frames[t][Len(frames[t])].at = f.at
        BY <1>2, <1>3, TopFrame DEF FramePart, Top
    <2>3. frames' = [frames EXCEPT ![t] = [frames[t] EXCEPT ![Len(frames[t])] = g]]
        BY <1>3, <2>2 DEF Replace
    <2>4. i \in DOMAIN frames'[u] /\ frames'[u][i] = frames[u][i]
        <3>1. CASE u # t
            BY <2>2, <2>3, <3>1
        <3>2. CASE u = t
            <4>1. i # Len(frames[t])
                BY <1>7, <2>1, <2>2, <3>2
            <4> QED
                BY <2>2, <2>3, <3>2, <4>1
        <3> QED
            BY <3>1, <3>2
    <2> QED
        BY <2>1, <2>4 DEF Truncated
<1>8. ASSUME writable, NEW m \in 1 .. MaxMs, name(m) \in DOMAIN files'
      PROVE  files'[name(m)] # {} \/ Truncated(m)'
    <2>1. CASE m = f.at
        <3>1. t \in files'[name(m)]
            BY <1>4, <1>6, <1>8, <2>1
        <3> QED
            BY <3>1
    <2>2. CASE m # f.at
        <3>1. name(m) \in DOMAIN files /\ files'[name(m)] = files[name(m)]
            BY <1>4, <1>5, <1>8, <2>2
        <3>2. files[name(m)] # {} \/ Truncated(m)
            BY <1>8, <3>1 DEF FilePart, name
        <3> QED
            BY <1>7, <2>2, <3>1, <3>2
    <2> QED
        BY <2>1, <2>2
<1> QED
    BY <1>4, <1>8 DEF FilePart, name

LEMMA FilesKept ==
    ASSUME IInv, [Next]_vars
    PROVE  FilePart'
<1> USE DEF IInv, Control
<1>1. CASE UNCHANGED <<frames, reporter>>
    BY <1>1, FilesSame DEF Keeps
<1>2. ASSUME NEW t \in Threads, NEW s \in Signals, Fault(t, s) \/ Overflow(t, s)
      PROVE  FilePart'
    <2>1. UNCHANGED reporter
        BY <1>2 DEF Fault, Overflow
    <2>2. PICK q \in Seq(Frame) : q = frames[t]
        BY DEF FramePart
    <2>3. CASE Deliver(t, s, q)
        BY <2>1, <2>2, <2>3, KeepsDeliver, FilesSame DEF Keeps
    <2>4. CASE UNCHANGED frames
        BY <1>1, <2>1, <2>4
    <2> QED
        BY <1>2, <2>2, <2>3, <2>4 DEF Fault, Overflow, Runs, Handling, Die
<1>3. ASSUME NEW t \in Threads, Allocate(t) \/ Build(t) \/ ReadReporter(t) \/ Chain(t)
      PROVE  FilePart'
    <2>1. UNCHANGED reporter /\ Handling(t)
        BY <1>3 DEF Allocate, Build, Proceed, ReadReporter, Chain, In
    <2>2. PICK f \in Frame : f = Top(t)
        BY <2>1, TopFrame
    <2>3. CASE Allocate(t)
        <3>1. PICK ms \in 1 .. MaxMs :
                Replace(t, [f EXCEPT !.locked = TRUE,
                                     !.at = IF f.step = "call" THEN ms ELSE @])
            BY <2>2, <2>3 DEF Allocate
        <3>3. PICK g : /\ g = [f EXCEPT !.locked = TRUE,
                                         !.at = IF f.step = "call" THEN ms ELSE @]
                       /\ Replace(t, g)
            BY <3>1
        <3>2. f.step = "write" => g.step = "write" /\ g.at = f.at
            BY <3>3 DEF Frame
        <3> QED
            BY <2>1, <2>2, <3>2, <3>3, KeepsReplace, FilesSame
    <2>4. CASE Build(t) \/ ReadReporter(t) \/ Chain(t)
        <3>1. f.step # "write"
            BY <2>2, <2>4 DEF Build, Proceed, ReadReporter, Chain, In
        <3>2. PICK g : Replace(t, g)
            BY <2>4 DEF Build, Proceed, ReadReporter, Goto, Chain
        <3> QED
            BY <2>1, <2>2, <3>1, <3>2, KeepsReplace, FilesSame
    <2> QED
        BY <1>3, <2>3, <2>4
<1>4. ASSUME NEW t \in Threads, HandlerReturn(t) PROVE FilePart'
    <2>1. UNCHANGED reporter /\ In(t, "return")
        BY <1>4 DEF HandlerReturn
    <2>2. Handling(t) /\ Top(t).step # "write"
        BY <2>1 DEF In
    <2>3. PICK below \in Seq(Frame) : /\ below = SubSeq(frames[t], 1, Len(frames[t]) - 1)
                                      /\ Keeps(frames[t], below)
        BY <2>2, KeepsFront
    <2>4. \/ UNCHANGED frames \/ \E s : Deliver(t, s, below)
          \/ frames' = [frames EXCEPT ![t] = below]
        BY <1>4, <2>3 DEF HandlerReturn, Die
    <2>5. CASE UNCHANGED frames
        BY <1>1, <2>1, <2>5
    <2>6. CASE \E s : Deliver(t, s, below)
        BY <2>1, <2>3, <2>6, KeepsDeliver, FilesSame
    <2>7. CASE frames' = [frames EXCEPT ![t] = below]
        <3>1. frames \in [Threads -> Seq(Frame)]
            BY DEF FramePart
        <3>2. \A u \in Threads : Keeps(frames[u], frames'[u])
            BY <2>3, <2>7, <3>1 DEF Keeps
        <3> QED
            BY <2>1, <3>2, FilesSame
    <2> QED
        BY <2>4, <2>5, <2>6, <2>7
<1>5. CASE UNCHANGED vars \/ CoreStep
           \/ \E t \in Threads : \/ EnterAllocator(t) \/ LeaveAllocator(t)
                               \/ CallDestroyed(t) \/ AppHandlerExits(t)
    BY <1>1, <1>5 DEF vars, CoreStep, process, EnterAllocator, LeaveAllocator,
        CallDestroyed, AppHandlerExits, Die
<1> QED
    BY <1>2, <1>3, <1>4, <1>5, OpenFiles, WriteFiles, Zenon DEF Next, HandlerStep

-----------------------------------------------------------------------------
LEMMA InitHolds == Init => IInv
<1> SUFFICES ASSUME Init PROVE IInv
    OBVIOUS
<1> USE DEF Init
<1>1. LifeTypes
    <2>1. disp \in [Signals -> AppActions] /\ "dfl" \in AppActions
        BY CrashAssumption DEF AppActions
    <2> QED
        BY <2>1 DEF LifeTypes
<1>2. FramePart
    BY DEF FramePart, Good
<1>3. PhasePart
    BY CrashAssumption DEF PhasePart, Serving, AppActions
<1>4. KillerPart
    BY DEF KillerPart
<1>5. FilePart
    BY DEF FilePart, InitReporter
<1> QED
    BY <1>1, <1>2, <1>3, <1>4, <1>5, TypeWhole DEF IInv, Control

LEMMA StepHolds == IInv /\ [Next]_vars => IInv'
<1> SUFFICES ASSUME IInv, [Next]_vars PROVE IInv'
    OBVIOUS
<1>1. LifeTypes' /\ Control'
    <2>1. CASE UNCHANGED vars
        BY <2>1, TypeParts
        DEF vars, life, reporter, IInv, Control, LifeTypes, FramePart, PhasePart, KillerPart,
            Serving, Times
    <2>2. CASE Next
        BY <2>2, CoreKept, FaultKept, AllocateKept, BuildKept, ReadKept, OpenKept,
           WriteKept, ChainKept, EndKept, ReturnKept, PlainKept, Zenon DEF Next, HandlerStep
    <2> QED
        BY <2>1, <2>2
<1>2. TypeOK'
    BY <1>1, TypeWhole, PTL DEF Control
<1> QED
    BY <1>1, <1>2, FilesKept DEF IInv

\* The invariant, of Install, Uninstall and HandleCrashSignal (crash_handler.cpp).
THEOREM InductiveInvariant == Spec => []IInv
    BY InitHolds, StepHolds, PTL DEF Spec

\* Install never saves Domovoy's own action as the application's, and no thread is in
\* two handlers of one fault, however handlers are nested.
THEOREM TypeCorrect == Spec => []TypeOK
<1>1. IInv => TypeOK
    BY DEF IInv
<1> QED
    BY <1>1, InductiveInvariant, PTL

\* When HandleCrashSignal ends the process before Shutdown has begun, and the directory
\* can be written to, the millisecond of its crash has a report on disk that is not
\* empty, or a handler is between truncating that file and writing to it.
THEOREM CrashLeavesReport == Spec => []CrashReported
<1>1. IInv => CrashReported
    <2> SUFFICES ASSUME IInv, NEW i \in DOMAIN killer, writable, Serving,
                        ~Truncated(killer[i].at)
                 PROVE  OnDisk("crash", killer[i].at) # {}
        BY DEF CrashReported, OnDiskFor, Serving
    <2>1. DOMAIN killer = 1 .. Len(killer)
        BY DEF IInv, Control, KillerPart
    <2>2. killer[i].at \in Times /\ killer[i].at # 0
        BY <2>1 DEF IInv, Control, KillerPart
    <2>3. PICK m \in 1 .. MaxMs : m = killer[i].at
        BY <2>2, CrashAssumption DEF Times
    <2>4. PICK n : n = FileName(Prefix["crash"], m) /\ n \in DOMAIN files
        BY <2>2, <2>3 DEF Times
    <2>5. files[n] # {}
        BY <2>3, <2>4 DEF IInv, FilePart
    <2>6. OnDisk("crash", m) = UNION {files[k] : k \in DOMAIN files \cap {n}}
        BY <2>4 DEF OnDisk
    <2> QED
        BY <2>3, <2>4, <2>5, <2>6
<1> QED
    BY <1>1, InductiveInvariant, PTL
=============================================================================
