-------------------------- MODULE AllocHooks_proofs --------------------------
(***************************************************************************)
(* Proofs about the allocation hooks for every set of threads, addresses   *)
(* and sizes and every number of sessions.                                 *)
(*                                                                         *)
(* As no lock covers a hook, the argument is one of ownership: a block is  *)
(* in the hands of the application (held) or of exactly one hook (Owns),   *)
(* and nobody else's hook changes its size or its entry (OwnPart).  What   *)
(* breaks this is a realloc that has displaced its block: its hook still   *)
(* erases an entry by an address that may have a new owner.  EntriesTrue   *)
(* survives that, Complete does not, which is why the latter is claimed    *)
(* until a realloc displaces a block (KeptPart).                           *)
(***************************************************************************)
EXTENDS AllocHooks, TLAPS

\* t's hook has taken p from the application or will hand p to it.
Owns(t, p) == p \in call[t].back \/ (call[t].op = "free" /\ call[t].ptr = p)

\* What a hook's arguments look like at each of its steps.
HookPart ==
    \A t \in Threads :
        /\ pc[t] = "idle" => call[t] = NoCall
        /\ call[t].op = "none" => pc[t] = "idle"
        /\ call[t].op = "alloc" =>
            /\ pc[t] \in {"add_check", "add"}
            /\ call[t].ptr = NoAddr /\ call[t].new \in Addrs
        /\ call[t].op = "free" =>
            /\ pc[t] \in {"rm_check", "rm", "real_free"}
            /\ call[t].ptr \in Addrs /\ call[t].new = NoAddr /\ call[t].back = {}
        /\ call[t].op = "realloc" =>
            /\ pc[t] \in {"rm_check", "rm", "add_check", "add"}
            /\ call[t].ptr \in Addrs
            /\ call[t].new = NoAddr => call[t].back \subseteq {call[t].ptr}
        /\ call[t].new # NoAddr => call[t].back = {call[t].new}
        /\ pc[t] = "add" => call[t].new # NoAddr

\* A block is in one pair of hands, the application's or those of one hook, and what
\* is in somebody's hands is allocated.
OwnPart ==
    /\ \A t \in Threads, p \in Addrs : Owns(t, p) => p \notin held /\ heap[p] # NoSize
    /\ \A t, u \in Threads, p \in Addrs : Owns(t, p) /\ Owns(u, p) => t = u
    /\ \A p \in held \cup seen : heap[p] # NoSize

\* What is allocated is in somebody's hands.
LivePart ==
    \A p \in Addrs : heap[p] # NoSize => p \in held \/ \E t \in Threads : Owns(t, p)

\* A hook is about to record the size the block has, and that it saw the flag on.
NewPart ==
    \A t \in Threads :
        /\ call[t].new # NoAddr => heap[call[t].new] = call[t].size
        /\ pc[t] = "add" => call[t].new \in seen

\* Nothing is in the map before leak detection has been enabled for the first time.
Untracked ==
    \/ sessions = 0
    \/ sessions = 1 /\ ~leakOn /\ phase # "off"

UntrackedPart ==
    /\ sessions = 0 => phase = "off" /\ ~leakOn
    /\ Untracked =>
        /\ \A p \in Addrs : tracked[p] = NoSize
        /\ \A t \in Threads : pc[t] \notin {"rm", "add"}

\* In the first session a hook that is past its removal has no entry left, and an
\* entry of a block the application holds belongs to a hook that saw the flag on.
FirstPart ==
    sessions = 1 /\ leakOn =>
        /\ \A t \in Threads : pc[t] = "real_free" => tracked[call[t].ptr] = NoSize
        /\ \A t \in Threads :
            pc[t] = "add_check" /\ call[t].new = NoAddr =>
                \A p \in call[t].back : tracked[p] = NoSize
        /\ \A p \in held : tracked[p] # NoSize => p \in seen

\* Until a realloc displaces its block none is about to, and no entry is missing.
KeptPart == ~displaced => Complete /\ \A t \in Threads : ~Displaces(t)

\* What a walk that no hook has interfered with has collected so far.
QuietPart ==
    /\ phase = "report" => left = {}
    /\ quiet =>
        /\ phase \in {"scan", "report"}
        /\ \A t \in Threads : pc[t] = "idle"
        /\ sessions = 1 => \A r \in report : heap[r.addr] = r.size
        /\ sessions = 1 /\ leakOn /\ ~displaced =>
            report = {[addr |-> p, size |-> heap[p]] : p \in seen \ left}

Control ==
    /\ HookPart /\ OwnPart /\ LivePart /\ NewPart /\ UntrackedPart
    /\ EntriesTrue /\ FirstPart /\ KeptPart /\ QuietPart

IInv == TypeOK /\ Control
-----------------------------------------------------------------------------
\* What accompanies a step of t's in a hook.
Frame(t) ==
    /\ quiet' = FALSE
    /\ displaced' = (displaced \/ Displaces(t)')
    /\ UNCHANGED core

\* RealAlloc, the address of the new block made a parameter.
Alloc(t, p, s) ==
    /\ Ready(t)
    /\ heap' = [heap EXCEPT ![p] = s]
    /\ call' = [call EXCEPT ![t] =
                 [op |-> "alloc", ptr |-> NoAddr, new |-> p, size |-> s, back |-> {p}]]
    /\ pc' = [pc EXCEPT ![t] = "add_check"]
    /\ UNCHANGED <<tracked, held, seen>>

\* The four outcomes of the C library's realloc, as actions of their own.
Resize(t, p, heap1, seen1, c) ==
    /\ Ready(t)
    /\ held' = held \ {p}
    /\ pc' = [pc EXCEPT ![t] = "rm_check"]
    /\ heap' = heap1
    /\ seen' = seen1
    /\ call' = [call EXCEPT ![t] = c]
    /\ UNCHANGED tracked

InPlace(t, p, s) ==
    Resize(t, p, [heap EXCEPT ![p] = s], seen,
           [op |-> "realloc", ptr |-> p, new |-> p, size |-> s, back |-> {p}])

Moved(t, p, q, s) ==
    Resize(t, p, [heap EXCEPT ![p] = NoSize, ![q] = s], seen \ {p},
           [op |-> "realloc", ptr |-> p, new |-> q, size |-> s, back |-> {q}])

Failed(t, p, s) ==
    Resize(t, p, heap, seen,
           [op |-> "realloc", ptr |-> p, new |-> NoAddr, size |-> s, back |-> {p}])

Released(t, p) ==
    Resize(t, p, [heap EXCEPT ![p] = NoSize], seen \ {p},
           [op |-> "realloc", ptr |-> p, new |-> NoAddr, size |-> 0, back |-> {}])

\* The steps a hook can take, the sizes of the requests being natural numbers.
HookAction(t) ==
    \/ \E p \in Free, s \in Nat : Alloc(t, p, s)
    \/ \E p \in held : FreeCall(t, p)
    \/ \E p \in held, s \in Nat : InPlace(t, p, s) \/ Failed(t, p, s)
    \/ \E p \in held, q \in Free, s \in Nat : Moved(t, p, q, s)
    \/ \E p \in held : Released(t, p)
    \/ RemoveCheck(t) \/ Erase(t) \/ RealFree(t)
    \/ AddNothing(t) \/ AddCheck(t) \/ Insert(t)

LEMMA AllocAddress ==
    ASSUME NEW t \in Threads, NEW s \in Nat, RealAlloc(t, s)
    PROVE  HookAction(t)
    BY Zenon DEF RealAlloc, Alloc, HookAction

LEMMA ReallocOutcome ==
    ASSUME NEW t \in Threads, NEW p \in held, NEW s \in Nat, RealRealloc(t, p, s)
    PROVE  \/ InPlace(t, p, s) \/ Failed(t, p, s) \/ Released(t, p)
           \/ \E q \in Free : Moved(t, p, q, s)
<1>1. PICK o \in ReallocOutcomes :
        \/ /\ o = "inplace" /\ s # 0
           /\ heap' = [heap EXCEPT ![p] = s]
           /\ call' = [call EXCEPT ![t] =
                [op |-> "realloc", ptr |-> p, new |-> p, size |-> s, back |-> {p}]]
           /\ UNCHANGED seen
        \/ /\ o = "moved" /\ s # 0
           /\ \E q \in Free :
                /\ heap' = [heap EXCEPT ![p] = NoSize, ![q] = s]
                /\ call' = [call EXCEPT ![t] =
                     [op |-> "realloc", ptr |-> p, new |-> q, size |-> s, back |-> {q}]]
           /\ seen' = seen \ {p}
        \/ /\ o = "failed" /\ s # 0
           /\ call' = [call EXCEPT ![t] =
                [op |-> "realloc", ptr |-> p, new |-> NoAddr, size |-> s, back |-> {p}]]
           /\ UNCHANGED <<heap, seen>>
        \/ /\ o = "freed" /\ s = 0
           /\ heap' = [heap EXCEPT ![p] = NoSize]
           /\ call' = [call EXCEPT ![t] =
                [op |-> "realloc", ptr |-> p, new |-> NoAddr, size |-> 0, back |-> {}]]
           /\ seen' = seen \ {p}
    BY Zenon DEF RealRealloc
<1>2. /\ Ready(t)
      /\ held' = held \ {p}
      /\ pc' = [pc EXCEPT ![t] = "rm_check"]
      /\ UNCHANGED tracked
    BY Zenon DEF RealRealloc
<1> QED
    BY Zenon, <1>1, <1>2 DEF Resize, InPlace, Moved, Failed, Released

LEMMA HookCases ==
    ASSUME NEW t \in Threads, HookStep(t)
    PROVE  HookAction(t)
<1> USE HookAssumption
<1>1. ASSUME NEW s \in Sizes,
             Malloc(t, s) \/ Memalign(t, s) \/ PosixMemalign(t, s) \/ ReallocNull(t, s)
      PROVE  HookAction(t)
    BY <1>1, AllocAddress DEF Malloc, Memalign, PosixMemalign, ReallocNull
<1>2. ASSUME NEW s \in Sizes, NEW n \in Counts, Calloc(t, n, s) PROVE HookAction(t)
    <2>1. n * s \in Nat
        OBVIOUS
    <2> QED
        BY Zenon, <1>2, <2>1, AllocAddress DEF Calloc
<1>3. ASSUME NEW s \in Sizes, NEW p \in held, RealRealloc(t, p, s) PROVE HookAction(t)
    <2>1. s \in Nat
        OBVIOUS
    <2> QED
        BY Zenon, <1>3, <2>1, ReallocOutcome DEF HookAction
<1> QED
    BY Zenon, <1>1, <1>2, <1>3 DEF HookStep, HookAction

LEMMA ResizeTyped ==
    ASSUME TypeOK, NEW t \in Threads, NEW p, NEW h, NEW S, NEW c,
           h \in [Addrs -> Nat \cup {NoSize}], S \subseteq Addrs, c \in Calls,
           Resize(t, p, h, S, c), Frame(t)
    PROVE  TypeOK'
<1>1. /\ heap' \in [Addrs -> Nat \cup {NoSize}] /\ tracked' = tracked
      /\ held' \subseteq Addrs /\ seen' \subseteq Addrs
    BY DEF TypeOK, Resize
<1>2. call' \in [Threads -> Calls] /\ pc' \in [Threads -> Steps]
    BY DEF TypeOK, Resize, Steps
<1>3. quiet' \in BOOLEAN /\ displaced' \in BOOLEAN /\ UNCHANGED core
    BY Zenon DEF Frame, TypeOK, Displaces
<1>4. ASSUME NEW u \in Threads, pc'[u] = "add" PROVE call'[u].new \in Addrs
    <2>1. u # t
        BY <1>4 DEF TypeOK, Resize
    <2>2. pc'[u] = pc[u] /\ call'[u] = call[u]
        BY <2>1 DEF TypeOK, Resize
    <2> QED
        BY <1>4, <2>2 DEF TypeOK
<1> QED
    BY <1>1, <1>2, <1>3, <1>4 DEF TypeOK, core

\* Every step keeps the types; what a hook passes on is an address by HookPart.
LEMMA StepTyped ==
    ASSUME TypeOK, HookPart, [Next]_vars
    PROVE  TypeOK'
<1> USE HookAssumption DEF TypeOK, HookPart, Calls, Steps, Record
<1>1. ASSUME NEW t \in Threads, NEW p \in Free, NEW s \in Nat, Alloc(t, p, s), Frame(t)
      PROVE  TypeOK'
    <2>1. \A u \in Threads : pc'[u] = "add" => u # t /\ pc[u] = "add" /\ call'[u] = call[u]
        BY <1>1 DEF Alloc
    <2>2. \A u \in Threads : pc'[u] = "add" => call'[u].new \in Addrs
        BY <2>1
    <2>3. call' \in [Threads -> Calls] /\ pc' \in [Threads -> Steps]
        BY <1>1 DEF Alloc, Free
    <2>4. heap' \in [Addrs -> Nat \cup {NoSize}]
        BY <1>1 DEF Alloc, Free
    <2> QED
        BY <1>1, <2>2, <2>3, <2>4 DEF Alloc, Frame, core
<1>2. ASSUME NEW t \in Threads, NEW p \in held, FreeCall(t, p), Frame(t)
      PROVE  TypeOK'
    BY <1>2 DEF FreeCall, Ready, NoCall, Frame, core
<1>3. ASSUME NEW t \in Threads, NEW p \in held, NEW s \in Nat, InPlace(t, p, s), Frame(t)
      PROVE  TypeOK'
    <2>1. [op |-> "realloc", ptr |-> p, new |-> p, size |-> s, back |-> {p}] \in Calls
        OBVIOUS
    <2>2. [heap EXCEPT ![p] = s] \in [Addrs -> Nat \cup {NoSize}] /\ seen \subseteq Addrs
        OBVIOUS
    <2> QED
        BY Zenon, <1>3, <2>1, <2>2, ResizeTyped DEF InPlace
<1>4. ASSUME NEW t \in Threads, NEW p \in held, NEW s \in Nat, Failed(t, p, s), Frame(t)
      PROVE  TypeOK'
    <2>1. [op |-> "realloc", ptr |-> p, new |-> NoAddr, size |-> s, back |-> {p}] \in Calls
        OBVIOUS
    <2>2. heap \in [Addrs -> Nat \cup {NoSize}] /\ seen \subseteq Addrs
        OBVIOUS
    <2> QED
        BY Zenon, <1>4, <2>1, <2>2, ResizeTyped DEF Failed
<1>5. ASSUME NEW t \in Threads, NEW p \in held, NEW q \in Free, NEW s \in Nat,
             Moved(t, p, q, s), Frame(t)
      PROVE  TypeOK'
    <2>1. [op |-> "realloc", ptr |-> p, new |-> q, size |-> s, back |-> {q}] \in Calls
        BY DEF Free
    <2>2. /\ [heap EXCEPT ![p] = NoSize, ![q] = s] \in [Addrs -> Nat \cup {NoSize}]
          /\ seen \ {p} \subseteq Addrs
        OBVIOUS
    <2> QED
        BY Zenon, <1>5, <2>1, <2>2, ResizeTyped DEF Moved
<1>6. ASSUME NEW t \in Threads, NEW p \in held, Released(t, p), Frame(t)
      PROVE  TypeOK'
    <2>1. [op |-> "realloc", ptr |-> p, new |-> NoAddr, size |-> 0, back |-> {}] \in Calls
        OBVIOUS
    <2>2. /\ [heap EXCEPT ![p] = NoSize] \in [Addrs -> Nat \cup {NoSize}]
          /\ seen \ {p} \subseteq Addrs
        OBVIOUS
    <2> QED
        BY Zenon, <1>6, <2>1, <2>2, ResizeTyped DEF Released
<1>7. ASSUME NEW t \in Threads, RemoveCheck(t), Frame(t)
      PROVE  TypeOK'
    BY <1>7 DEF RemoveCheck, AfterRemove, Frame, core
<1>8. ASSUME NEW t \in Threads, Erase(t), Frame(t)
      PROVE  TypeOK'
    BY <1>8 DEF Erase, AfterRemove, Frame, core
<1>9. ASSUME NEW t \in Threads, RealFree(t), Frame(t)
      PROVE  TypeOK'
    BY <1>9 DEF RealFree, Return, NoCall, Frame, core
<1>10. ASSUME NEW t \in Threads, AddNothing(t), Frame(t)
      PROVE  TypeOK'
    BY <1>10 DEF AddNothing, Return, NoCall, Frame, core
<1>11. ASSUME NEW t \in Threads, AddCheck(t), Frame(t)
      PROVE  TypeOK'
    <2>1. CASE leakOn
        BY <1>11, <2>1 DEF AddCheck, Frame, core
    <2>2. CASE ~leakOn
        <3>1. Return(t) /\ seen' \subseteq seen /\ UNCHANGED <<heap, tracked>>
            BY <1>11, <2>2 DEF AddCheck
        <3>2. call' \in [Threads -> Calls] /\ pc' \in [Threads -> Steps] /\ held' \subseteq Addrs
            BY <3>1 DEF Return, NoCall
        <3>3. \A u \in Threads : pc'[u] = "add" => call'[u].new \in Addrs
            BY <3>1 DEF Return
        <3> QED
            BY <1>11, <3>1, <3>2, <3>3 DEF Frame, core
    <2> QED
        BY ONLY <2>1, <2>2
<1>12. ASSUME NEW t \in Threads, Insert(t), Frame(t)
      PROVE  TypeOK'
    BY <1>12 DEF Insert, Return, NoCall, Frame, core
<1>13. ASSUME NEW cfg \in BOOLEAN, CoreInit(cfg) PROVE TypeOK'
    BY <1>13 DEF CoreInit
<1>14. CASE BeginScan
    BY <1>14 DEF BeginScan
<1>15. ASSUME NEW a \in Addrs, Visit(a) PROVE TypeOK'
    BY <1>15 DEF Visit
<1>16. CASE EndScan
    BY <1>16 DEF EndScan
<1>17. CASE CoreShutdown
    BY <1>17 DEF CoreShutdown
<1>18. CASE UNCHANGED vars
    BY <1>18 DEF vars
<1>19. ASSUME NEW t \in Threads, HookStep(t), Frame(t) PROVE TypeOK'
    BY ONLY Zenon, <1>19, HookCases, <1>1, <1>2, <1>3, <1>4, <1>5, <1>6,
       <1>7, <1>8, <1>9, <1>10, <1>11, <1>12 DEF HookAction
<1> QED
    BY ONLY Zenon, [Next]_vars, <1>13, <1>14, <1>15, <1>16, <1>17, <1>18, <1>19
    DEF Next, Frame

\* A hook goes through its steps in order, with the arguments it began with.
LEMMA HookKept ==
    ASSUME TypeOK, HookPart, [Next]_vars
    PROVE  HookPart'
<1> USE HookAssumption DEF TypeOK, HookPart, Calls, Steps
<1>1. ASSUME NEW t \in Threads, NEW p \in Free, NEW s \in Nat, Alloc(t, p, s), Frame(t)
      PROVE  HookPart'
    BY <1>1 DEF Alloc, Ready, Free, NoCall
<1>2. ASSUME NEW t \in Threads, NEW p \in held, FreeCall(t, p), Frame(t)
      PROVE  HookPart'
    BY <1>2 DEF FreeCall, Ready, NoCall
<1>3. ASSUME NEW t \in Threads, NEW p \in held, NEW s \in Nat, InPlace(t, p, s),
             Frame(t)
      PROVE  HookPart'
    BY <1>3 DEF InPlace, Resize, Ready, NoCall
<1>4. ASSUME NEW t \in Threads, NEW p \in held, NEW s \in Nat, Failed(t, p, s), Frame(t)
      PROVE  HookPart'
    BY <1>4 DEF Failed, Resize, Ready, NoCall
<1>5. ASSUME NEW t \in Threads, NEW p \in held, NEW q \in Free, NEW s \in Nat, Moved(t,
             p, q, s), Frame(t)
      PROVE  HookPart'
    BY <1>5 DEF Moved, Resize, Ready, Free, NoCall
<1>6. ASSUME NEW t \in Threads, NEW p \in held, Released(t, p), Frame(t)
      PROVE  HookPart'
    BY <1>6 DEF Released, Resize, Ready, NoCall
<1>7. ASSUME NEW t \in Threads, RemoveCheck(t), Frame(t)
      PROVE  HookPart'
    BY <1>7 DEF RemoveCheck, AfterRemove, NoCall
<1>8. ASSUME NEW t \in Threads, Erase(t), Frame(t)
      PROVE  HookPart'
    BY <1>8 DEF Erase, AfterRemove, NoCall
<1>9. ASSUME NEW t \in Threads, RealFree(t), Frame(t)
      PROVE  HookPart'
    BY <1>9 DEF RealFree, Return, NoCall
<1>10. ASSUME NEW t \in Threads, AddNothing(t), Frame(t)
      PROVE  HookPart'
    BY <1>10 DEF AddNothing, Return, NoCall
<1>11. ASSUME NEW t \in Threads, AddCheck(t), Frame(t)
      PROVE  HookPart'
    <2>1. CASE leakOn
        BY <1>11, <2>1 DEF AddCheck, NoCall
    <2>2. CASE ~leakOn
        BY <1>11, <2>2 DEF AddCheck, Return, NoCall
    <2> QED
        BY ONLY <2>1, <2>2
<1>12. ASSUME NEW t \in Threads, Insert(t), Frame(t)
      PROVE  HookPart'
    BY <1>12 DEF Insert, Return, NoCall
<1>13. ASSUME NEW cfg \in BOOLEAN, CoreInit(cfg) PROVE HookPart'
    BY <1>13 DEF CoreInit
<1>14. CASE BeginScan
    BY <1>14 DEF BeginScan
<1>15. ASSUME NEW a \in Addrs, Visit(a) PROVE HookPart'
    BY <1>15 DEF Visit
<1>16. CASE EndScan
    BY <1>16 DEF EndScan
<1>17. CASE CoreShutdown
    BY <1>17 DEF CoreShutdown
<1>18. CASE UNCHANGED vars
    BY <1>18 DEF vars
<1>19. ASSUME NEW t \in Threads, HookStep(t), Frame(t) PROVE HookPart'
    BY ONLY Zenon, <1>19, HookCases, <1>1, <1>2, <1>3, <1>4, <1>5, <1>6,
       <1>7, <1>8, <1>9, <1>10, <1>11, <1>12 DEF HookAction
<1> QED
    BY ONLY Zenon, [Next]_vars, <1>13, <1>14, <1>15, <1>16, <1>17, <1>18, <1>19
    DEF Next, Frame

\* A block changes hands as a whole.
LEMMA OwnKept ==
    ASSUME TypeOK, HookPart, OwnPart, [Next]_vars
    PROVE  OwnPart'
<1> USE HookAssumption DEF TypeOK, HookPart, OwnPart, Owns, Calls, Steps
<1>1. ASSUME NEW t \in Threads, NEW p \in Free, NEW s \in Nat, Alloc(t, p, s), Frame(t)
      PROVE  OwnPart'
    BY <1>1 DEF Alloc, Ready, Free, NoCall
<1>2. ASSUME NEW t \in Threads, NEW p \in held, FreeCall(t, p), Frame(t)
      PROVE  OwnPart'
    BY <1>2 DEF FreeCall, Ready, NoCall
<1>3. ASSUME NEW t \in Threads, NEW p \in held, NEW s \in Nat, InPlace(t, p, s),
             Frame(t)
      PROVE  OwnPart'
    BY <1>3 DEF InPlace, Resize, Ready, NoCall
<1>4. ASSUME NEW t \in Threads, NEW p \in held, NEW s \in Nat, Failed(t, p, s), Frame(t)
      PROVE  OwnPart'
    BY <1>4 DEF Failed, Resize, Ready, NoCall
<1>5. ASSUME NEW t \in Threads, NEW p \in held, NEW q \in Free, NEW s \in Nat, Moved(t,
             p, q, s), Frame(t)
      PROVE  OwnPart'
    BY <1>5 DEF Moved, Resize, Ready, Free, NoCall
<1>6. ASSUME NEW t \in Threads, NEW p \in held, Released(t, p), Frame(t)
      PROVE  OwnPart'
    BY <1>6 DEF Released, Resize, Ready, NoCall
<1>7. ASSUME NEW t \in Threads, RemoveCheck(t), Frame(t)
      PROVE  OwnPart'
    BY <1>7 DEF RemoveCheck, AfterRemove, NoCall
<1>8. ASSUME NEW t \in Threads, Erase(t), Frame(t)
      PROVE  OwnPart'
    BY <1>8 DEF Erase, AfterRemove, NoCall
<1>9. ASSUME NEW t \in Threads, RealFree(t), Frame(t)
      PROVE  OwnPart'
    <2>1. /\ call[t].op = "free" /\ call[t].ptr \in Addrs /\ call[t].back = {}
          /\ heap' = [heap EXCEPT ![call[t].ptr] = NoSize]
          /\ seen' = seen \ {call[t].ptr} /\ held' = held
          /\ call' = [call EXCEPT ![t] = NoCall]
        BY <1>9 DEF RealFree, Return, NoCall
    <2>2. \A u \in Threads, p \in Addrs :
            Owns(u, p)' <=> u # t /\ Owns(u, p)
        BY <2>1 DEF NoCall
    <2> QED
        BY <2>1, <2>2
<1>10. ASSUME NEW t \in Threads, AddNothing(t), Frame(t)
      PROVE  OwnPart'
    BY <1>10 DEF AddNothing, Return, NoCall
<1>11. ASSUME NEW t \in Threads, AddCheck(t), Frame(t)
      PROVE  OwnPart'
    <2>1. CASE leakOn
        BY <1>11, <2>1 DEF AddCheck
    <2>2. CASE ~leakOn
        <3>1. /\ call[t].back = {call[t].new} /\ call[t].new \in Addrs
              /\ Owns(t, call[t].new)
              /\ held' = held \cup {call[t].new} /\ seen' = seen \ {call[t].new}
              /\ call' = [call EXCEPT ![t] = NoCall] /\ heap' = heap
            BY <1>11, <2>2 DEF AddCheck, Return
        <3>2. \A u \in Threads, p \in Addrs : Owns(u, p)' <=> u # t /\ Owns(u, p)
            BY <3>1 DEF NoCall
        <3> QED
            BY <3>1, <3>2
    <2> QED
        BY ONLY <2>1, <2>2
<1>12. ASSUME NEW t \in Threads, Insert(t), Frame(t)
      PROVE  OwnPart'
    BY <1>12 DEF Insert, Return, NoCall
<1>13. ASSUME NEW cfg \in BOOLEAN, CoreInit(cfg) PROVE OwnPart'
    BY <1>13 DEF CoreInit
<1>14. CASE BeginScan
    BY <1>14 DEF BeginScan
<1>15. ASSUME NEW a \in Addrs, Visit(a) PROVE OwnPart'
    BY <1>15 DEF Visit
<1>16. CASE EndScan
    BY <1>16 DEF EndScan
<1>17. CASE CoreShutdown
    BY <1>17 DEF CoreShutdown
<1>18. CASE UNCHANGED vars
    BY <1>18 DEF vars
<1>19. ASSUME NEW t \in Threads, HookStep(t), Frame(t) PROVE OwnPart'
    BY ONLY Zenon, <1>19, HookCases, <1>1, <1>2, <1>3, <1>4, <1>5, <1>6,
       <1>7, <1>8, <1>9, <1>10, <1>11, <1>12 DEF HookAction
<1> QED
    BY ONLY Zenon, [Next]_vars, <1>13, <1>14, <1>15, <1>16, <1>17, <1>18, <1>19
    DEF Next, Frame

\* A block that leaves the application's hands is a hook's, and the other way round.
LEMMA LiveKept ==
    ASSUME TypeOK, HookPart, OwnPart, LivePart, [Next]_vars
    PROVE  LivePart'
<1> USE HookAssumption DEF TypeOK, HookPart, OwnPart, LivePart, Owns, Calls, Steps
<1>1. ASSUME NEW t \in Threads, NEW p \in Free, NEW s \in Nat, Alloc(t, p, s), Frame(t)
      PROVE  LivePart'
    BY <1>1 DEF Alloc, Ready, Free, NoCall
<1>2. ASSUME NEW t \in Threads, NEW p \in held, FreeCall(t, p), Frame(t)
      PROVE  LivePart'
    BY <1>2 DEF FreeCall, Ready, NoCall
<1>3. ASSUME NEW t \in Threads, NEW p \in held, NEW s \in Nat, InPlace(t, p, s),
             Frame(t)
      PROVE  LivePart'
    BY <1>3 DEF InPlace, Resize, Ready, NoCall
<1>4. ASSUME NEW t \in Threads, NEW p \in held, NEW s \in Nat, Failed(t, p, s), Frame(t)
      PROVE  LivePart'
    BY <1>4 DEF Failed, Resize, Ready, NoCall
<1>5. ASSUME NEW t \in Threads, NEW p \in held, NEW q \in Free, NEW s \in Nat, Moved(t,
             p, q, s), Frame(t)
      PROVE  LivePart'
    BY <1>5 DEF Moved, Resize, Ready, Free, NoCall
<1>6. ASSUME NEW t \in Threads, NEW p \in held, Released(t, p), Frame(t)
      PROVE  LivePart'
    BY <1>6 DEF Released, Resize, Ready, NoCall
<1>7. ASSUME NEW t \in Threads, RemoveCheck(t), Frame(t)
      PROVE  LivePart'
    BY <1>7 DEF RemoveCheck, AfterRemove, NoCall
<1>8. ASSUME NEW t \in Threads, Erase(t), Frame(t)
      PROVE  LivePart'
    BY <1>8 DEF Erase, AfterRemove, NoCall
<1>9. ASSUME NEW t \in Threads, RealFree(t), Frame(t)
      PROVE  LivePart'
    BY <1>9 DEF RealFree, Return, NoCall
<1>10. ASSUME NEW t \in Threads, AddNothing(t), Frame(t)
      PROVE  LivePart'
    BY <1>10 DEF AddNothing, Return, NoCall
<1>11. ASSUME NEW t \in Threads, AddCheck(t), Frame(t)
      PROVE  LivePart'
    <2>1. CASE leakOn
        BY <1>11, <2>1 DEF AddCheck, NoCall
    <2>2. CASE ~leakOn
        BY <1>11, <2>2 DEF AddCheck, Return, NoCall
    <2> QED
        BY ONLY <2>1, <2>2
<1>12. ASSUME NEW t \in Threads, Insert(t), Frame(t)
      PROVE  LivePart'
    BY <1>12 DEF Insert, Return, NoCall
<1>13. ASSUME NEW cfg \in BOOLEAN, CoreInit(cfg) PROVE LivePart'
    BY <1>13 DEF CoreInit
<1>14. CASE BeginScan
    BY <1>14 DEF BeginScan
<1>15. ASSUME NEW a \in Addrs, Visit(a) PROVE LivePart'
    BY <1>15 DEF Visit
<1>16. CASE EndScan
    BY <1>16 DEF EndScan
<1>17. CASE CoreShutdown
    BY <1>17 DEF CoreShutdown
<1>18. CASE UNCHANGED vars
    BY <1>18 DEF vars
<1>19. ASSUME NEW t \in Threads, HookStep(t), Frame(t) PROVE LivePart'
    BY ONLY Zenon, <1>19, HookCases, <1>1, <1>2, <1>3, <1>4, <1>5, <1>6,
       <1>7, <1>8, <1>9, <1>10, <1>11, <1>12 DEF HookAction
<1> QED
    BY ONLY Zenon, [Next]_vars, <1>13, <1>14, <1>15, <1>16, <1>17, <1>18, <1>19
    DEF Next, Frame

\* Only the hook that owns a block changes its size or whether it was seen.
LEMMA NewKept ==
    ASSUME TypeOK, HookPart, OwnPart, NewPart, [Next]_vars
    PROVE  NewPart'
<1> USE HookAssumption DEF TypeOK, HookPart, OwnPart, NewPart, Owns, Calls, Steps
<1>1. ASSUME NEW t \in Threads, NEW p \in Free, NEW s \in Nat, Alloc(t, p, s), Frame(t)
      PROVE  NewPart'
    BY <1>1 DEF Alloc, Ready, Free, Frame, core, NoCall
<1>2. ASSUME NEW t \in Threads, NEW p \in held, FreeCall(t, p), Frame(t)
      PROVE  NewPart'
    BY <1>2 DEF FreeCall, Ready, NoCall, Frame, core
<1>3. ASSUME NEW t \in Threads, NEW p \in held, NEW s \in Nat, InPlace(t, p, s),
             Frame(t)
      PROVE  NewPart'
    BY <1>3 DEF InPlace, Resize, Ready, Frame, core, NoCall
<1>4. ASSUME NEW t \in Threads, NEW p \in held, NEW s \in Nat, Failed(t, p, s), Frame(t)
      PROVE  NewPart'
    BY <1>4 DEF Failed, Resize, Ready, Frame, core, NoCall
<1>5. ASSUME NEW t \in Threads, NEW p \in held, NEW q \in Free, NEW s \in Nat, Moved(t,
             p, q, s), Frame(t)
      PROVE  NewPart'
    BY <1>5 DEF Moved, Resize, Ready, Free, Frame, core, NoCall
<1>6. ASSUME NEW t \in Threads, NEW p \in held, Released(t, p), Frame(t)
      PROVE  NewPart'
    BY <1>6 DEF Released, Resize, Ready, Frame, core, NoCall
<1>7. ASSUME NEW t \in Threads, RemoveCheck(t), Frame(t)
      PROVE  NewPart'
    BY <1>7 DEF RemoveCheck, AfterRemove, Frame, core, NoCall
<1>8. ASSUME NEW t \in Threads, Erase(t), Frame(t)
      PROVE  NewPart'
    BY <1>8 DEF Erase, AfterRemove, Frame, core, NoCall
<1>9. ASSUME NEW t \in Threads, RealFree(t), Frame(t)
      PROVE  NewPart'
    BY <1>9 DEF RealFree, Return, NoCall, Frame, core
<1>10. ASSUME NEW t \in Threads, AddNothing(t), Frame(t)
      PROVE  NewPart'
    BY <1>10 DEF AddNothing, Return, NoCall, Frame, core
<1>11. ASSUME NEW t \in Threads, AddCheck(t), Frame(t)
      PROVE  NewPart'
    <2>1. CASE leakOn
        BY <1>11, <2>1 DEF AddCheck, Frame, core, NoCall
    <2>2. CASE ~leakOn
        BY <1>11, <2>2 DEF AddCheck, Return, NoCall, Frame, core
    <2> QED
        BY ONLY <2>1, <2>2
<1>12. ASSUME NEW t \in Threads, Insert(t), Frame(t)
      PROVE  NewPart'
    BY <1>12 DEF Insert, Return, NoCall, Frame, core
<1>13. ASSUME NEW cfg \in BOOLEAN, CoreInit(cfg) PROVE NewPart'
    BY <1>13 DEF CoreInit
<1>14. CASE BeginScan
    BY <1>14 DEF BeginScan
<1>15. ASSUME NEW a \in Addrs, Visit(a) PROVE NewPart'
    BY <1>15 DEF Visit
<1>16. CASE EndScan
    BY <1>16 DEF EndScan
<1>17. CASE CoreShutdown
    BY <1>17 DEF CoreShutdown
<1>18. CASE UNCHANGED vars
    BY <1>18 DEF vars
<1>19. ASSUME NEW t \in Threads, HookStep(t), Frame(t) PROVE NewPart'
    BY ONLY Zenon, <1>19, HookCases, <1>1, <1>2, <1>3, <1>4, <1>5, <1>6,
       <1>7, <1>8, <1>9, <1>10, <1>11, <1>12 DEF HookAction
<1> QED
    BY ONLY Zenon, [Next]_vars, <1>13, <1>14, <1>15, <1>16, <1>17, <1>18, <1>19
    DEF Next, Frame

\* Nothing is recorded before leak detection is enabled.
LEMMA UntrackedKept ==
    ASSUME TypeOK, UntrackedPart, [Next]_vars
    PROVE  UntrackedPart'
<1> USE HookAssumption DEF TypeOK, UntrackedPart, Untracked, Steps
<1>1. ASSUME NEW t \in Threads, NEW p \in Free, NEW s \in Nat, Alloc(t, p, s), Frame(t)
      PROVE  UntrackedPart'
    BY <1>1 DEF Alloc, Ready, Free, Frame, core
<1>2. ASSUME NEW t \in Threads, NEW p \in held, FreeCall(t, p), Frame(t)
      PROVE  UntrackedPart'
    BY <1>2 DEF FreeCall, Ready, NoCall, Frame, core
<1>3. ASSUME NEW t \in Threads, NEW p \in held, NEW s \in Nat, InPlace(t, p, s),
             Frame(t)
      PROVE  UntrackedPart'
    BY <1>3 DEF InPlace, Resize, Ready, Frame, core
<1>4. ASSUME NEW t \in Threads, NEW p \in held, NEW s \in Nat, Failed(t, p, s), Frame(t)
      PROVE  UntrackedPart'
    BY <1>4 DEF Failed, Resize, Ready, Frame, core
<1>5. ASSUME NEW t \in Threads, NEW p \in held, NEW q \in Free, NEW s \in Nat, Moved(t,
             p, q, s), Frame(t)
      PROVE  UntrackedPart'
    BY <1>5 DEF Moved, Resize, Ready, Free, Frame, core
<1>6. ASSUME NEW t \in Threads, NEW p \in held, Released(t, p), Frame(t)
      PROVE  UntrackedPart'
    BY <1>6 DEF Released, Resize, Ready, Frame, core
<1>7. ASSUME NEW t \in Threads, RemoveCheck(t), Frame(t)
      PROVE  UntrackedPart'
    BY <1>7 DEF RemoveCheck, AfterRemove, Frame, core
<1>8. ASSUME NEW t \in Threads, Erase(t), Frame(t)
      PROVE  UntrackedPart'
    BY <1>8 DEF Erase, AfterRemove, Frame, core
<1>9. ASSUME NEW t \in Threads, RealFree(t), Frame(t)
      PROVE  UntrackedPart'
    BY <1>9 DEF RealFree, Return, NoCall, Frame, core
<1>10. ASSUME NEW t \in Threads, AddNothing(t), Frame(t)
      PROVE  UntrackedPart'
    BY <1>10 DEF AddNothing, Return, NoCall, Frame, core
<1>11. ASSUME NEW t \in Threads, AddCheck(t), Frame(t)
      PROVE  UntrackedPart'
    <2>1. CASE leakOn
        BY <1>11, <2>1 DEF AddCheck, Frame, core
    <2>2. CASE ~leakOn
        BY <1>11, <2>2 DEF AddCheck, Return, NoCall, Frame, core
    <2> QED
        BY ONLY <2>1, <2>2
<1>12. ASSUME NEW t \in Threads, Insert(t), Frame(t)
      PROVE  UntrackedPart'
    BY <1>12 DEF Insert, Return, NoCall, Frame, core
<1>13. ASSUME NEW cfg \in BOOLEAN, CoreInit(cfg) PROVE UntrackedPart'
    BY <1>13 DEF CoreInit
<1>14. CASE BeginScan
    BY <1>14 DEF BeginScan
<1>15. ASSUME NEW a \in Addrs, Visit(a) PROVE UntrackedPart'
    BY <1>15 DEF Visit
<1>16. CASE EndScan
    BY <1>16 DEF EndScan
<1>17. CASE CoreShutdown
    BY <1>17 DEF CoreShutdown
<1>18. CASE UNCHANGED vars
    BY <1>18 DEF vars
<1>19. ASSUME NEW t \in Threads, HookStep(t), Frame(t) PROVE UntrackedPart'
    BY ONLY Zenon, <1>19, HookCases, <1>1, <1>2, <1>3, <1>4, <1>5, <1>6,
       <1>7, <1>8, <1>9, <1>10, <1>11, <1>12 DEF HookAction
<1> QED
    BY ONLY Zenon, [Next]_vars, <1>13, <1>14, <1>15, <1>16, <1>17, <1>18, <1>19
    DEF Next, Frame

\* An entry outlives its block only in the hands of the realloc that will remove it.
LEMMA EntriesKept ==
    ASSUME TypeOK, HookPart, OwnPart, NewPart, UntrackedPart, FirstPart, EntriesTrue,
    [Next]_vars
    PROVE  EntriesTrue'
<1> USE HookAssumption DEF TypeOK, HookPart, OwnPart, NewPart, UntrackedPart,
Untracked, FirstPart, EntriesTrue, Releasing, Owns, Calls
<1>1. ASSUME NEW t \in Threads, NEW p \in Free, NEW s \in Nat, Alloc(t, p, s), Frame(t)
      PROVE  EntriesTrue'
    BY <1>1 DEF Alloc, Ready, Free, Frame, core, NoCall
<1>2. ASSUME NEW t \in Threads, NEW p \in held, FreeCall(t, p), Frame(t)
      PROVE  EntriesTrue'
    BY <1>2 DEF FreeCall, Ready, NoCall, Frame, core
<1>3. ASSUME NEW t \in Threads, NEW p \in held, NEW s \in Nat, InPlace(t, p, s),
             Frame(t)
      PROVE  EntriesTrue'
    BY <1>3 DEF InPlace, Resize, Ready, Frame, core, NoCall
<1>4. ASSUME NEW t \in Threads, NEW p \in held, NEW s \in Nat, Failed(t, p, s), Frame(t)
      PROVE  EntriesTrue'
    BY <1>4 DEF Failed, Resize, Ready, Frame, core, NoCall
<1>5. ASSUME NEW t \in Threads, NEW p \in held, NEW q \in Free, NEW s \in Nat, Moved(t,
             p, q, s), Frame(t)
      PROVE  EntriesTrue'
    BY <1>5 DEF Moved, Resize, Ready, Free, Frame, core, NoCall
<1>6. ASSUME NEW t \in Threads, NEW p \in held, Released(t, p), Frame(t)
      PROVE  EntriesTrue'
    BY <1>6 DEF Released, Resize, Ready, Frame, core, NoCall
<1>7. ASSUME NEW t \in Threads, RemoveCheck(t), Frame(t)
      PROVE  EntriesTrue'
    BY <1>7 DEF RemoveCheck, AfterRemove, Frame, core, NoCall
<1>8. ASSUME NEW t \in Threads, Erase(t), Frame(t)
      PROVE  EntriesTrue'
    BY <1>8 DEF Erase, AfterRemove, Frame, core, NoCall
<1>9. ASSUME NEW t \in Threads, RealFree(t), Frame(t)
      PROVE  EntriesTrue'
    BY <1>9 DEF RealFree, Return, NoCall, Frame, core
<1>10. ASSUME NEW t \in Threads, AddNothing(t), Frame(t)
      PROVE  EntriesTrue'
    BY <1>10 DEF AddNothing, Return, NoCall, Frame, core
<1>11. ASSUME NEW t \in Threads, AddCheck(t), Frame(t)
      PROVE  EntriesTrue'
    <2>1. CASE leakOn
        BY <1>11, <2>1 DEF AddCheck, Frame, core, NoCall
    <2>2. CASE ~leakOn
        BY <1>11, <2>2 DEF AddCheck, Return, NoCall, Frame, core
    <2> QED
        BY ONLY <2>1, <2>2
<1>12. ASSUME NEW t \in Threads, Insert(t), Frame(t)
      PROVE  EntriesTrue'
    BY <1>12 DEF Insert, Return, NoCall, Frame, core
<1>13. ASSUME NEW cfg \in BOOLEAN, CoreInit(cfg) PROVE EntriesTrue'
    BY <1>13 DEF CoreInit
<1>14. CASE BeginScan
    BY <1>14 DEF BeginScan
<1>15. ASSUME NEW a \in Addrs, Visit(a) PROVE EntriesTrue'
    BY <1>15 DEF Visit
<1>16. CASE EndScan
    BY <1>16 DEF EndScan
<1>17. CASE CoreShutdown
    BY <1>17 DEF CoreShutdown
<1>18. CASE UNCHANGED vars
    BY <1>18 DEF vars
<1>19. ASSUME NEW t \in Threads, HookStep(t), Frame(t) PROVE EntriesTrue'
    BY ONLY Zenon, <1>19, HookCases, <1>1, <1>2, <1>3, <1>4, <1>5, <1>6,
       <1>7, <1>8, <1>9, <1>10, <1>11, <1>12 DEF HookAction
<1> QED
    BY ONLY Zenon, [Next]_vars, <1>13, <1>14, <1>15, <1>16, <1>17, <1>18, <1>19
    DEF Next, Frame

\* Nobody records a block while another hook owns it.
LEMMA FirstKept ==
    ASSUME TypeOK, HookPart, OwnPart, NewPart, UntrackedPart, FirstPart, [Next]_vars
    PROVE  FirstPart'
<1> USE HookAssumption DEF TypeOK, HookPart, OwnPart, NewPart, UntrackedPart,
Untracked, FirstPart, Owns, Calls
<1>1. ASSUME NEW t \in Threads, NEW p \in Free, NEW s \in Nat, Alloc(t, p, s), Frame(t)
      PROVE  FirstPart'
    BY <1>1 DEF Alloc, Ready, Free, Frame, core, NoCall
<1>2. ASSUME NEW t \in Threads, NEW p \in held, FreeCall(t, p), Frame(t)
      PROVE  FirstPart'
    BY <1>2 DEF FreeCall, Ready, NoCall, Frame, core
<1>3. ASSUME NEW t \in Threads, NEW p \in held, NEW s \in Nat, InPlace(t, p, s),
             Frame(t)
      PROVE  FirstPart'
    BY <1>3 DEF InPlace, Resize, Ready, Frame, core, NoCall
<1>4. ASSUME NEW t \in Threads, NEW p \in held, NEW s \in Nat, Failed(t, p, s), Frame(t)
      PROVE  FirstPart'
    BY <1>4 DEF Failed, Resize, Ready, Frame, core, NoCall
<1>5. ASSUME NEW t \in Threads, NEW p \in held, NEW q \in Free, NEW s \in Nat, Moved(t,
             p, q, s), Frame(t)
      PROVE  FirstPart'
    BY <1>5 DEF Moved, Resize, Ready, Free, Frame, core, NoCall
<1>6. ASSUME NEW t \in Threads, NEW p \in held, Released(t, p), Frame(t)
      PROVE  FirstPart'
    BY <1>6 DEF Released, Resize, Ready, Frame, core, NoCall
<1>7. ASSUME NEW t \in Threads, RemoveCheck(t), Frame(t)
      PROVE  FirstPart'
    BY <1>7 DEF RemoveCheck, AfterRemove, Frame, core, NoCall
<1>8. ASSUME NEW t \in Threads, Erase(t), Frame(t)
      PROVE  FirstPart'
    BY <1>8 DEF Erase, AfterRemove, Frame, core, NoCall
<1>9. ASSUME NEW t \in Threads, RealFree(t), Frame(t)
      PROVE  FirstPart'
    BY <1>9 DEF RealFree, Return, NoCall, Frame, core
<1>10. ASSUME NEW t \in Threads, AddNothing(t), Frame(t)
      PROVE  FirstPart'
    BY <1>10 DEF AddNothing, Return, NoCall, Frame, core
<1>11. ASSUME NEW t \in Threads, AddCheck(t), Frame(t)
      PROVE  FirstPart'
    <2>1. CASE leakOn
        BY <1>11, <2>1 DEF AddCheck, Frame, core, NoCall
    <2>2. CASE ~leakOn
        BY <1>11, <2>2 DEF AddCheck, Return, NoCall, Frame, core
    <2> QED
        BY ONLY <2>1, <2>2
<1>12. ASSUME NEW t \in Threads, Insert(t), Frame(t)
      PROVE  FirstPart'
    BY <1>12 DEF Insert, Return, NoCall, Frame, core
<1>13. ASSUME NEW cfg \in BOOLEAN, CoreInit(cfg) PROVE FirstPart'
    BY <1>13 DEF CoreInit
<1>14. CASE BeginScan
    BY <1>14 DEF BeginScan
<1>15. ASSUME NEW a \in Addrs, Visit(a) PROVE FirstPart'
    BY <1>15 DEF Visit
<1>16. CASE EndScan
    BY <1>16 DEF EndScan
<1>17. CASE CoreShutdown
    BY <1>17 DEF CoreShutdown
<1>18. CASE UNCHANGED vars
    BY <1>18 DEF vars
<1>19. ASSUME NEW t \in Threads, HookStep(t), Frame(t) PROVE FirstPart'
    BY ONLY Zenon, <1>19, HookCases, <1>1, <1>2, <1>3, <1>4, <1>5, <1>6,
       <1>7, <1>8, <1>9, <1>10, <1>11, <1>12 DEF HookAction
<1> QED
    BY ONLY Zenon, [Next]_vars, <1>13, <1>14, <1>15, <1>16, <1>17, <1>18, <1>19
    DEF Next, Frame

\* A hook that has not displaced its block erases only an entry of its own.
LEMMA KeptKept ==
    ASSUME TypeOK, HookPart, OwnPart, NewPart, KeptPart, [Next]_vars
    PROVE  KeptPart'
<1> USE HookAssumption DEF TypeOK, HookPart, OwnPart, NewPart, KeptPart, Complete,
Displaces, Owns, Calls
<1>1. ASSUME NEW t \in Threads, NEW p \in Free, NEW s \in Nat, Alloc(t, p, s), Frame(t)
      PROVE  KeptPart'
    BY <1>1 DEF Alloc, Ready, Free, Frame, core, NoCall
<1>2. ASSUME NEW t \in Threads, NEW p \in held, FreeCall(t, p), Frame(t)
      PROVE  KeptPart'
    BY <1>2 DEF FreeCall, Ready, NoCall, Frame, core
<1>3. ASSUME NEW t \in Threads, NEW p \in held, NEW s \in Nat, InPlace(t, p, s),
             Frame(t)
      PROVE  KeptPart'
    BY <1>3 DEF InPlace, Resize, Ready, Frame, core, NoCall
<1>4. ASSUME NEW t \in Threads, NEW p \in held, NEW s \in Nat, Failed(t, p, s), Frame(t)
      PROVE  KeptPart'
    <2>1. Displaces(t)'
        BY <1>4 DEF Failed, Resize, Free
    <2> QED
        BY <1>4, <2>1 DEF Frame
<1>5. ASSUME NEW t \in Threads, NEW p \in held, NEW q \in Free, NEW s \in Nat, Moved(t,
             p, q, s), Frame(t)
      PROVE  KeptPart'
    <2>1. Displaces(t)'
        BY <1>5 DEF Moved, Resize, Free
    <2> QED
        BY <1>5, <2>1 DEF Frame
<1>6. ASSUME NEW t \in Threads, NEW p \in held, Released(t, p), Frame(t)
      PROVE  KeptPart'
    <2>1. Displaces(t)'
        BY <1>6 DEF Released, Resize, Free
    <2> QED
        BY <1>6, <2>1 DEF Frame
<1>7. ASSUME NEW t \in Threads, RemoveCheck(t), Frame(t)
      PROVE  KeptPart'
    BY <1>7 DEF RemoveCheck, AfterRemove, Frame, core, NoCall
<1>8. ASSUME NEW t \in Threads, Erase(t), Frame(t)
      PROVE  KeptPart'
    BY <1>8 DEF Erase, AfterRemove, Frame, core, NoCall
<1>9. ASSUME NEW t \in Threads, RealFree(t), Frame(t)
      PROVE  KeptPart'
    BY <1>9 DEF RealFree, Return, NoCall, Frame, core
<1>10. ASSUME NEW t \in Threads, AddNothing(t), Frame(t)
      PROVE  KeptPart'
    BY <1>10 DEF AddNothing, Return, NoCall, Frame, core
<1>11. ASSUME NEW t \in Threads, AddCheck(t), Frame(t)
      PROVE  KeptPart'
    <2>1. CASE leakOn
        BY <1>11, <2>1 DEF AddCheck, Frame, core, NoCall
    <2>2. CASE ~leakOn
        BY <1>11, <2>2 DEF AddCheck, Return, NoCall, Frame, core
    <2> QED
        BY ONLY <2>1, <2>2
<1>12. ASSUME NEW t \in Threads, Insert(t), Frame(t)
      PROVE  KeptPart'
    BY <1>12 DEF Insert, Return, NoCall, Frame, core
<1>13. ASSUME NEW cfg \in BOOLEAN, CoreInit(cfg) PROVE KeptPart'
    BY <1>13 DEF CoreInit
<1>14. CASE BeginScan
    BY <1>14 DEF BeginScan
<1>15. ASSUME NEW a \in Addrs, Visit(a) PROVE KeptPart'
    BY <1>15 DEF Visit
<1>16. CASE EndScan
    BY <1>16 DEF EndScan
<1>17. CASE CoreShutdown
    BY <1>17 DEF CoreShutdown
<1>18. CASE UNCHANGED vars
    BY <1>18 DEF vars
<1>19. ASSUME NEW t \in Threads, HookStep(t), Frame(t) PROVE KeptPart'
    BY ONLY Zenon, <1>19, HookCases, <1>1, <1>2, <1>3, <1>4, <1>5, <1>6,
       <1>7, <1>8, <1>9, <1>10, <1>11, <1>12 DEF HookAction
<1> QED
    BY ONLY Zenon, [Next]_vars, <1>13, <1>14, <1>15, <1>16, <1>17, <1>18, <1>19
    DEF Next, Frame

\* With no hook running, what the walk finds at an address is what the heap has there.
LEMMA QuietKept ==
    ASSUME TypeOK, HookPart, OwnPart, LivePart, UntrackedPart, EntriesTrue, FirstPart,
    KeptPart, QuietPart, [Next]_vars
    PROVE  QuietPart'
<1> USE HookAssumption DEF TypeOK, HookPart, OwnPart, LivePart, UntrackedPart,
Untracked, EntriesTrue, Releasing, FirstPart, KeptPart, Complete, QuietPart, Owns,
Record, NoCall
<1>1. ASSUME NEW t \in Threads, NEW p \in Free, NEW s \in Nat, Alloc(t, p, s), Frame(t)
      PROVE  QuietPart'
    BY <1>1 DEF Frame, core
<1>2. ASSUME NEW t \in Threads, NEW p \in held, FreeCall(t, p), Frame(t)
      PROVE  QuietPart'
    BY <1>2 DEF Frame, core
<1>3. ASSUME NEW t \in Threads, NEW p \in held, NEW s \in Nat, InPlace(t, p, s),
             Frame(t)
      PROVE  QuietPart'
    BY <1>3 DEF Frame, core
<1>4. ASSUME NEW t \in Threads, NEW p \in held, NEW s \in Nat, Failed(t, p, s), Frame(t)
      PROVE  QuietPart'
    BY <1>4 DEF Frame, core
<1>5. ASSUME NEW t \in Threads, NEW p \in held, NEW q \in Free, NEW s \in Nat, Moved(t,
             p, q, s), Frame(t)
      PROVE  QuietPart'
    BY <1>5 DEF Frame, core
<1>6. ASSUME NEW t \in Threads, NEW p \in held, Released(t, p), Frame(t)
      PROVE  QuietPart'
    BY <1>6 DEF Frame, core
<1>7. ASSUME NEW t \in Threads, RemoveCheck(t), Frame(t)
      PROVE  QuietPart'
    BY <1>7 DEF Frame, core
<1>8. ASSUME NEW t \in Threads, Erase(t), Frame(t)
      PROVE  QuietPart'
    BY <1>8 DEF Frame, core
<1>9. ASSUME NEW t \in Threads, RealFree(t), Frame(t)
      PROVE  QuietPart'
    BY <1>9 DEF Frame, core
<1>10. ASSUME NEW t \in Threads, AddNothing(t), Frame(t)
      PROVE  QuietPart'
    BY <1>10 DEF Frame, core
<1>11. ASSUME NEW t \in Threads, AddCheck(t), Frame(t)
      PROVE  QuietPart'
    BY <1>11 DEF Frame, core
<1>12. ASSUME NEW t \in Threads, Insert(t), Frame(t)
      PROVE  QuietPart'
    BY <1>12 DEF Frame, core
<1>13. ASSUME NEW cfg \in BOOLEAN, CoreInit(cfg) PROVE QuietPart'
    BY <1>13 DEF CoreInit
<1>14. CASE BeginScan
    BY <1>14 DEF BeginScan
<1>15. ASSUME NEW a \in Addrs, Visit(a) PROVE QuietPart'
    <2>1. CASE tracked[a] = NoSize
        <3>1. ASSUME quiet, sessions = 1, leakOn, ~displaced PROVE a \notin seen
            BY <2>1, <3>1
        <3> QED
            BY <1>15, <2>1, <3>1 DEF Visit
    <2>2. CASE tracked[a] # NoSize
        <3>1. report' = report \cup {[addr |-> a, size |-> tracked[a]]}
            BY <1>15, <2>2 DEF Visit
        <3>2. ASSUME quiet,
        sessions = 1 PROVE leakOn /\ a \in held /\ a \in seen /\ tracked[a] = heap[a]
            BY <2>2, <3>2
        <3> QED
            BY <1>15, <3>1, <3>2 DEF Visit
    <2> QED
        BY ONLY <2>1, <2>2
<1>16. CASE EndScan
    BY <1>16 DEF EndScan
<1>17. CASE CoreShutdown
    BY <1>17 DEF CoreShutdown
<1>18. CASE UNCHANGED vars
    BY <1>18 DEF vars
<1>19. ASSUME NEW t \in Threads, HookStep(t), Frame(t) PROVE QuietPart'
    BY ONLY Zenon, <1>19, HookCases, <1>1, <1>2, <1>3, <1>4, <1>5, <1>6,
       <1>7, <1>8, <1>9, <1>10, <1>11, <1>12 DEF HookAction
<1> QED
    BY ONLY Zenon, [Next]_vars, <1>13, <1>14, <1>15, <1>16, <1>17, <1>18, <1>19
    DEF Next, Frame

-----------------------------------------------------------------------------
\* The inductive invariant holds whatever hooks and sessions interleave.
THEOREM InductiveInvariant == Spec => []IInv
<1>1. Init => IInv
    <2> SUFFICES ASSUME Init PROVE IInv
        OBVIOUS
    <2> USE HookAssumption DEF Init
    <2>1. TypeOK
        <3>1. heap \in [Addrs -> Nat \cup {NoSize}] /\ tracked \in [Addrs -> Nat \cup {NoSize}]
            OBVIOUS
        <3>2. /\ leakOn \in BOOLEAN /\ quiet \in BOOLEAN /\ displaced \in BOOLEAN
              /\ phase \in {"off", "on", "scan", "report"}
            OBVIOUS
        <3>3. sessions \in 0 .. MaxSessions
            OBVIOUS
        <3>4. /\ left \subseteq Addrs /\ report \subseteq Record
              /\ held \subseteq Addrs /\ seen \subseteq Addrs
            OBVIOUS
        <3>5. pc \in [Threads -> Steps]
            BY DEF Steps
        <3>6. call \in [Threads -> Calls]
            BY DEF Calls, NoCall
        <3>7. \A t \in Threads : pc[t] # "add"
            OBVIOUS
        <3> QED
            BY ONLY <3>1, <3>2, <3>3, <3>4, <3>5, <3>6, <3>7 DEF TypeOK
    <2>2. HookPart
        BY DEF HookPart, NoCall
    <2>3. OwnPart /\ LivePart
        BY DEF OwnPart, LivePart, Owns, NoCall
    <2>4. NewPart
        BY DEF NewPart, NoCall
    <2>5. UntrackedPart /\ EntriesTrue /\ FirstPart
        BY DEF UntrackedPart, Untracked, EntriesTrue, FirstPart
    <2>6. KeptPart /\ QuietPart
        BY DEF KeptPart, Complete, Displaces, QuietPart, NoCall
    <2> QED
        BY ONLY <2>1, <2>2, <2>3, <2>4, <2>5, <2>6 DEF IInv, Control
<1>2. IInv /\ [Next]_vars => IInv'
    BY StepTyped, HookKept, OwnKept, LiveKept, NewKept, UntrackedKept, EntriesKept,
       FirstKept, KeptKept, QuietKept DEF IInv, Control
<1> QED
    BY <1>1, <1>2, PTL DEF Spec

\* The hooks, Init, Shutdown and the enumeration keep every variable in its type.
THEOREM TypeCorrect == Spec => []TypeOK
<1>1. IInv => TypeOK
    BY DEF IInv
<1> QED
    BY <1>1, InductiveInvariant, PTL

\* In the first session g_allocations describes memory that exists, or that a realloc in
\* progress is about to remove, with the sizes of the blocks the application holds
\* (linux_alloc_hooks.cpp:57-74).
THEOREM MapDescribesMemory == Spec => []EntriesTrue
<1>1. IInv => EntriesTrue
    BY DEF IInv, Control
<1> QED
    BY <1>1, InductiveInvariant, PTL

\* An undisturbed report of the first session names only allocated blocks, with their
\* sizes (memory_analyzer.cpp, RunLeakDetection).
THEOREM NoFalseLeak == Spec => []ReportSound
<1>1. IInv => ReportSound
    BY DEF IInv, Control, QuietPart, ReportSound
<1> QED
    BY <1>1, InductiveInvariant, PTL

\* Until a realloc displaces its block, every held block whose hook saw leak detection
\* enabled is in the map with its size.
THEOREM TrackedUntilDisplaced == Spec => []CompleteInPlace
<1>1. IInv => CompleteInPlace
    BY DEF IInv, Control, KeptPart, CompleteInPlace
<1> QED
    BY <1>1, InductiveInvariant, PTL

\* Until then an undisturbed report of the first session is exactly the set of tracked
\* blocks that are still allocated.
THEOREM LeaksExact == Spec => []ReportExact
<1>1. IInv => ReportExact
    BY DEF IInv, Control, QuietPart, ReportExact
<1> QED
    BY <1>1, InductiveInvariant, PTL

\* Until then no step, of any hook or of the core, removes the entry of a block that the
\* application holds: erase follows the pointer's leaving its hands.
THEOREM EntriesEraseOnlyTaken == Spec => EraseOnlyTaken
<1>1. IInv /\ [Next]_vars =>
        [~displaced => \A p \in Addrs :
            tracked[p] # NoSize /\ tracked'[p] = NoSize => p \notin held]_vars
    <2> SUFFICES ASSUME IInv, [Next]_vars, ~displaced, NEW p \in Addrs,
                        tracked[p] # NoSize, tracked'[p] = NoSize
                 PROVE  p \notin held
        BY Zenon
    <2> USE HookAssumption DEF IInv, Control, TypeOK, Calls
    <2>1. ASSUME NEW t \in Threads, HookStep(t) PROVE p \notin held
        <3>1. CASE Erase(t)
            <4>1. call[t].ptr = p /\ pc[t] = "rm"
                BY <3>1 DEF Erase
            <4>2. Owns(t, p)
                BY <4>1 DEF HookPart, KeptPart, Displaces, Owns, NoCall
            <4> QED
                BY <4>2 DEF OwnPart
        <3>2. CASE Insert(t)
            BY <3>2 DEF Insert
        <3>3. CASE UNCHANGED tracked
            BY <3>3
        <3> QED
            BY <2>1, <3>1, <3>2, <3>3, HookCases
            DEF HookAction, Alloc, FreeCall, InPlace, Failed, Moved, Released, Resize,
                RemoveCheck, RealFree, AddNothing, AddCheck
    <2>2. CASE UNCHANGED tracked
        BY <2>2
    <2> QED
        BY <2>1, <2>2 DEF Next, CoreInit, BeginScan, Visit, EndScan, CoreShutdown, vars
<1> QED
    BY <1>1, InductiveInvariant, PTL DEF Spec, EraseOnlyTaken
=============================================================================
