-------------------------- MODULE IsolatedAllocator --------------------------
(***************************************************************************)
(* The bump allocator every other part of Domovoy allocates from           *)
(* (src/allocator.cpp, include/domovoy/allocator.h).  It keeps a linked    *)
(* list of OS mappings and hands out addresses from the unused tail of the *)
(* first block with room; a std::mutex serialises its operations.          *)
(*                                                                         *)
(* Allocate is split where another thread could see its intermediate       *)
(* state: locking, the implicit initialisation, each turn of the scan      *)
(* loop, the bump of block->used, and the mapping of a further block.      *)
(* Initialize and Shutdown do their work in one critical section and are   *)
(* one step each.  The address space is an interval of naturals; a request *)
(* is assumed to be far below SIZE_MAX, so size_t arithmetic does not wrap.*)
(***************************************************************************)
EXTENDS Integers, Sequences

CONSTANTS
    Threads,     \* the threads that call the allocator
    NoThread,    \* value of mutex_ when it is free
    Sizes,       \* sizes callers ask for, in bytes
    Alignments,  \* alignments callers ask for
    Capacities,  \* arguments of Initialize
    MinBlock,    \* the 2 MB minimum of a block
    HeaderSize,  \* sizeof(Block), stored in front of the block's memory
    Bases        \* addresses a block's memory may start at, as mmap chooses

ASSUME ThreadsAssumption == NoThread \notin Threads

ASSUME RequestAssumption ==
    /\ Sizes \subseteq Nat
    /\ Capacities \subseteq Nat
    /\ Alignments \subseteq Nat \ {0}

\* alignof(T) is at most a page, far below half of the 2 MB minimum.
ASSUME BlockAssumption ==
    /\ MinBlock \in Nat
    /\ HeaderSize \in Nat
    /\ Bases \subseteq Nat
    /\ \A b \in Bases : b >= HeaderSize
    /\ \A a \in Alignments : 2 * a <= MinBlock

VARIABLES
    blocks,  \* the list from head_block_: [base, size, used], base = memory
    mutex_,  \* the thread holding mutex_, or NoThread
    pc,      \* what each thread is doing inside the allocator
    req,     \* arguments of each thread's Allocate call
    curr,    \* position of each thread's `curr` in the list
    hit,     \* aligned_addr and padding each thread computed for its block
    live     \* ranges handed out, not given back and still mapped

vars == <<blocks, mutex_, pc, req, curr, hit, live>>

Block == [base : Nat, size : Nat, used : Nat]
Request == [size : Sizes, align : Alignments]
\* The locals of a thread that is outside Allocate hold nothing.
NoRequest == [size |-> 0, align |-> 1]
NoHit == [addr |-> 0, pad |-> 0]

Steps == {"idle", "lock", "init", "scan", "bump", "grow"}

Larger(m, n) == IF m >= n THEN m ELSE n

\* Mutant: the mask without the `+ alignment - 1`, which rounds down.
AlignDown(x, a) == (x \div a) * a

\* (x + alignment - 1) & ~(alignment - 1), for a power of two: the next multiple.
AlignUp(x, a) == ((x + a - 1) \div a) * a

\* aligned_addr and padding for a request of alignment a in block b.
AlignedIn(b, a) == AlignUp(b.base + b.used, a)
PaddingIn(b, a) == AlignedIn(b, a) - (b.base + b.used)

\* Mutant: the room a block needs is computed without the padding.
FitsUnpadded(b, r) == b.used + r.size <= b.size

\* used + padding + size <= block->size
Fits(b, r) == b.used + PaddingIn(b, r.align) + r.size <= b.size

\* mmap returns a region that overlaps no mapping of the process.
Unmapped(base, size) ==
    \A i \in DOMAIN blocks :
        \/ base + size <= blocks[i].base - HeaderSize
        \/ blocks[i].base + blocks[i].size <= base - HeaderSize

\* AllocateOSBlock(size) maps size + sizeof(Block) bytes at the kernel's choice.
OSBlocks(size) ==
    { [base |-> b, size |-> size, used |-> 0] : b \in {x \in Bases : Unmapped(x, size)} }

-----------------------------------------------------------------------------
Init ==
    /\ blocks = <<>>
    /\ mutex_ = NoThread
    /\ pc = [t \in Threads |-> "idle"]
    /\ req = [t \in Threads |-> NoRequest]
    /\ curr = [t \in Threads |-> 1]
    /\ hit = [t \in Threads |-> NoHit]
    /\ live = {}

\* Initialize(initial_capacity_bytes): the first block, unless there is one.
Initialize(t, cap) ==
    /\ pc[t] = "idle"
    /\ mutex_ = NoThread
    /\ blocks = <<>>
    /\ \E b \in OSBlocks(Larger(cap, MinBlock)) : blocks' = <<b>>
    /\ UNCHANGED <<mutex_, pc, req, curr, hit, live>>

\* Allocate(size, alignment) is called, directly or through StlAllocator::allocate.
Call(t, r) ==
    /\ pc[t] = "idle"
    /\ pc' = [pc EXCEPT ![t] = "lock"]
    /\ req' = [req EXCEPT ![t] = r]
    /\ UNCHANGED <<blocks, mutex_, curr, hit, live>>

\* Mutant: Allocate without its lock_guard waiting for the holder.
LockUnguarded(t) ==
    /\ pc[t] = "lock"
    /\ mutex_' = t
    /\ pc' = [pc EXCEPT ![t] = IF blocks = <<>> THEN "init" ELSE "scan"]
    /\ curr' = [curr EXCEPT ![t] = 1]
    /\ UNCHANGED <<blocks, req, hit, live>>

\* The lock_guard, and the choice whether a first block is needed.
Lock(t) ==
    /\ pc[t] = "lock"
    /\ mutex_ = NoThread
    /\ mutex_' = t
    /\ pc' = [pc EXCEPT ![t] = IF blocks = <<>> THEN "init" ELSE "scan"]
    /\ curr' = [curr EXCEPT ![t] = 1]
    /\ UNCHANGED <<blocks, req, hit, live>>

\* No Initialize came first: the fallback block of the minimum size.
AutoInit(t) ==
    /\ pc[t] = "init"
    /\ \E b \in OSBlocks(MinBlock) : blocks' = <<b>>
    /\ pc' = [pc EXCEPT ![t] = "scan"]
    /\ UNCHANGED <<mutex_, req, curr, hit, live>>

\* The block at curr has room: aligned_addr and padding are fixed for it.
Found(t) ==
    LET b == blocks[curr[t]] IN
    /\ Fits(b, req[t])
    /\ pc' = [pc EXCEPT ![t] = "bump"]
    /\ hit' = [hit EXCEPT ![t] = [addr |-> AlignedIn(b, req[t].align),
                                  pad |-> PaddingIn(b, req[t].align)]]
    /\ UNCHANGED curr

\* It has not: curr = curr->next.
TryNext(t) ==
    /\ ~Fits(blocks[curr[t]], req[t])
    /\ curr' = [curr EXCEPT ![t] = @ + 1]
    /\ UNCHANGED <<pc, hit>>

\* Mutant: a block without room ends the loop.
ScanFirstOnly(t) ==
    /\ pc[t] = "scan"
    /\ curr[t] <= Len(blocks)
    /\ \/ Found(t)
       \/ /\ ~Fits(blocks[curr[t]], req[t])
          /\ curr' = [curr EXCEPT ![t] = Len(blocks) + 1]
          /\ UNCHANGED <<pc, hit>>
    /\ UNCHANGED <<blocks, mutex_, req, live>>

\* Mutant: `curr = curr->next` is forgotten.
ScanStuck(t) ==
    /\ pc[t] = "scan"
    /\ curr[t] <= Len(blocks)
    /\ Found(t)
    /\ UNCHANGED <<blocks, mutex_, req, live>>

\* One turn of `while (curr)`: the block has room, or the next one is tried.
Scan(t) ==
    /\ pc[t] = "scan"
    /\ curr[t] <= Len(blocks)
    /\ Found(t) \/ TryNext(t)
    /\ UNCHANGED <<blocks, mutex_, req, live>>

\* Allocate is left, by return or by throw: the lock_guard unlocks, the locals die.
Return(t) ==
    /\ mutex_' = NoThread
    /\ pc' = [pc EXCEPT ![t] = "idle"]
    /\ req' = [req EXCEPT ![t] = NoRequest]
    /\ curr' = [curr EXCEPT ![t] = 1]
    /\ hit' = [hit EXCEPT ![t] = NoHit]

\* The range that a call returning address a hands to thread t's caller.
Handed(t, a) == [addr |-> a, size |-> req[t].size, align |-> req[t].align]

\* curr->used += padding + size, and the return that releases the lock.
Bump(t) ==
    /\ pc[t] = "bump"
    /\ blocks' = [blocks EXCEPT ![curr[t]].used = @ + hit[t].pad + req[t].size]
    /\ live' = live \cup {Handed(t, hit[t].addr)}
    /\ Return(t)

\* The scan reached the end of the list: last->next = new_block.
ScanEnd(t) ==
    /\ pc[t] = "scan"
    /\ curr[t] > Len(blocks)
    /\ pc' = [pc EXCEPT ![t] = "grow"]
    /\ UNCHANGED <<blocks, mutex_, req, curr, hit, live>>

\* A block of max(size * 2, 2 MB), from whose start the request is served unchecked.
Grow(t) ==
    /\ pc[t] = "grow"
    /\ \E b \in OSBlocks(Larger(2 * req[t].size, MinBlock)) :
        /\ blocks' = Append(blocks,
                        [b EXCEPT !.used = PaddingIn(b, req[t].align) + req[t].size])
        /\ live' = live \cup {Handed(t, AlignedIn(b, req[t].align))}
    /\ Return(t)

\* mmap failed: AllocateOSBlock throws std::bad_alloc out of Allocate.
BadAlloc(t) ==
    /\ pc[t] \in {"init", "grow"}
    /\ Return(t)
    /\ UNCHANGED <<blocks, live>>

\* Mutant: a Deallocate that hands the bytes back to the last block.
DeallocateShrinks(t, r) ==
    /\ pc[t] = "idle"
    /\ blocks' = [blocks EXCEPT ![Len(blocks)].used = @ - r.size]
    /\ live' = live \ {r}
    /\ UNCHANGED <<mutex_, pc, req, curr, hit>>

\* Deallocate ignores its arguments: the pool stays as it is, the caller's range ends.
Deallocate(t, r) ==
    /\ pc[t] = "idle"
    /\ live' = live \ {r}
    /\ UNCHANGED <<blocks, mutex_, pc, req, curr, hit>>

\* Shutdown unmaps every block of the list; what callers still held dangles.
Shutdown(t) ==
    /\ pc[t] = "idle"
    /\ mutex_ = NoThread
    /\ blocks' = <<>>
    /\ live' = {}
    /\ UNCHANGED <<mutex_, pc, req, curr, hit>>

\* The steps of a thread that is inside Allocate and holds the lock.
Holding(t) ==
    AutoInit(t) \/ Scan(t) \/ Bump(t) \/ ScanEnd(t) \/ Grow(t) \/ BadAlloc(t)

Next ==
    \E t \in Threads :
        \/ \E cap \in Capacities : Initialize(t, cap)
        \/ \E r \in Request : Call(t, r)
        \/ Lock(t)
        \/ Holding(t)
        \/ \E r \in live : Deallocate(t, r)
        \/ Shutdown(t)

\* A thread inside the critical section is eventually scheduled again.
Fairness == \A t \in Threads : WF_vars(Holding(t))

Spec == Init /\ [][Next]_vars

FairSpec == Spec /\ Fairness

-----------------------------------------------------------------------------
Pool == INSTANCE RangePool

\* Every variable holds values of its type; no block records a negative `used`.
TypeOK ==
    /\ blocks \in Seq(Block)
    /\ mutex_ \in Threads \cup {NoThread}
    /\ pc \in [Threads -> Steps]
    /\ req \in [Threads -> Request \cup {NoRequest}]
    /\ curr \in [Threads -> Nat \ {0}]
    /\ hit \in [Threads -> [addr : Nat, pad : Nat]]
    /\ live \in SUBSET [addr : Nat, size : Sizes, align : Alignments]

\* Memory safety of the pool: every range a caller holds lies inside the part of
\* one mapped block that the bump pointer has passed, and the bump pointer never
\* passes the end of the mapping, although Grow serves its request unchecked.
InBounds ==
    /\ \A i \in DOMAIN blocks : blocks[i].used <= blocks[i].size
    /\ \A r \in live : \E i \in DOMAIN blocks :
        /\ blocks[i].base <= r.addr
        /\ r.addr + r.size <= blocks[i].base + blocks[i].used

\* "Thread-safe" (allocator.h:41): whatever the interleaving of the callers, two
\* ranges that are held at the same time share no byte, and each has the
\* alignment its caller asked for.
LiveDisjoint ==
    /\ \A r, q \in live : r # q => Pool!Apart(r, q)
    /\ \A r \in live : r.addr % r.align = 0

\* The allocator implements the abstract pool: each step of each thread hands out
\* one fresh range, gives one back, takes all away, or is invisible to callers.
PoolSpec == Pool!Spec

\* The pool never maps a further block while a request would still find room in
\* a block of the list: only the end of the scan leads to AllocateOSBlock.
GrowOnlyWhenFull ==
    [][ (blocks # <<>> /\ Len(blocks') > Len(blocks)) =>
            /\ mutex_ \in Threads
            /\ \A i \in DOMAIN blocks :
                blocks[i].base + blocks[i].size
                    < AlignedIn(blocks[i], req[mutex_].align) + req[mutex_].size ]_vars

\* A thread that holds mutex_ comes out of Allocate again, by a return or by
\* std::bad_alloc: the scan of the block list ends.
HolderReleases == \A t \in Threads : mutex_ = t ~> mutex_ # t
=============================================================================
