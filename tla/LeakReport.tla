----------------------------- MODULE LeakReport -----------------------------
(***************************************************************************)
(* From the enumerated allocations to the leak report:                     *)
(* MemoryAnalyzer::RunLeakDetection (src/memory/memory_analyzer.cpp) after *)
(* EnumerateHeap.  The loop over the sorted leaks is a state machine, one  *)
(* step per leak, over every input; what it puts together is compared with *)
(* a definition of the report that has no loop.                            *)
(*                                                                         *)
(* resolve_type is modelled by the pointers it follows, which may have any *)
(* value: the leaked block and the loaded modules hold anything.           *)
(***************************************************************************)
EXTENDS Integers, SequencesExt

CONSTANTS
    Addrs,        \* addresses of blocks, as numbers
    Sizes,        \* sizes of blocks
    WordSize,     \* sizeof(void*)
    MaxSamples,   \* sample addresses a group of the summary keeps (100)
    Words,        \* values a word of memory may hold, taken for addresses
    Module,       \* the addresses in a loaded module: dladdr succeeds for them
    NoSize        \* a group without a "size", a report without a part

ASSUME ReportAssumption ==
    /\ Addrs \subseteq Nat /\ IsFiniteSet(Addrs)
    /\ Sizes \subseteq Nat /\ NoSize \notin Nat
    /\ WordSize \in Nat \ {0} /\ MaxSamples \in Nat
    /\ Module \subseteq Words

VARIABLES
    allocations,           \* what EnumerateHeap has filled, in no order
    config,                \* enable_leak_report_summary, enable_leak_report_details
    pc,                    \* "filter", "loop", "done"
    leaked_allocations,    \* the sorted leaks
    next,                  \* the loop's position in them
    current_size, current_count, current_sample_addresses, current_leak_group,
    by_size,               \* report["summary"]["by_size"]
    leaks_by_size,         \* report["leaks_by_size"]
    reported               \* the report handed to the reporter, or {}

input == <<allocations, config>>
loop == <<next, current_size, current_count, current_sample_addresses,
          current_leak_group, by_size, leaks_by_size>>
vars == <<input, pc, leaked_allocations, loop, reported>>

AllocationRecord == [address : Addrs, size : Sizes, marked : BOOLEAN]

NullGroup == [size |-> NoSize, addresses |-> <<>>]

\* The enumeration lists each address once, marked by nobody: the scans of the data
\* segments and of the stacks are empty functions.
Init ==
    /\ \E A \in SUBSET Addrs : \E s \in [A -> Sizes] :
         allocations = {[address |-> a, size |-> s[a], marked |-> FALSE] : a \in A}
    /\ config \in [summary : BOOLEAN, details : BOOLEAN]
    /\ pc = "filter"
    /\ leaked_allocations = <<>>
    /\ next = 1
    /\ current_size = 0
    /\ current_count = 0
    /\ current_sample_addresses = <<>>
    /\ current_leak_group = NullGroup
    /\ by_size = <<>>
    /\ leaks_by_size = <<>>
    /\ reported = {}

Leaks == {a \in allocations : ~a.marked}

\* The order of the report: large blocks first, then by address.
Before(a, b) ==
    IF a.size # b.size THEN a.size > b.size ELSE a.address < b.address

\* What std::sort promises: all of them, in that order.
InOrder(S) ==
    {q \in [1 .. Cardinality(S) -> S] :
        /\ Range(q) = S
        /\ \A i, j \in DOMAIN q : i < j => Before(q[i], q[j])}

FilterAndSort ==
    /\ pc = "filter"
    /\ leaked_allocations' \in InOrder(Leaks)
    /\ pc' = "loop"
    /\ UNCHANGED <<input, loop, reported>>

-----------------------------------------------------------------------------
\* The name is used when every pointer on the way lies in a loaded module; rtti: the
\* nearest symbol of the type_info's own vptr is a type_info class.
RttiNamed(vptr, type_info, rtti, name) ==
    vptr \in Module /\ type_info \in Module /\ rtti /\ name \in Module

\* `if (size < sizeof(void*)) return ""`
HasWord(a) == a.size >= WordSize

\* resolve_type: the name in the RTTI, else the symbol at the vptr, else nothing.
Resolve(a, type) ==
    \/ ~HasWord(a) /\ type = "none"
    \/ /\ HasWord(a)
       /\ \E vptr, type_info, name \in Words, rtti \in BOOLEAN :
            IF RttiNamed(vptr, type_info, rtti, name)
            THEN type = "rtti" ELSE type \in {"symbol", "none"}

-----------------------------------------------------------------------------
\* Mutant: flush_group drops the count's test and emits an empty first group.
FlushedAlways(on, groups, group) == IF on THEN Append(groups, group) ELSE groups

\* flush_group, for one of the two lists it appends to.
Flushed(on, groups, group) ==
    IF current_count > 0 /\ on THEN Append(groups, group) ELSE groups

SummaryItem == [size |-> current_size, count |-> current_count,
                sample_addresses |-> current_sample_addresses]

\* Mutant: one sample too many.
SampledOneMore(samples, a) ==
    IF Len(samples) <= MaxSamples THEN Append(samples, a.address) ELSE samples

Sampled(samples, a) ==
    IF Len(samples) < MaxSamples THEN Append(samples, a.address) ELSE samples

Detail(group, a, type) ==
    [group EXCEPT !.addresses = Append(@, [address |-> a.address, type |-> type])]

\* One leak: a change of size closes the group and begins the next one.
Iterate ==
    /\ pc = "loop" /\ next <= Len(leaked_allocations)
    /\ LET a == leaked_allocations[next]
           new == a.size # current_size
           group == IF new /\ config.details
                    THEN [size |-> a.size, addresses |-> <<>>] ELSE current_leak_group
       IN /\ by_size' = IF new THEN Flushed(config.summary, by_size, SummaryItem) ELSE by_size
          /\ leaks_by_size' = IF new THEN Flushed(config.details, leaks_by_size,
                                                  current_leak_group)
                              ELSE leaks_by_size
          /\ current_size' = a.size
          /\ current_count' = (IF new THEN 0 ELSE current_count) + 1
          /\ current_sample_addresses' =
                Sampled(IF new THEN <<>> ELSE current_sample_addresses, a)
          /\ IF config.details
             THEN \E type \in {"rtti", "symbol", "none"} :
                    /\ Resolve(a, type)
                    /\ current_leak_group' = Detail(group, a, type)
             ELSE UNCHANGED current_leak_group
    /\ next' = next + 1
    /\ UNCHANGED <<input, pc, leaked_allocations, reported>>

SumSizes(S) == MapThenSumSet(LAMBDA a : a.size, S)

\* The last group is flushed, and a report with at least one leak goes out.
Finish ==
    /\ pc = "loop" /\ next > Len(leaked_allocations)
    /\ LET groups == Flushed(config.summary, by_size, SummaryItem)
           lists == Flushed(config.details, leaks_by_size, current_leak_group)
       IN reported' = IF Leaks = {} THEN {}
                      ELSE {[total_leaks |-> Cardinality(Leaks),
                             total_leaked_bytes |-> SumSizes(Leaks),
                             by_size |-> groups, leaks_by_size |-> lists]}
    /\ pc' = "done"
    /\ UNCHANGED <<input, leaked_allocations, loop>>

Next == FilterAndSort \/ Iterate \/ Finish

Spec == Init /\ [][Next]_vars

-----------------------------------------------------------------------------
\* The reference: the addresses of the leaks of one size.
AddressesOf(size) == {a.address : a \in {b \in allocations : b.size = size}}

\* One group for every size that occurs, the largest first.
BySize(groups) ==
    /\ {groups[i].size : i \in DOMAIN groups} = {a.size : a \in allocations}
    /\ \A i, j \in DOMAIN groups : i < j => groups[i].size > groups[j].size

Ascending(q) == \A i, j \in DOMAIN q : i < j => q[i] < q[j]

\* The first of the addresses A, as many as a group keeps.
FirstOf(samples, A) ==
    /\ Ascending(samples)
    /\ Range(samples) \subseteq A
    /\ Len(samples) = IF Cardinality(A) < MaxSamples THEN Cardinality(A) ELSE MaxSamples
    /\ \A a \in A \ Range(samples) : \A b \in Range(samples) : b < a

\* The summary that is reported has one item per size, largest first, with the number
\* of its leaks and the lowest addresses among them, at most MaxSamples; its totals
\* are those of the leaks; nothing is reported when there is no leak.
SummaryExact ==
    pc = "done" =>
        /\ reported = {} <=> allocations = {}
        /\ \A r \in reported : config.summary =>
            /\ r.total_leaks = Cardinality(allocations)
            /\ r.total_leaked_bytes = SumSizes(allocations)
            /\ BySize(r.by_size)
            /\ \A i \in DOMAIN r.by_size :
                LET item == r.by_size[i]
                    A == AddressesOf(item.size)
                IN item.count = Cardinality(A) /\ FirstOf(item.sample_addresses, A)

\* The details that are reported list every leak once, grouped by its size.  One group
\* has no size: that of a report in which every leak is of size 0, which the loop
\* takes for the size it starts with.
DetailsExact ==
    \A r \in reported : config.details =>
        LET groups == r.leaks_by_size
            allEmpty == \A a \in allocations : a.size = 0
        IN /\ IF allEmpty THEN Len(groups) = 1 /\ groups[1].size = NoSize
              ELSE BySize(groups)
           /\ \A i \in DOMAIN groups :
                LET list == groups[i].addresses
                    addresses == [j \in DOMAIN list |-> list[j].address]
                IN /\ Ascending(addresses)
                   /\ Range(addresses) = AddressesOf(IF allEmpty THEN 0 ELSE groups[i].size)
=============================================================================
