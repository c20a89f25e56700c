-------------------------- MODULE LeakReport_proofs --------------------------
(***************************************************************************)
(* Proofs about the leak report for every set of allocations, every size   *)
(* of a pointer and every number of samples: the report is exact.          *)
(*                                                                         *)
(* The loop is an induction over the sorted leaks, and its invariant says  *)
(* what it has made of the leaks so far: the closed groups are those of    *)
(* the sizes seen but the current one, which is the smallest (GroupPart,   *)
(* ListPart); the open group holds the leaks seen of its size              *)
(* (CurrentPart).  Since the leaks are sorted, no more of a closed group's *)
(* size are to come.                                                       *)
(***************************************************************************)
EXTENDS LeakReport, FiniteSetTheorems, SequenceTheorems, TLAPS

\* The addresses of size s among the first n leaks of q, and the sizes among them.
Seen(q, n, s) == {q[i].address : i \in {k \in 1 .. n : q[k].size = s}}
SizesSeen(q, n) == {q[i].size : i \in 1 .. n}

Sorted(q) ==
    /\ q \in Seq(AllocationRecord)
    /\ \A i, j \in 1 .. Len(q) : i < j => Before(q[i], q[j])

\* The samples of the addresses A; while there are fewer than MaxSamples, all of them.
Samples(samples, A) ==
    /\ samples \in Seq(Nat)
    /\ FirstOf(samples, A)
    /\ Len(samples) < MaxSamples => Range(samples) = A

\* The list of the addresses A.
Entry == [address : Nat, type : {"rtti", "symbol", "none"}]
Listed(list, A) ==
    /\ list \in Seq(Entry)
    /\ \A i, j \in 1 .. Len(list) : i < j => list[i].address < list[j].address
    /\ {list[i].address : i \in 1 .. Len(list)} = A

\* The groups of the sizes S, the largest first.
Groups(groups, S) ==
    /\ {groups[i].size : i \in 1 .. Len(groups)} = S
    /\ \A i, j \in 1 .. Len(groups) : i < j => groups[i].size > groups[j].size

Item == [size : Nat, count : Nat, sample_addresses : Seq(Nat)]
Group == [size : Nat \cup {NoSize}, addresses : Seq(Entry)]

InputPart ==
    /\ allocations \subseteq AllocationRecord /\ \A a \in allocations : ~a.marked
    /\ IsFiniteSet(allocations)
    /\ config \in [summary : BOOLEAN, details : BOOLEAN]
    /\ pc \in {"filter", "loop", "done"}

SortPart ==
    /\ Sorted(leaked_allocations)
    /\ next \in 1 .. Len(leaked_allocations) + 1
    /\ pc = "filter" => leaked_allocations = <<>>
    /\ pc # "filter" => Range(leaked_allocations) = allocations

N == next - 1
SeenNow(s) == Seen(leaked_allocations, N, s)
Closed == SizesSeen(leaked_allocations, N) \ {current_size}

CurrentPart ==
    /\ IF N = 0 THEN current_size = 0 ELSE current_size = leaked_allocations[N].size
    /\ current_count = Cardinality(SeenNow(current_size))
    /\ Samples(current_sample_addresses, SeenNow(current_size))
    /\ current_leak_group \in Group
    /\ config.details =>
        /\ Listed(current_leak_group.addresses, SeenNow(current_size))
        /\ current_leak_group.size =
            IF N = 0 \/ leaked_allocations[1].size = 0 THEN NoSize ELSE current_size

\* The summary and the lists of the sizes S, of the first n leaks of q.
SummaryOf(items, q, n, S) ==
    /\ items \in Seq(Item) /\ Groups(items, S)
    /\ \A i \in 1 .. Len(items) :
        /\ items[i].count = Cardinality(Seen(q, n, items[i].size))
        /\ Samples(items[i].sample_addresses, Seen(q, n, items[i].size))

ListsOf(groups, q, n, S) ==
    /\ groups \in Seq(Group) /\ Groups(groups, S)
    /\ \A i \in 1 .. Len(groups) : Listed(groups[i].addresses, Seen(q, n, groups[i].size))

GroupPart == config.summary => SummaryOf(by_size, leaked_allocations, N, Closed)
ListPart == config.details => ListsOf(leaks_by_size, leaked_allocations, N, Closed)

ReportPart ==
    /\ pc # "done" => reported = {}
    /\ SummaryExact /\ DetailsExact

IInv == InputPart /\ SortPart /\ CurrentPart /\ GroupPart /\ ListPart /\ ReportPart
-----------------------------------------------------------------------------
\* The sorted leaks.
LEMMA Order ==
    ASSUME NEW q, Sorted(q), NEW i \in 1 .. Len(q), NEW j \in 1 .. Len(q), i < j
    PROVE  /\ q[i].size \in Nat /\ q[j].size \in Nat
           /\ q[i].address \in Addrs /\ q[j].address \in Addrs
           /\ q[j].size <= q[i].size
           /\ q[i].size = q[j].size => q[i].address < q[j].address
<1>1. q[i] \in AllocationRecord /\ q[j] \in AllocationRecord
    BY DEF Sorted
<1>2. /\ q[i].size \in Nat /\ q[j].size \in Nat
      /\ q[i].address \in Addrs /\ q[j].address \in Addrs
    BY <1>1, ReportAssumption DEF AllocationRecord
<1>3. Before(q[i], q[j])
    BY DEF Sorted
<1> QED
    BY <1>2, <1>3 DEF Before

LEMMA LeakTyped ==
    ASSUME NEW q, Sorted(q), NEW i \in 1 .. Len(q)
    PROVE  q[i].size \in Nat /\ q[i].address \in Addrs /\ q[i].address \in Nat
<1>1. q[i] \in AllocationRecord
    BY DEF Sorted
<1> QED
    BY <1>1, ReportAssumption DEF AllocationRecord

LEMMA SeenTyped ==
    ASSUME NEW q, Sorted(q), NEW n \in 0 .. Len(q), NEW s
    PROVE  /\ Seen(q, n, s) \subseteq Nat /\ IsFiniteSet(Seen(q, n, s))
           /\ Cardinality(Seen(q, n, s)) \in Nat
<1>1. Len(q) \in Nat
    BY DEF Sorted
<1>2. Seen(q, n, s) \subseteq Addrs
    <2> SUFFICES ASSUME NEW i \in 1 .. n PROVE q[i].address \in Addrs
        BY DEF Seen
    <2>1. i \in 1 .. Len(q)
        BY <1>1
    <2> QED
        BY <2>1, LeakTyped
<1>3. IsFiniteSet(Seen(q, n, s))
    BY <1>2, ReportAssumption, FS_Subset
<1> QED
    BY <1>2, <1>3, ReportAssumption, FS_CardinalityType

LEMMA SeenStep ==
    ASSUME NEW q, Sorted(q), NEW n \in 0 .. Len(q) - 1
    PROVE  /\ SizesSeen(q, n + 1) = SizesSeen(q, n) \cup {q[n + 1].size}
           /\ Seen(q, n + 1, q[n + 1].size)
                = Seen(q, n, q[n + 1].size) \cup {q[n + 1].address}
           /\ \A s : s # q[n + 1].size => Seen(q, n + 1, s) = Seen(q, n, s)
           /\ \A x \in Seen(q, n, q[n + 1].size) : x < q[n + 1].address
<1>1. Len(q) \in Nat /\ n \in Nat
    BY DEF Sorted
<1>2. 1 .. n + 1 = 1 .. n \cup {n + 1}
    BY <1>1
<1>3. SizesSeen(q, n + 1) = SizesSeen(q, n) \cup {q[n + 1].size}
    BY <1>2 DEF SizesSeen
<1>4. Seen(q, n + 1, q[n + 1].size) = Seen(q, n, q[n + 1].size) \cup {q[n + 1].address}
    BY <1>2 DEF Seen
<1>5. \A s : s # q[n + 1].size => Seen(q, n + 1, s) = Seen(q, n, s)
    BY <1>2 DEF Seen
<1>6. ASSUME NEW i \in 1 .. n, q[i].size = q[n + 1].size
      PROVE  q[i].address < q[n + 1].address
    <2>1. i \in 1 .. Len(q) /\ n + 1 \in 1 .. Len(q) /\ i < n + 1
        BY <1>1
    <2> QED
        BY <1>6, <2>1, Order
<1> QED
    BY <1>3, <1>4, <1>5, <1>6 DEF Seen

\* The current size is the smallest one seen, and a smaller one is new.
LEMMA SizesLarger ==
    ASSUME NEW q, Sorted(q), NEW n \in 1 .. Len(q)
    PROVE  /\ q[n].size \in SizesSeen(q, n) /\ q[n].address \in Seen(q, n, q[n].size)
           /\ \A s \in SizesSeen(q, n) : s \in Nat /\ q[n].size <= s
<1>1. Len(q) \in Nat /\ n \in 1 .. n
    BY DEF Sorted
<1>2. ASSUME NEW i \in 1 .. n PROVE q[i].size \in Nat /\ q[n].size <= q[i].size
    <2>1. CASE i = n
        BY <2>1, LeakTyped
    <2>2. CASE i # n
        <3>1. i \in 1 .. Len(q) /\ i < n
            BY <1>1, <2>2
        <3> QED
            BY <3>1, Order
    <2> QED
        BY <2>1, <2>2
<1> QED
    BY <1>1, <1>2 DEF SizesSeen, Seen

LEMMA NewSize ==
    ASSUME NEW q, Sorted(q), NEW n \in 1 .. Len(q) - 1, q[n + 1].size # q[n].size
    PROVE  /\ q[n + 1].size \notin SizesSeen(q, n)
           /\ Seen(q, n, q[n + 1].size) = {}
<1>1. Len(q) \in Nat /\ n \in 1 .. Len(q) /\ n + 1 \in 1 .. Len(q) /\ n < n + 1
    BY DEF Sorted
<1>2. q[n + 1].size < q[n].size /\ q[n].size \in Nat /\ q[n + 1].size \in Nat
    BY <1>1, Order
<1>3. \A s \in SizesSeen(q, n) : s # q[n + 1].size
    BY <1>1, <1>2, SizesLarger
<1> QED
    BY <1>3 DEF SizesSeen, Seen

-----------------------------------------------------------------------------
\* Sequences that grow by one.
LEMMA Grow ==
    ASSUME NEW S, NEW q \in Seq(S), NEW x \in S
    PROVE  /\ Append(q, x) \in Seq(S) /\ Len(q) \in Nat /\ Len(Append(q, x)) = Len(q) + 1
           /\ Append(q, x)[Len(q) + 1] = x
           /\ \A i \in 1 .. Len(q) : Append(q, x)[i] = q[i]
           /\ 1 .. Len(Append(q, x)) = 1 .. Len(q) \cup {Len(q) + 1}
           /\ \A i \in 1 .. Len(q) : i # Len(q) + 1 /\ ~(Len(q) + 1 < i)
<1>1. Len(q) \in Nat
    OBVIOUS
<1>2. /\ Append(q, x) \in Seq(S) /\ Len(Append(q, x)) = Len(q) + 1
      /\ Append(q, x)[Len(q) + 1] = x
      /\ \A i \in 1 .. Len(q) : Append(q, x)[i] = q[i]
    BY AppendProperties
<1> QED
    BY <1>1, <1>2

LEMMA SampleStep ==
    ASSUME NEW samples, NEW A, Samples(samples, A), A \subseteq Nat, IsFiniteSet(A),
           NEW a, a.address \in Nat, \A x \in A : x < a.address
    PROVE  Samples(Sampled(samples, a), A \cup {a.address})
<1> DEFINE x == a.address
           B == A \cup {x}
<1>1. /\ IsFiniteSet(B) /\ Cardinality(B) = Cardinality(A) + 1
      /\ Cardinality(A) \in Nat /\ MaxSamples \in Nat
    <2>1. x \notin A
        OBVIOUS
    <2>2. IsFiniteSet(B) /\ Cardinality(B) = Cardinality(A) + 1
        BY <2>1, FS_AddElement
    <2> QED
        BY <2>2, FS_CardinalityType, ReportAssumption
<1>2. samples \in Seq(Nat) /\ Len(samples) \in Nat
    BY DEF Samples
<1>3. Range(samples) = {samples[i] : i \in 1 .. Len(samples)} /\ Range(samples) \subseteq A
    BY <1>2 DEF Range, Samples, FirstOf
<1>4. CASE Len(samples) < MaxSamples
    <2> DEFINE q == Append(samples, x)
    <2>1. /\ q \in Seq(Nat) /\ Len(q) = Len(samples) + 1 /\ q[Len(samples) + 1] = x
          /\ \A i \in 1 .. Len(samples) : q[i] = samples[i]
          /\ 1 .. Len(q) = 1 .. Len(samples) \cup {Len(samples) + 1}
          /\ \A i \in 1 .. Len(samples) :
                i # Len(samples) + 1 /\ ~(Len(samples) + 1 < i)
        BY <1>2, Grow
    <2> HIDE DEF q
    <2>2. Range(q) = Range(samples) \cup {x}
        <3>1. Range(q) = {q[i] : i \in 1 .. Len(q)}
            BY <2>1 DEF Range
        <3>2. Range(q) = {q[i] : i \in 1 .. Len(samples)} \cup {q[Len(samples) + 1]}
            BY <2>1, <3>1
        <3> QED
            BY <1>3, <2>1, <3>2
    <2>3. Range(samples) = A /\ Range(q) = B
        BY <1>4, <2>2 DEF Samples
    <2>4. Ascending(q)
        <3>1. \A i \in 1 .. Len(samples) : samples[i] < x
            BY <1>3
        <3>2. \A i, j \in 1 .. Len(samples) : i < j => samples[i] < samples[j]
            BY <1>2 DEF Samples, FirstOf, Ascending
        <3>3. ASSUME NEW i \in 1 .. Len(q), NEW j \in 1 .. Len(q), i < j
              PROVE  q[i] < q[j]
            <4>1. i \in 1 .. Len(samples)
                BY <1>2, <2>1, <3>3
            <4>2. CASE j = Len(samples) + 1
                BY <2>1, <3>1, <4>1, <4>2
            <4>3. CASE j \in 1 .. Len(samples)
                BY <2>1, <3>2, <3>3, <4>1, <4>3
            <4> QED
                BY <2>1, <4>2, <4>3
        <3> QED
            BY <2>1, <3>3 DEF Ascending
    <2>5. Len(samples) = Cardinality(A)
        BY <1>1, <1>2, <1>4 DEF Samples, FirstOf
    <2>6. Len(q) = IF Cardinality(B) < MaxSamples THEN Cardinality(B) ELSE MaxSamples
        BY <1>1, <1>4, <2>1, <2>5
    <2>7. Samples(q, B)
        BY <2>1, <2>3, <2>4, <2>6 DEF Samples, FirstOf
    <2> QED
        BY <1>4, <2>7 DEF Sampled, q
<1>5. CASE ~(Len(samples) < MaxSamples)
    <2>1. Len(samples) = MaxSamples /\ ~(Cardinality(A) < MaxSamples)
        BY <1>1, <1>2, <1>5 DEF Samples, FirstOf
    <2>2. Len(samples) = IF Cardinality(B) < MaxSamples THEN Cardinality(B) ELSE MaxSamples
        BY <1>1, <2>1
    <2>3. \A y \in B \ Range(samples) : \A b \in Range(samples) : b < y
        BY <1>3 DEF Samples, FirstOf
    <2>4. Samples(samples, B)
        BY <1>2, <1>3, <1>5, <2>2, <2>3 DEF Samples, FirstOf
    <2> QED
        BY <1>5, <2>4 DEF Sampled
<1> QED
    BY <1>4, <1>5

LEMMA ListStep ==
    ASSUME NEW list, NEW A, Listed(list, A), NEW e \in Entry, \A x \in A : x < e.address
    PROVE  Listed(Append(list, e), A \cup {e.address})
<1> DEFINE q == Append(list, e)
<1>1. list \in Seq(Entry) /\ Len(list) \in Nat
    BY DEF Listed
<1>2. /\ q \in Seq(Entry) /\ Len(q) = Len(list) + 1 /\ q[Len(list) + 1] = e
      /\ \A i \in 1 .. Len(list) : q[i] = list[i]
      /\ 1 .. Len(q) = 1 .. Len(list) \cup {Len(list) + 1}
      /\ \A i \in 1 .. Len(list) : i # Len(list) + 1 /\ ~(Len(list) + 1 < i)
    BY <1>1, Grow
<1> HIDE DEF q
<1>3. {q[i].address : i \in 1 .. Len(q)} = A \cup {e.address}
    BY <1>2 DEF Listed
<1>4. ASSUME NEW i \in 1 .. Len(q), NEW j \in 1 .. Len(q), i < j
      PROVE  q[i].address < q[j].address
    <2>1. i \in 1 .. Len(list)
        BY <1>1, <1>2, <1>4
    <2>2. CASE j = Len(list) + 1
        BY <1>2, <2>1, <2>2 DEF Listed
    <2>3. CASE j \in 1 .. Len(list)
        BY <1>2, <1>4, <2>1, <2>3 DEF Listed
    <2> QED
        BY <1>2, <2>2, <2>3
<1>5. Listed(q, A \cup {e.address})
    BY <1>2, <1>3, <1>4 DEF Listed
<1> QED
    BY <1>5 DEF q

LEMMA GroupsStep ==
    ASSUME NEW T, NEW groups \in Seq(T), NEW S, Groups(groups, S), NEW g \in T,
           \A s \in S : s > g.size
    PROVE  /\ Groups(Append(groups, g), S \cup {g.size})
           /\ Append(groups, g) \in Seq(T)
           /\ \A i \in 1 .. Len(Append(groups, g)) :
                \/ Append(groups, g)[i] = g
                \/ i \in 1 .. Len(groups) /\ Append(groups, g)[i] = groups[i]
<1> DEFINE q == Append(groups, g)
<1>1. Len(groups) \in Nat
    OBVIOUS
<1>2. /\ q \in Seq(T) /\ Len(q) = Len(groups) + 1 /\ q[Len(groups) + 1] = g
      /\ \A i \in 1 .. Len(groups) : q[i] = groups[i]
      /\ 1 .. Len(q) = 1 .. Len(groups) \cup {Len(groups) + 1}
      /\ \A i \in 1 .. Len(groups) : i # Len(groups) + 1 /\ ~(Len(groups) + 1 < i)
    BY <1>1, Grow
<1> HIDE DEF q
<1>3. {q[i].size : i \in 1 .. Len(q)} = S \cup {g.size}
    BY <1>2 DEF Groups
<1>4. ASSUME NEW i \in 1 .. Len(q), NEW j \in 1 .. Len(q), i < j
      PROVE  q[i].size > q[j].size
    <2>1. i \in 1 .. Len(groups)
        BY <1>1, <1>2, <1>4
    <2>2. CASE j = Len(groups) + 1
        BY <1>2, <2>1, <2>2 DEF Groups
    <2>3. CASE j \in 1 .. Len(groups)
        BY <1>2, <1>4, <2>1, <2>3 DEF Groups
    <2> QED
        BY <1>2, <2>2, <2>3
<1>5. Groups(q, S \cup {g.size}) /\ q \in Seq(T)
    BY <1>2, <1>3, <1>4 DEF Groups
<1>6. \A i \in 1 .. Len(q) : q[i] = g \/ (i \in 1 .. Len(groups) /\ q[i] = groups[i])
    BY <1>2
<1> QED
    BY <1>5, <1>6 DEF q

-----------------------------------------------------------------------------
\* Closed groups stay right when a leak of another size is seen.
LEMMA ClosedKept ==
    ASSUME NEW q, Sorted(q), NEW n \in 0 .. Len(q) - 1, NEW S, q[n + 1].size \notin S,
           NEW items, NEW groups
    PROVE  /\ SummaryOf(items, q, n, S) => SummaryOf(items, q, n + 1, S)
           /\ ListsOf(groups, q, n, S) => ListsOf(groups, q, n + 1, S)
<1>1. \A s \in S : Seen(q, n + 1, s) = Seen(q, n, s)
    BY SeenStep
<1>2. ASSUME Groups(items, S), NEW i \in 1 .. Len(items) PROVE items[i].size \in S
    BY <1>2 DEF Groups
<1>3. ASSUME Groups(groups, S), NEW i \in 1 .. Len(groups) PROVE groups[i].size \in S
    BY <1>3 DEF Groups
<1> QED
    BY <1>1, <1>2, <1>3 DEF SummaryOf, ListsOf

\* flush_group closes the current group.
LEMMA CurrentFacts ==
    ASSUME SortPart, CurrentPart
    PROVE  /\ N \in 0 .. Len(leaked_allocations) /\ N \in Nat /\ next = N + 1
           /\ current_size \in Nat /\ current_count \in Nat
           /\ N = 0 => current_count = 0 /\ Closed = {}
                       /\ SizesSeen(leaked_allocations, N) = {}
                       /\ SeenNow(current_size) = {}
           /\ N > 0 => /\ current_count > 0 /\ current_size = leaked_allocations[N].size
                       /\ SizesSeen(leaked_allocations, N) = Closed \cup {current_size}
                       /\ \A s \in Closed : s \in Nat /\ s > current_size
<1> DEFINE q == leaked_allocations
<1>1. /\ Sorted(q) /\ Len(q) \in Nat /\ N \in 0 .. Len(q) /\ N \in Nat /\ next = N + 1
    BY DEF SortPart, Sorted, N
<1>2. IsFiniteSet(SeenNow(current_size)) /\ current_count \in Nat
    BY <1>1, SeenTyped DEF SeenNow, CurrentPart
<1>3. CASE N = 0
    <2>1. SizesSeen(q, N) = {} /\ SeenNow(current_size) = {}
        BY <1>3 DEF SizesSeen, SeenNow, Seen
    <2>2. current_count = 0
        BY <2>1, FS_EmptySet DEF CurrentPart
    <2>3. current_size = 0
        BY <1>3 DEF CurrentPart
    <2> QED
        BY <1>1, <1>2, <1>3, <2>1, <2>2, <2>3 DEF Closed
<1>4. CASE N > 0
    <2>1. N \in 1 .. Len(q) /\ current_size = q[N].size
        BY <1>1, <1>4 DEF CurrentPart
    <2>2. /\ q[N].size \in SizesSeen(q, N) /\ q[N].address \in Seen(q, N, q[N].size)
          /\ \A s \in SizesSeen(q, N) : s \in Nat /\ q[N].size <= s
        BY <1>1, <2>1, SizesLarger
    <2>3. current_count # 0
        BY <1>2, <2>1, <2>2, FS_EmptySet DEF SeenNow, CurrentPart
    <2>4. \A s \in Closed : s \in Nat /\ s > current_size
        BY <2>1, <2>2 DEF Closed
    <2>5. current_size \in Nat /\ current_count > 0
        BY <1>2, <2>1, <2>2, <2>3
    <2>6. SizesSeen(q, N) = Closed \cup {current_size}
        BY <2>1, <2>2 DEF Closed
    <2> QED
        BY <1>1, <1>2, <1>4, <2>1, <2>4, <2>5, <2>6
<1> QED
    BY <1>1, <1>3, <1>4

LEMMA FlushSummary ==
    ASSUME SortPart, CurrentPart, GroupPart, config.summary
    PROVE  SummaryOf(Flushed(config.summary, by_size, SummaryItem), leaked_allocations, N,
                     SizesSeen(leaked_allocations, N))
<1> DEFINE q == leaked_allocations
<1>1. SummaryOf(by_size, q, N, Closed)
    BY DEF GroupPart
<1>2. CASE N = 0
    BY <1>1, <1>2, CurrentFacts DEF Flushed
<1>3. CASE N > 0
    <2>1. /\ current_count > 0 /\ current_size \in Nat /\ current_count \in Nat
          /\ SizesSeen(q, N) = Closed \cup {current_size}
          /\ \A s \in Closed : s > current_size
        BY <1>3, CurrentFacts
    <2>2. /\ current_count = Cardinality(Seen(q, N, current_size))
          /\ Samples(current_sample_addresses, Seen(q, N, current_size))
        BY DEF CurrentPart, SeenNow
    <2>3. current_sample_addresses \in Seq(Nat)
        BY <2>2 DEF Samples
    <2>4. PICK g : g = SummaryItem
        OBVIOUS
    <2>5. /\ g \in Item /\ g.size = current_size /\ g.count = current_count
          /\ g.sample_addresses = current_sample_addresses
        BY <2>1, <2>3, <2>4 DEF SummaryItem, Item
    <2>6. /\ Groups(Append(by_size, g), SizesSeen(q, N)) /\ Append(by_size, g) \in Seq(Item)
          /\ \A i \in 1 .. Len(Append(by_size, g)) :
                \/ Append(by_size, g)[i] = g
                \/ i \in 1 .. Len(by_size) /\ Append(by_size, g)[i] = by_size[i]
        BY <1>1, <2>1, <2>5, GroupsStep DEF SummaryOf
    <2>7. SummaryOf(Append(by_size, g), q, N, SizesSeen(q, N))
        BY <1>1, <2>2, <2>5, <2>6 DEF SummaryOf
    <2> QED
        BY <2>1, <2>4, <2>7 DEF Flushed
<1>4. N = 0 \/ N > 0
    BY CurrentFacts
<1> QED
    BY <1>2, <1>3, <1>4

LEMMA FlushLists ==
    ASSUME SortPart, CurrentPart, ListPart, config.details,
           N = 0 \/ leaked_allocations[1].size # 0
    PROVE  ListsOf(Flushed(config.details, leaks_by_size, current_leak_group),
                   leaked_allocations, N, SizesSeen(leaked_allocations, N))
<1> DEFINE q == leaked_allocations
<1>1. ListsOf(leaks_by_size, q, N, Closed)
    BY DEF ListPart
<1>2. CASE N = 0
    BY <1>1, <1>2, CurrentFacts DEF Flushed
<1>3. CASE N > 0
    <2>1. /\ current_count > 0
          /\ SizesSeen(q, N) = Closed \cup {current_size}
          /\ \A s \in Closed : s > current_size
        BY <1>3, CurrentFacts
    <2>2. PICK g : g = current_leak_group
        OBVIOUS
    <2>3. /\ g \in Group /\ g.size = current_size
          /\ Listed(g.addresses, Seen(q, N, current_size))
        BY <1>3, <2>2 DEF CurrentPart, SeenNow
    <2>4. /\ Groups(Append(leaks_by_size, g), SizesSeen(q, N))
          /\ Append(leaks_by_size, g) \in Seq(Group)
          /\ \A i \in 1 .. Len(Append(leaks_by_size, g)) :
                \/ Append(leaks_by_size, g)[i] = g
                \/ i \in 1 .. Len(leaks_by_size)
                   /\ Append(leaks_by_size, g)[i] = leaks_by_size[i]
        BY <1>1, <2>1, <2>3, GroupsStep DEF ListsOf
    <2>5. ListsOf(Append(leaks_by_size, g), q, N, SizesSeen(q, N))
        BY <1>1, <2>3, <2>4 DEF ListsOf
    <2> QED
        BY <2>1, <2>2, <2>5 DEF Flushed
<1>4. N = 0 \/ N > 0
    BY CurrentFacts
<1> QED
    BY <1>2, <1>3, <1>4

-----------------------------------------------------------------------------
LEMMA DetailStep ==
    ASSUME NEW group \in Group, NEW A, Listed(group.addresses, A),
           NEW a, a.address \in Nat, \A x \in A : x < a.address,
           NEW type \in {"rtti", "symbol", "none"}
    PROVE  /\ Detail(group, a, type) \in Group
           /\ Detail(group, a, type).size = group.size
           /\ Listed(Detail(group, a, type).addresses, A \cup {a.address})
<1>1. PICK e : e = [address |-> a.address, type |-> type]
    OBVIOUS
<1>2. e \in Entry /\ e.address = a.address
    BY <1>1 DEF Entry
<1>3. group.addresses \in Seq(Entry)
    BY DEF Listed
<1>4. PICK list : list = Append(group.addresses, e)
    OBVIOUS
<1>5. list \in Seq(Entry)
    BY <1>2, <1>3, <1>4, Grow
<1>6. Listed(list, A \cup {a.address})
    BY <1>2, <1>4, ListStep
<1>7. Detail(group, a, type) = [group EXCEPT !.addresses = list]
    BY <1>1, <1>4 DEF Detail
<1>8. /\ [group EXCEPT !.addresses = list] \in Group
      /\ [group EXCEPT !.addresses = list].size = group.size
      /\ [group EXCEPT !.addresses = list].addresses = list
    BY <1>5 DEF Group
<1> QED
    BY <1>6, <1>7, <1>8

LEMMA EmptyGroup ==
    /\ Samples(<<>>, {})
    /\ Listed(<<>>, {})
    /\ Groups(<<>>, {})
<1>1. Range(<<>>) = {} /\ Ascending(<<>>)
    BY DEF Range, Ascending
<1>2. Cardinality({}) = 0 /\ MaxSamples \in Nat
    BY FS_EmptySet, ReportAssumption
<1>3. <<>> \in Seq(Nat) /\ <<>> \in Seq(Entry) /\ Len(<<>>) = 0 /\ 1 .. 0 = {}
    OBVIOUS
<1>4. Samples(<<>>, {})
    BY <1>1, <1>2, <1>3 DEF Samples, FirstOf
<1> QED
    BY <1>3, <1>4 DEF Listed, Groups

\* What the loop has before it adds the leak a = q[n + 1] to the open group: that group
\* holds what was seen of a's size, and every other size seen is closed.
OpenedFor(q, n, a) ==
    LET new == a.size # current_size
        group == IF new /\ config.details
                 THEN [size |-> a.size, addresses |-> <<>>] ELSE current_leak_group
        A == Seen(q, n, a.size)
        S == SizesSeen(q, n + 1) \ {a.size}
    IN  /\ (IF new THEN 0 ELSE current_count) = Cardinality(A)
        /\ Samples(IF new THEN <<>> ELSE current_sample_addresses, A)
        /\ group \in Group
        /\ config.details =>
             /\ Listed(group.addresses, A)
             /\ group.size = IF q[1].size = 0 THEN NoSize ELSE a.size
        /\ config.summary => SummaryOf(by_size', q, n, S)
        /\ config.details => ListsOf(leaks_by_size', q, n, S)

LEMMA Opened ==
    ASSUME InputPart, SortPart, CurrentPart, GroupPart, ListPart, Iterate,
           NEW n, n = N, NEW q, q = leaked_allocations, NEW a, a = q[n + 1]
    PROVE  OpenedFor(q, n, a)
<1> DEFINE A == Seen(q, n, a.size)
           S == SizesSeen(q, n + 1) \ {a.size}
<1>1. /\ Sorted(q) /\ Len(q) \in Nat /\ n \in Nat /\ n \in 0 .. Len(q) - 1
      /\ n + 1 \in 1 .. Len(q)
    BY CurrentFacts DEF Iterate, SortPart, Sorted
<1>0. a = leaked_allocations[next]
    BY CurrentFacts
<1>2. a.size \in Nat
    BY <1>1, LeakTyped
<1>3. SizesSeen(q, n + 1) = SizesSeen(q, n) \cup {a.size}
    BY <1>1, SeenStep
<1>4. CASE a.size = current_size
    <2>1. S = Closed
        BY <1>3, <1>4 DEF Closed
    <2>2. by_size' = by_size /\ leaks_by_size' = leaks_by_size
        BY <1>0, <1>4 DEF Iterate
    <2>3. A = SeenNow(current_size)
        BY <1>4 DEF SeenNow
    <2>4. config.details =>
            current_leak_group.size = IF q[1].size = 0 THEN NoSize ELSE a.size
        BY <1>1, <1>4 DEF CurrentPart
    <2>5. /\ config.summary => SummaryOf(by_size', q, n, S)
          /\ config.details => ListsOf(leaks_by_size', q, n, S)
        BY <2>1, <2>2 DEF GroupPart, ListPart
    <2> QED
        BY <1>4, <2>3, <2>4, <2>5 DEF CurrentPart, OpenedFor
<1>5. CASE a.size # current_size
    <2>1. A = {} /\ a.size \notin SizesSeen(q, n)
        <3>1. CASE n = 0
            BY <3>1 DEF Seen, SizesSeen
        <3>2. CASE n # 0
            <4>1. n \in 1 .. Len(q) - 1 /\ q[n + 1].size # q[n].size
                BY <1>1, <1>5, <3>2, CurrentFacts
            <4> QED
                BY <1>1, <4>1, NewSize
        <3> QED
            BY <3>1, <3>2
    <2>2. n = 0 \/ q[1].size # 0
        <3> SUFFICES ASSUME n # 0 PROVE q[1].size # 0
            OBVIOUS
        <3>1. 1 \in 1 .. Len(q) /\ 1 < n + 1 /\ n \in 1 .. Len(q) /\ n < n + 1
            BY <1>1
        <3>2. q[n + 1].size <= q[n].size /\ q[n].size \in Nat /\ q[n].size = current_size
            BY <1>1, <3>1, Order, CurrentFacts
        <3>3. q[n].size <= q[1].size /\ q[1].size \in Nat
            <4>1. q[1].size \in SizesSeen(q, n)
                BY <1>1, <3>1 DEF SizesSeen
            <4> QED
                BY <1>1, <3>1, <4>1, SizesLarger
        <3> QED
            BY <1>2, <1>5, <3>2, <3>3
    <2>3. q[1].size # 0
        <3>1. CASE n = 0
            <4>1. a = q[1] /\ current_size = 0
                BY <3>1 DEF CurrentPart
            <4> QED
                BY <1>5, <4>1
        <3> QED
            BY <2>2, <3>1
    <2>4. S = SizesSeen(q, n)
        BY <1>3, <2>1
    <2>5. /\ by_size' = Flushed(config.summary, by_size, SummaryItem)
          /\ leaks_by_size' = Flushed(config.details, leaks_by_size, current_leak_group)
        BY <1>0, <1>5 DEF Iterate
    <2>6. config.summary => SummaryOf(by_size', q, n, S)
        BY <2>4, <2>5, FlushSummary
    <2>7. config.details => ListsOf(leaks_by_size', q, n, S)
        BY <2>2, <2>4, <2>5, FlushLists
    <2>8. Cardinality(A) = 0 /\ Samples(<<>>, A) /\ Listed(<<>>, A)
        BY <2>1, EmptyGroup, FS_EmptySet
    <2>9. [size |-> a.size, addresses |-> <<>>] \in Group
        BY <1>2 DEF Group
    <2>10. current_leak_group \in Group
        BY DEF CurrentPart
    <2> QED
        BY <1>5, <2>3, <2>6, <2>7, <2>8, <2>9, <2>10 DEF OpenedFor
<1> QED
    BY <1>4, <1>5

-----------------------------------------------------------------------------
LEMMA IterateKept ==
    ASSUME IInv, Iterate
    PROVE  IInv'
<1> USE DEF IInv
<1>1. PICK n, q : n = N /\ q = leaked_allocations
    OBVIOUS
<1>2. PICK a : a = q[n + 1]
    OBVIOUS
<1>3. /\ Sorted(q) /\ Len(q) \in Nat /\ n \in Nat /\ n \in 0 .. Len(q) - 1
      /\ n + 1 \in 1 .. Len(q) /\ next = n + 1 /\ a = leaked_allocations[next]
    BY <1>1, <1>2, CurrentFacts DEF Iterate, SortPart, Sorted
<1>4. /\ UNCHANGED <<allocations, config, pc, leaked_allocations, reported>>
      /\ next' = next + 1 /\ pc = "loop"
    BY DEF Iterate, input
<1>5. N' = n + 1 /\ leaked_allocations' = q
    BY <1>1, <1>3, <1>4 DEF N
<1>6. /\ a.size \in Nat /\ a.address \in Nat
      /\ Seen(q, n + 1, a.size) = Seen(q, n, a.size) \cup {a.address}
      /\ \A x \in Seen(q, n, a.size) : x < a.address
    BY <1>2, <1>3, LeakTyped, SeenStep
<1> DEFINE new == a.size # current_size
           group == IF new /\ config.details
                    THEN [size |-> a.size, addresses |-> <<>>] ELSE current_leak_group
           samples == IF new THEN <<>> ELSE current_sample_addresses
           A == Seen(q, n, a.size)
           S == SizesSeen(q, n + 1) \ {a.size}
<1>7. /\ (IF new THEN 0 ELSE current_count) = Cardinality(A)
      /\ Samples(samples, A)
      /\ group \in Group
      /\ config.details => /\ Listed(group.addresses, A)
                           /\ group.size = IF q[1].size = 0 THEN NoSize ELSE a.size
      /\ config.summary => SummaryOf(by_size', q, n, S)
      /\ config.details => ListsOf(leaks_by_size', q, n, S)
    <2>1. OpenedFor(q, n, a)
        BY <1>1, <1>2, Opened
    <2> QED
        BY <2>1 DEF OpenedFor
<1>8. /\ current_size' = a.size
      /\ current_count' = (IF new THEN 0 ELSE current_count) + 1
      /\ current_sample_addresses' = Sampled(samples, a)
    BY <1>3 DEF Iterate
<1>9. \/ config.details /\ \E type \in {"rtti", "symbol", "none"} :
            current_leak_group' = Detail(group, a, type)
      \/ ~config.details /\ current_leak_group' = current_leak_group
    BY <1>3 DEF Iterate
<1> HIDE DEF new, group, samples, A, S
<1>10. InputPart' /\ SortPart'
    BY <1>1, <1>3, <1>4 DEF InputPart, SortPart
<1>11. ReportPart'
    BY <1>4 DEF ReportPart, SummaryExact, DetailsExact
<1>12. SeenNow(current_size)' = A \cup {a.address} /\ Closed' = S
    BY <1>5, <1>6, <1>8 DEF SeenNow, Closed, A, S
<1>13. A \subseteq Nat /\ IsFiniteSet(A) /\ \A x \in A : x < a.address
    <2>1. n \in 0 .. Len(q)
        BY <1>3
    <2> QED
        BY <1>3, <1>6, <2>1, SeenTyped DEF A
<1>14. CurrentPart'
    <2>1. IF N' = 0 THEN current_size' = 0 ELSE current_size' = leaked_allocations'[N'].size
        <3>1. N' # 0 /\ leaked_allocations'[N'].size = q[n + 1].size
            BY <1>3, <1>5
        <3> QED
            BY <1>2, <1>8, <3>1
    <2>2. current_count' = Cardinality(SeenNow(current_size)')
        <3>1. a.address \notin A
            BY <1>6, <1>13
        <3>2. Cardinality(A \cup {a.address}) = Cardinality(A) + 1
            BY <1>13, <3>1, FS_AddElement
        <3> QED
            BY <1>7, <1>8, <1>12, <3>2
    <2>3. Samples(current_sample_addresses, SeenNow(current_size))'
        <3>1. Samples(Sampled(samples, a), A \cup {a.address})
            BY <1>6, <1>7, <1>13, SampleStep
        <3> QED
            BY <1>8, <1>12, <3>1 DEF Samples, FirstOf
    <2>4. current_leak_group' \in Group
        <3>1. CASE config.details
            <4>1. PICK type \in {"rtti", "symbol", "none"} :
                    current_leak_group' = Detail(group, a, type)
                BY <1>9, <3>1
            <4>2. Detail(group, a, type) \in Group
                BY <1>6, <1>7, <1>13, <3>1, DetailStep
            <4> QED
                BY <4>1, <4>2
        <3>2. CASE ~config.details
            BY <1>9, <3>2 DEF CurrentPart
        <3> QED
            BY <3>1, <3>2
    <2>5. ASSUME config'.details
          PROVE  /\ Listed(current_leak_group.addresses, SeenNow(current_size))'
                 /\ current_leak_group'.size =
                      IF N' = 0 \/ leaked_allocations'[1].size = 0 THEN NoSize
                      ELSE current_size'
        <3>1. config.details
            BY <1>4, <2>5
        <3>2. PICK type \in {"rtti", "symbol", "none"} :
                current_leak_group' = Detail(group, a, type)
            BY <1>9, <3>1
        <3>3. /\ current_leak_group'.size = group.size
              /\ Listed(current_leak_group'.addresses, A \cup {a.address})
            BY <1>6, <1>7, <1>13, <3>1, <3>2, DetailStep
        <3>4. Listed(current_leak_group.addresses, SeenNow(current_size))'
            BY <1>12, <3>3 DEF Listed
        <3>5. N' # 0
            BY <1>3, <1>5
        <3> QED
            BY <1>5, <1>7, <1>8, <3>1, <3>3, <3>4, <3>5
    <2> QED
        BY <2>1, <2>2, <2>3, <2>4, <2>5 DEF CurrentPart
<1>15. q[n + 1].size \notin S
    BY <1>2 DEF S
<1>16. /\ config.summary => SummaryOf(by_size', q, n + 1, S)
       /\ config.details => ListsOf(leaks_by_size', q, n + 1, S)
    BY <1>3, <1>7, <1>15, ClosedKept
<1>17. GroupPart' /\ ListPart'
    BY <1>4, <1>5, <1>12, <1>16 DEF GroupPart, ListPart, SummaryOf, ListsOf
<1> QED
    BY <1>10, <1>11, <1>14, <1>17

LEMMA LeaksAre == InputPart => Leaks = allocations
    BY DEF InputPart, Leaks

LEMMA FilterKept ==
    ASSUME IInv, FilterAndSort
    PROVE  IInv'
<1> USE DEF IInv
<1>1. /\ UNCHANGED <<allocations, config, next, current_size, current_count,
                     current_sample_addresses, current_leak_group, by_size, leaks_by_size,
                     reported>>
      /\ pc = "filter" /\ pc' = "loop"
    BY DEF FilterAndSort, input, loop
<1>2. PICK q : q = leaked_allocations' /\ q \in InOrder(allocations)
    BY LeaksAre DEF FilterAndSort
<1>3. Cardinality(allocations) \in Nat
    BY FS_CardinalityType DEF InputPart
<1>4. q \in Seq(allocations) /\ DOMAIN q = 1 .. Len(q) /\ Len(q) \in Nat
    BY <1>2, <1>3 DEF InOrder
<1>5. q \in Seq(AllocationRecord)
    BY <1>4 DEF InputPart
<1>6. Sorted(q) /\ Range(q) = allocations
    BY <1>2, <1>4, <1>5 DEF InOrder, Sorted
<1>7. next = 1 /\ N = 0 /\ N' = 0
    BY <1>1 DEF SortPart, N
<1>8. SortPart'
    BY <1>1, <1>2, <1>4, <1>6, <1>7 DEF SortPart, Sorted
<1>9. /\ \A s : Seen(leaked_allocations, N, s) = {} /\ Seen(q, 0, s) = {}
      /\ SizesSeen(leaked_allocations, N) = {} /\ SizesSeen(q, 0) = {}
    BY <1>7 DEF Seen, SizesSeen
<1>10. /\ SeenNow(current_size)' = {} /\ SeenNow(current_size) = {}
       /\ Closed' = {} /\ Closed = {}
    BY <1>1, <1>2, <1>7, <1>9 DEF SeenNow, Closed
<1>11. CurrentPart'
    BY <1>1, <1>7, <1>10 DEF CurrentPart, Samples, FirstOf, Listed
<1>12. ASSUME config.summary PROVE SummaryOf(by_size, q, 0, {})
    BY <1>9, <1>10, <1>12 DEF GroupPart, SummaryOf, Groups
<1>13. ASSUME config.details PROVE ListsOf(leaks_by_size, q, 0, {})
    BY <1>9, <1>10, <1>13 DEF ListPart, ListsOf, Groups
<1>14. GroupPart' /\ ListPart'
    BY <1>1, <1>2, <1>7, <1>10, <1>12, <1>13 DEF GroupPart, ListPart, SummaryOf, ListsOf
<1>15. InputPart' /\ ReportPart'
    BY <1>1 DEF InputPart, ReportPart, SummaryExact, DetailsExact
<1> QED
    BY <1>8, <1>11, <1>14, <1>15

-----------------------------------------------------------------------------
\* When all leaks have been seen, what was seen is the reference.
LEMMA AllSeen ==
    ASSUME NEW q, Sorted(q), Range(q) = allocations
    PROVE  /\ SizesSeen(q, Len(q)) = {a.size : a \in allocations}
           /\ \A s : Seen(q, Len(q), s) = AddressesOf(s)
<1>1. allocations = {q[i] : i \in 1 .. Len(q)}
    BY DEF Sorted, Range
<1> QED
    BY <1>1 DEF SizesSeen, Seen, AddressesOf

LEMMA ListExact ==
    ASSUME NEW list, NEW A, Listed(list, A)
    PROVE  LET addresses == [j \in DOMAIN list |-> list[j].address]
           IN  Ascending(addresses) /\ Range(addresses) = A
<1>1. DOMAIN list = 1 .. Len(list)
    BY DEF Listed
<1> QED
    BY <1>1 DEF Listed, Ascending, Range

LEMMA FinishKept ==
    ASSUME IInv, Finish
    PROVE  IInv'
<1> USE DEF IInv
<1>1. /\ UNCHANGED <<allocations, config, leaked_allocations, next, current_size,
                     current_count, current_sample_addresses, current_leak_group, by_size,
                     leaks_by_size>>
      /\ pc = "loop" /\ pc' = "done"
    BY DEF Finish, input, loop
<1>2. PICK q, n : q = leaked_allocations /\ n = N
    OBVIOUS
<1>3. Sorted(q) /\ Range(q) = allocations /\ Len(q) \in Nat /\ n = Len(q)
    BY <1>1, <1>2 DEF SortPart, Sorted, Finish, N
<1>4. /\ SizesSeen(q, n) = {a.size : a \in allocations}
      /\ \A s : Seen(q, n, s) = AddressesOf(s)
    BY <1>3, AllSeen
<1>5. PICK items, lists :
        /\ items = Flushed(config.summary, by_size, SummaryItem)
        /\ lists = Flushed(config.details, leaks_by_size, current_leak_group)
    OBVIOUS
<1>6. reported' = IF allocations = {} THEN {}
                  ELSE {[total_leaks |-> Cardinality(allocations),
                         total_leaked_bytes |-> SumSizes(allocations),
                         by_size |-> items, leaks_by_size |-> lists]}
    BY <1>5, LeaksAre DEF Finish
<1>7. \A r \in reported' :
        /\ r.total_leaks = Cardinality(allocations)
        /\ r.total_leaked_bytes = SumSizes(allocations)
        /\ r.by_size = items /\ r.leaks_by_size = lists
    BY <1>6
<1>8. reported' = {} <=> allocations = {}
    BY <1>6
<1>9. ASSUME config.summary
      PROVE  /\ BySize(items)
             /\ \A i \in DOMAIN items :
                /\ items[i].count = Cardinality(AddressesOf(items[i].size))
                /\ FirstOf(items[i].sample_addresses, AddressesOf(items[i].size))
    <2>1. SummaryOf(items, q, n, SizesSeen(q, n))
        BY <1>2, <1>5, <1>9, FlushSummary
    <2>2. DOMAIN items = 1 .. Len(items)
        BY <2>1 DEF SummaryOf
    <2>3. BySize(items)
        BY <1>4, <2>1, <2>2 DEF SummaryOf, Groups, BySize
    <2> QED
        BY <1>4, <2>1, <2>2, <2>3 DEF SummaryOf, Samples
<1>10. SummaryExact'
    <2>1. ASSUME NEW r \in reported', config.summary
          PROVE  /\ r.total_leaks = Cardinality(allocations)
                 /\ r.total_leaked_bytes = SumSizes(allocations)
                 /\ BySize(r.by_size)
                 /\ \A i \in DOMAIN r.by_size :
                    /\ r.by_size[i].count = Cardinality(AddressesOf(r.by_size[i].size))
                    /\ FirstOf(r.by_size[i].sample_addresses,
                               AddressesOf(r.by_size[i].size))
        BY <1>7, <1>9, <2>1
    <2> QED
        BY <1>1, <1>8, <2>1 DEF SummaryExact, BySize, AddressesOf
<1>11. DetailsExact'
    <2> SUFFICES ASSUME NEW r \in reported', config.details
                 PROVE  LET groups == r.leaks_by_size
                            allEmpty == \A a \in allocations : a.size = 0
                        IN /\ IF allEmpty THEN Len(groups) = 1 /\ groups[1].size = NoSize
                              ELSE BySize(groups)
                           /\ \A i \in DOMAIN groups :
                                LET list == groups[i].addresses
                                    addresses == [j \in DOMAIN list |-> list[j].address]
                                IN /\ Ascending(addresses)
                                   /\ Range(addresses) =
                                        AddressesOf(IF allEmpty THEN 0 ELSE groups[i].size)
        BY <1>1 DEF DetailsExact, BySize, AddressesOf
    <2>1. r.leaks_by_size = lists /\ allocations # {}
        BY <1>6, <1>7
    <2>2. n > 0 /\ n \in Nat /\ 1 \in 1 .. Len(q) /\ n \in 1 .. Len(q)
        <3>1. n # 0
            <4>1. allocations = {q[i] : i \in 1 .. n}
                BY <1>3 DEF Sorted, Range
            <4> QED
                BY <2>1, <4>1
        <3> QED
            BY <1>3, <3>1
    <2>3. q[1] \in allocations /\ q[1].size \in Nat
        <3>1. allocations = {q[i] : i \in 1 .. Len(q)}
            BY <1>3 DEF Sorted, Range
        <3> QED
            BY <1>3, <2>2, <3>1, LeakTyped
    <2>4. CASE q[1].size # 0
        <3>1. ~ \A a \in allocations : a.size = 0
            BY <2>3, <2>4
        <3>2. ListsOf(lists, q, n, SizesSeen(q, n))
            BY <1>2, <1>5, <2>4, FlushLists
        <3>3. DOMAIN lists = 1 .. Len(lists)
            BY <3>2 DEF ListsOf
        <3>4. BySize(lists)
            BY <1>4, <3>2, <3>3 DEF ListsOf, Groups, BySize
        <3>5. ASSUME NEW i \in DOMAIN lists
              PROVE  LET list == lists[i].addresses
                         addresses == [j \in DOMAIN list |-> list[j].address]
                     IN  Ascending(addresses) /\ Range(addresses) = AddressesOf(lists[i].size)
            <4>1. Listed(lists[i].addresses, AddressesOf(lists[i].size))
                BY <1>4, <3>2, <3>3 DEF ListsOf
            <4> QED
                BY <4>1, ListExact
        <3> QED
            BY <2>1, <3>1, <3>4, <3>5
    <2>5. CASE q[1].size = 0
        <3>1. SizesSeen(q, n) = {0} /\ current_size = 0 /\ Closed = {}
            <4>1. ASSUME NEW i \in 1 .. n PROVE q[i].size = 0
                <5>1. CASE i = 1
                    BY <2>5, <5>1
                <5>2. CASE i # 1
                    <6>1. i \in 1 .. Len(q) /\ 1 < i
                        BY <1>3, <5>2
                    <6>2. q[i].size <= q[1].size /\ q[i].size \in Nat
                        BY <1>3, <2>2, <6>1, Order
                    <6> QED
                        BY <2>5, <6>2
                <5> QED
                    BY <5>1, <5>2
            <4>2. SizesSeen(q, n) = {0}
                BY <2>2, <4>1 DEF SizesSeen
            <4>3. current_size = q[n].size
                BY <1>2, <2>2 DEF CurrentPart
            <4> QED
                BY <1>2, <2>2, <4>1, <4>2, <4>3 DEF Closed
        <3>2. \A a \in allocations : a.size = 0
            BY <1>4, <3>1
        <3>3. leaks_by_size = <<>>
            <4>1. leaks_by_size \in Seq(Group) /\ Groups(leaks_by_size, {})
                BY <3>1 DEF ListPart, ListsOf
            <4>2. Len(leaks_by_size) = 0
                <5>1. Len(leaks_by_size) \in Nat
                    BY <4>1
                <5>2. 1 \notin 1 .. Len(leaks_by_size)
                    BY <4>1 DEF Groups
                <5> QED
                    BY <5>1, <5>2
            <4> QED
                BY <4>1, <4>2
        <3>4. current_count > 0
            BY <1>2, <2>2, CurrentFacts
        <3>5. PICK g : g = current_leak_group
            OBVIOUS
        <3>6. lists = <<g>>
            BY <1>5, <3>3, <3>4, <3>5 DEF Flushed
        <3>7. g.size = NoSize /\ Listed(g.addresses, AddressesOf(0))
            BY <1>2, <1>4, <2>5, <3>1, <3>5 DEF CurrentPart, SeenNow
        <3>8. /\ Ascending([j \in DOMAIN g.addresses |-> g.addresses[j].address])
              /\ Range([j \in DOMAIN g.addresses |-> g.addresses[j].address]) = AddressesOf(0)
            BY <3>7, ListExact
        <3>9. DOMAIN lists = {1} /\ Len(lists) = 1 /\ lists[1] = g
            BY <3>6
        <3> QED
            BY <2>1, <3>2, <3>7, <3>8, <3>9
    <2> QED
        BY <2>4, <2>5
<1>12. InputPart' /\ SortPart'
    BY <1>1 DEF InputPart, SortPart
<1>13. CurrentPart' /\ GroupPart' /\ ListPart'
    BY <1>1 DEF CurrentPart, GroupPart, ListPart, N, SeenNow, Closed
<1>14. ReportPart'
    BY <1>1, <1>10, <1>11 DEF ReportPart
<1> QED
    BY <1>12, <1>13, <1>14

-----------------------------------------------------------------------------
LEMMA InitHolds == Init => IInv
<1> SUFFICES ASSUME Init PROVE IInv
    OBVIOUS
<1>1. InputPart
    <2>0. PICK A \in SUBSET Addrs : \E f \in [A -> Sizes] :
            allocations = {[address |-> a, size |-> f[a], marked |-> FALSE] : a \in A}
        BY DEF Init
    <2>1. PICK f \in [A -> Sizes] :
            allocations = {[address |-> a, size |-> f[a], marked |-> FALSE] : a \in A}
        BY <2>0
    <2>2. allocations \subseteq AllocationRecord /\ \A a \in allocations : ~a.marked
        <3> SUFFICES ASSUME NEW x \in allocations
                     PROVE  x \in AllocationRecord /\ ~x.marked
            OBVIOUS
        <3>1. PICK a \in A : x = [address |-> a, size |-> f[a], marked |-> FALSE]
            BY <2>1
        <3>2. a \in Addrs /\ f[a] \in Sizes
            OBVIOUS
        <3> QED
            BY <3>1, <3>2 DEF AllocationRecord
    <2>3. IsFiniteSet(allocations)
        <3>1. IsFiniteSet(A)
            BY FS_Subset, ReportAssumption
        <3> DEFINE g == [a \in A |-> [address |-> a, size |-> f[a], marked |-> FALSE]]
        <3>2. g \in Surjection(A, allocations)
            BY <2>1 DEF Surjection
        <3> QED
            BY <3>1, <3>2, FS_Surjection
    <2> QED
        BY <2>2, <2>3 DEF InputPart, Init
<1>2. leaked_allocations = <<>> /\ next = 1 /\ pc = "filter" /\ N = 0
    BY DEF Init, N
<1>3. SortPart
    BY <1>2 DEF SortPart, Sorted
<1>4. SeenNow(current_size) = {} /\ Closed = {}
    BY <1>2 DEF SeenNow, Seen, Closed, SizesSeen
<1>5. CurrentPart
    <2>1. current_leak_group \in Group /\ current_leak_group.addresses = <<>>
          /\ current_leak_group.size = NoSize
        BY DEF Init, NullGroup, Group
    <2> QED
        BY <1>2, <1>4, <2>1, EmptyGroup, FS_EmptySet DEF CurrentPart, Init
<1>6. GroupPart /\ ListPart
    <2>1. by_size = <<>> /\ leaks_by_size = <<>>
        BY DEF Init
    <2> QED
        BY <1>4, <2>1, EmptyGroup DEF GroupPart, ListPart, SummaryOf, ListsOf
<1>7. ReportPart
    BY <1>2 DEF ReportPart, SummaryExact, DetailsExact, Init
<1> QED
    BY <1>1, <1>3, <1>5, <1>6, <1>7 DEF IInv

LEMMA StepHolds == IInv /\ [Next]_vars => IInv'
<1> SUFFICES ASSUME IInv, [Next]_vars PROVE IInv'
    OBVIOUS
<1>1. CASE UNCHANGED vars
    <2>1. /\ allocations' = allocations /\ config' = config /\ pc' = pc
          /\ leaked_allocations' = leaked_allocations /\ reported' = reported
        BY <1>1 DEF vars, input
    <2>2. /\ next' = next /\ current_size' = current_size
          /\ current_count' = current_count
          /\ current_sample_addresses' = current_sample_addresses
          /\ current_leak_group' = current_leak_group
          /\ by_size' = by_size /\ leaks_by_size' = leaks_by_size
        BY <1>1 DEF vars, loop
    <2>3. InputPart' /\ SortPart'
        BY <2>1, <2>2 DEF IInv, InputPart, SortPart
    <2>4. CurrentPart'
        BY <2>1, <2>2 DEF IInv, CurrentPart, N, SeenNow
    <2>5. GroupPart' /\ ListPart'
        BY <2>1, <2>2 DEF IInv, GroupPart, ListPart, N, Closed
    <2>6. SummaryExact'
        BY <2>1 DEF IInv, ReportPart, SummaryExact, BySize, AddressesOf
    <2>7. DetailsExact'
        <3>1. DetailsExact
            BY DEF IInv, ReportPart
        <3>2. /\ \A g : BySize(g)' <=> BySize(g)
              /\ \A n : AddressesOf(n)' = AddressesOf(n)
            BY <2>1 DEF BySize, AddressesOf
        <3> DEFINE Empty == \A a \in allocations : a.size = 0
                   List(r, i) == [j \in DOMAIN r.leaks_by_size[i].addresses |->
                                    r.leaks_by_size[i].addresses[j].address]
        <3>3. \A r \in reported : config.details =>
                /\ IF Empty THEN Len(r.leaks_by_size) = 1 /\ r.leaks_by_size[1].size = NoSize
                   ELSE BySize(r.leaks_by_size)
                /\ \A i \in DOMAIN r.leaks_by_size :
                    /\ Ascending(List(r, i))
                    /\ Range(List(r, i)) =
                        AddressesOf(IF Empty THEN 0 ELSE r.leaks_by_size[i].size)
            BY <3>1, Zenon DEF DetailsExact
        <3>4. Empty' <=> Empty
            BY <2>1
        <3> HIDE DEF Empty
        <3>5. \A r \in reported' : config'.details =>
                /\ IF Empty' THEN Len(r.leaks_by_size) = 1 /\ r.leaks_by_size[1].size = NoSize
                   ELSE BySize(r.leaks_by_size)'
                /\ \A i \in DOMAIN r.leaks_by_size :
                    /\ Ascending(List(r, i))
                    /\ Range(List(r, i)) =
                        AddressesOf(IF Empty THEN 0 ELSE r.leaks_by_size[i].size)'
            BY <2>1, <3>2, <3>3, <3>4
        <3> QED
            BY <3>5, Zenon DEF DetailsExact, Empty
    <2> QED
        BY <2>1, <2>3, <2>4, <2>5, <2>6, <2>7 DEF IInv, ReportPart
<1> QED
    BY <1>1, FilterKept, IterateKept, FinishKept DEF Next

\* The invariant of the loop of RunLeakDetection (memory_analyzer.cpp).
THEOREM InductiveInvariant == Spec => []IInv
    BY InitHolds, StepHolds, PTL DEF Spec

\* The summary is exact for every set of leaks: one item per size, the largest first,
\* with the number of its leaks and the first of their addresses.
THEOREM SummaryIsExact == Spec => []SummaryExact
<1>1. IInv => SummaryExact
    BY DEF IInv, ReportPart
<1> QED
    BY <1>1, InductiveInvariant, PTL

\* The details list every leak once under its size; only a report of nothing but empty
\* blocks has a group without one.
THEOREM DetailsAreExact == Spec => []DetailsExact
<1>1. IInv => DetailsExact
    BY DEF IInv, ReportPart
<1> QED
    BY <1>1, InductiveInvariant, PTL
=============================================================================
