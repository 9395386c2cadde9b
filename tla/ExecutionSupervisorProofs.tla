---------------------- MODULE ExecutionSupervisorProofs ----------------------
(***************************************************************************)
(* Proofs about ExecutionSupervisor, for any sessions, plans and retry     *)
(* limits: first the scheduler, whose recursion is followed by the least   *)
(* number principle, then the types, and last the loop over the order.     *)
(***************************************************************************)
EXTENDS ExecutionSupervisor, FiniteSetTheorems, SequenceTheorems, WellFoundedInduction, TLAPS

-----------------------------------------------------------------------------
(* The scheduler: what schedule() accepts it has ordered soundly, and it    *)
(* accepts every plan that can be ordered.                                  *)

\* The least number principle, which stands in for induction.
LEMMA LeastNumber ==
    ASSUME NEW T \in SUBSET Nat, T # {}
    PROVE  \E n \in T : \A m \in T : ~ (m < n)
<1>1. PICK n \in T : \A m \in T : ~ (<<m, n>> \in OpToRel(<, Nat))
    <2> HIDE DEF OpToRel
    <2>1. T \subseteq Nat
        OBVIOUS
    <2> QED
        BY <2>1, NatLessThanWellFounded, WFMin, Zenon
<1>2. ASSUME NEW m \in T, m < n PROVE <<m, n>> \in OpToRel(<, Nat)
    <2>1. <<m, n>> \in Nat \X Nat
        OBVIOUS
    <2>2. <<m, n>>[1] < <<m, n>>[2]
        BY <1>2
    <2> QED
        BY <2>1, <2>2, Zenon DEF OpToRel
<1> QED
    BY <1>1, <1>2, Zenon

\* A sequence lists a set: every element, and each of them once.
Lists(list, S) ==
    /\ list \in Seq(S)
    /\ \A i, j \in 1 .. Len(list) : list[i] = list[j] => i = j
    /\ \A x \in S : \E i \in 1 .. Len(list) : list[i] = x

\* Kahn's loop appends a step that it has not placed yet.
LEMMA ListsAppend ==
    ASSUME NEW S, NEW list, Lists(list, S), NEW x, x \notin S
    PROVE  Lists(Append(list, x), S \cup {x})
<1> DEFINE n == Len(list)
           longer == Append(list, x)
<1>1. list \in Seq(S) /\ list \in Seq(S \cup {x}) /\ n \in Nat
    BY DEF Lists
<1>2. /\ longer \in Seq(S \cup {x}) /\ Len(longer) = n + 1
      /\ \A i \in 1 .. n : longer[i] = list[i]
      /\ longer[n + 1] = x
    BY <1>1, AppendProperties
<1>3. \A i \in 1 .. n : list[i] \in S
    BY <1>1, ElementOfSeq
<1> HIDE DEF longer
<1>4. \A i, j \in 1 .. n + 1 : longer[i] = longer[j] => i = j
    <2> SUFFICES ASSUME NEW i \in 1 .. n + 1, NEW j \in 1 .. n + 1, longer[i] = longer[j]
                 PROVE  i = j
        OBVIOUS
    <2>1. CASE i \in 1 .. n /\ j \in 1 .. n
        BY <1>2, <2>1 DEF Lists
    <2>2. CASE i = n + 1 \/ j = n + 1
        BY <1>1, <1>2, <1>3, <2>2
    <2> QED
        BY <1>1, <2>1, <2>2
<1>5. \A y \in S \cup {x} : \E i \in 1 .. n + 1 : longer[i] = y
    <2>1. ASSUME NEW y \in S PROVE \E i \in 1 .. n + 1 : longer[i] = y
        <3>1. PICK i \in 1 .. n : list[i] = y
            BY DEF Lists
        <3> QED
            BY <1>1, <1>2, <3>1
    <2>2. n + 1 \in 1 .. n + 1
        BY <1>1
    <2> QED
        BY <1>2, <2>1, <2>2
<1> QED
    BY <1>2, <1>4, <1>5 DEF Lists, longer

\* The loop takes the head of its queue.
LEMMA ListsTail ==
    ASSUME NEW S, NEW list, Lists(list, S), list # <<>>
    PROVE  /\ Head(list) \in S
           /\ Lists(Tail(list), S \ {Head(list)})
<1> DEFINE n == Len(list)
           rest == Tail(list)
<1>1. list \in Seq(S) /\ n \in Nat \ {0}
    BY EmptySeq, LenProperties DEF Lists
<1>2. /\ Head(list) = list[1] /\ Head(list) \in S
      /\ rest \in Seq(S) /\ Len(rest) = n - 1
      /\ \A i \in 1 .. n - 1 : rest[i] = list[i + 1]
    BY <1>1, HeadTailProperties
<1> HIDE DEF rest
<1>3. \A i \in 1 .. n - 1 : rest[i] \in S \ {Head(list)}
    <2> SUFFICES ASSUME NEW i \in 1 .. n - 1 PROVE rest[i] \in S \ {Head(list)}
        OBVIOUS
    <2>1. i + 1 \in 1 .. n /\ 1 \in 1 .. n /\ i + 1 # 1
        BY <1>1
    <2>2. rest[i] # Head(list)
        BY <1>2, <2>1 DEF Lists
    <2>3. rest[i] \in S
        BY <1>2, ElementOfSeq
    <2> QED
        BY <2>2, <2>3
<1>4. rest \in Seq(S \ {Head(list)})
    <2>1. rest \in [1 .. n - 1 -> S]
        BY <1>2, LenProperties
    <2>2. rest \in [1 .. n - 1 -> S \ {Head(list)}]
        BY <1>3, <2>1
    <2> QED
        BY <1>1, <2>2, SeqDef
<1>5. \A i, j \in 1 .. n - 1 : rest[i] = rest[j] => i = j
    <2> SUFFICES ASSUME NEW i \in 1 .. n - 1, NEW j \in 1 .. n - 1, rest[i] = rest[j]
                 PROVE  i = j
        OBVIOUS
    <2>1. i + 1 \in 1 .. n /\ j + 1 \in 1 .. n
        BY <1>1
    <2>2. list[i + 1] = list[j + 1]
        BY <1>2
    <2>3. i + 1 = j + 1
        BY <2>1, <2>2 DEF Lists
    <2> QED
        BY <1>1, <2>3
<1>6. ASSUME NEW x \in S \ {Head(list)} PROVE \E i \in 1 .. n - 1 : rest[i] = x
    <2>1. PICK i \in 1 .. n : list[i] = x
        BY DEF Lists
    <2>2. i # 1
        BY <1>2, <1>6, <2>1
    <2>3. i - 1 \in 1 .. n - 1 /\ (i - 1) + 1 = i
        BY <1>1, <2>2
    <2> QED
        BY <1>2, <2>1, <2>3
<1> QED
    BY <1>2, <1>4, <1>5, <1>6 DEF Lists, rest

\* The loop puts what became ready behind what was queued.
LEMMA ListsConcat ==
    ASSUME NEW S, NEW T, S \cap T = {}, NEW first, NEW second, Lists(first, S), Lists(second, T)
    PROVE  Lists(first \o second, S \cup T)
<1> DEFINE n == Len(first)
           m == Len(second)
           both == first \o second
<1>1. /\ first \in Seq(S) /\ second \in Seq(T) /\ n \in Nat /\ m \in Nat
      /\ first \in Seq(S \cup T) /\ second \in Seq(S \cup T)
    BY DEF Lists
<1>2. /\ both \in Seq(S \cup T) /\ Len(both) = n + m
      /\ \A i \in 1 .. n + m : both[i] = IF i <= n THEN first[i] ELSE second[i - n]
    BY <1>1, ConcatProperties
<1>3. (\A i \in 1 .. n : first[i] \in S) /\ (\A i \in 1 .. m : second[i] \in T)
    BY <1>1, ElementOfSeq
<1> HIDE DEF both, n, m
<1>4. ASSUME NEW i \in 1 .. n + m, NEW j \in 1 .. n + m, both[i] = both[j] PROVE i = j
    <2>1. CASE i <= n /\ j <= n
        <3>1. i \in 1 .. n /\ j \in 1 .. n /\ first[i] = first[j]
            BY <1>1, <1>2, <1>4, <2>1
        <3> QED
            BY <3>1 DEF Lists, n
    <2>2. CASE ~ (i <= n) /\ ~ (j <= n)
        <3>1. i - n \in 1 .. m /\ j - n \in 1 .. m
            BY <1>1, <2>2
        <3>2. second[i - n] = second[j - n]
            BY <1>2, <1>4, <2>2
        <3>3. i - n = j - n
            BY <3>1, <3>2 DEF Lists, m
        <3> QED
            BY <1>1, <3>3
    <2>3. CASE i <= n /\ ~ (j <= n)
        <3>1. i \in 1 .. n /\ j - n \in 1 .. m /\ first[i] = second[j - n]
            BY <1>1, <1>2, <1>4, <2>3
        <3> QED
            BY <1>3, <3>1
    <2>4. CASE ~ (i <= n) /\ j <= n
        <3>1. j \in 1 .. n /\ i - n \in 1 .. m /\ first[j] = second[i - n]
            BY <1>1, <1>2, <1>4, <2>4
        <3> QED
            BY <1>3, <3>1
    <2> QED
        BY <2>1, <2>2, <2>3, <2>4
<1>5. ASSUME NEW x \in S \cup T PROVE \E i \in 1 .. n + m : both[i] = x
    <2>1. CASE x \in S
        <3>1. PICK i \in 1 .. n : first[i] = x
            BY <2>1 DEF Lists, n
        <3>2. i \in 1 .. n + m /\ i <= n
            BY <1>1
        <3> QED
            BY <1>2, <3>1, <3>2
    <2>2. CASE x \in T
        <3>1. PICK i \in 1 .. m : second[i] = x
            BY <2>2 DEF Lists, m
        <3>2. i + n \in 1 .. n + m /\ ~ (i + n <= n) /\ (i + n) - n = i
            BY <1>1
        <3> QED
            BY <1>2, <3>1, <3>2
    <2> QED
        BY <2>1, <2>2
<1> QED
    BY <1>2, <1>4, <1>5 DEF Lists, both

\* A list of a finite set is as long as the set is large, and only such a
\* list of a subset is a list of the whole set.
LEMMA ListsLength ==
    ASSUME NEW S, NEW list, Lists(list, S)
    PROVE  IsFiniteSet(S) /\ Cardinality(S) = Len(list)
<1> DEFINE n == Len(list)
<1>1. list \in [1 .. n -> S] /\ n \in Nat
    BY LenProperties DEF Lists
<1>2. list \in Injection(1 .. n, S) /\ list \in Surjection(1 .. n, S)
    BY <1>1 DEF Lists, Injection, IsInjective, Surjection
<1> HIDE DEF n
<1>3. IsFiniteSet(1 .. n) /\ Cardinality(1 .. n) = n
    <2>1. 1 \in Int /\ n \in Int
        BY <1>1
    <2> QED
        BY <1>1, <2>1, FS_Interval
<1> QED
    BY <1>2, <1>3, FS_Surjection DEF n

\* A finite set of numbers has a sorted list, and sorted is one.
SortedList(list, S, n) ==
    list \in [1 .. n -> S] /\ \A i, j \in 1 .. n : i < j => list[i] < list[j]

LEMMA SortedListExists ==
    ASSUME NEW n \in Nat
    PROVE  \A S \in SUBSET Nat : IsFiniteSet(S) /\ Cardinality(S) = n =>
               \E list : SortedList(list, S, n)
<1> DEFINE Bad == {m \in Nat : \E S \in SUBSET Nat : IsFiniteSet(S) /\ Cardinality(S) = m
                                                  /\ ~ \E list : SortedList(list, S, m)}
<1>1. SUFFICES ASSUME Bad # {} PROVE FALSE
    BY DEF Bad
<1>2. PICK k \in Bad : \A m \in Bad : ~ (m < k)
    BY <1>1, LeastNumber
<1>3. PICK S \in SUBSET Nat : IsFiniteSet(S) /\ Cardinality(S) = k
                              /\ ~ \E list : SortedList(list, S, k)
    OBVIOUS
<1>4. k \in Nat
    OBVIOUS
<1>5. CASE k = 0
    <2>1. SortedList(<<>>, S, k)
        BY <1>5 DEF SortedList
    <2> QED
        BY <1>3, <2>1
<1>6. CASE k # 0
    <2>1. S # {}
        BY <1>3, <1>6, FS_EmptySet
    <2>2. PICK low \in S : \A x \in S : ~ (x < low)
        BY <2>1, LeastNumber
    <2>3. IsFiniteSet(S \ {low}) /\ Cardinality(S \ {low}) = k - 1
        BY <1>3, FS_RemoveElement
    <2>4. k - 1 \in Nat /\ k - 1 < k
        BY <1>4, <1>6
    <2>5. k - 1 \notin Bad
        BY <1>2, <2>4
    <2>6. PICK rest : SortedList(rest, S \ {low}, k - 1)
        BY <2>3, <2>4, <2>5
    <2> DEFINE list == [i \in 1 .. k |-> IF i = 1 THEN low ELSE rest[i - 1]]
    <2>7. \A i \in 1 .. k : i # 1 => i - 1 \in 1 .. k - 1 /\ rest[i - 1] \in S
                                       /\ rest[i - 1] # low
        BY <1>4, <2>6 DEF SortedList
    <2>8. list \in [1 .. k -> S]
        BY <2>7
    <2>9. ASSUME NEW i \in 1 .. k, NEW j \in 1 .. k, i < j PROVE list[i] < list[j]
        <3>1. j # 1 /\ list[j] = rest[j - 1]
            BY <1>4, <2>9
        <3>2. CASE i = 1
            <4>1. list[i] = low /\ list[j] \in Nat /\ low \in Nat /\ list[j] # low /\ list[j] \in S
                BY <2>7, <3>1, <3>2
            <4> QED
                BY <2>2, <4>1
        <3>3. CASE i # 1
            <4>1. i - 1 < j - 1 /\ i - 1 \in 1 .. k - 1 /\ j - 1 \in 1 .. k - 1
                BY <1>4, <2>9, <3>1, <3>3
            <4>2. list[i] = rest[i - 1]
                BY <3>3
            <4> HIDE DEF list
            <4> QED
                BY <2>6, <3>1, <4>1, <4>2 DEF SortedList
        <3> QED
            BY <3>2, <3>3
    <2>10. SortedList(list, S, k)
        BY <2>8, <2>9 DEF SortedList
    <2> QED
        BY <1>3, <2>10
<1> QED
    BY <1>5, <1>6

\* What sorted chooses lists its set.
LEMMA SortedLists ==
    ASSUME NEW S \in SUBSET Nat, IsFiniteSet(S)
    PROVE  Lists(sorted(S), S)
<1> DEFINE n == Cardinality(S)
           list == sorted(S)
<1>1. n \in Nat
    BY FS_CardinalityType
<1>2. \E some : SortedList(some, S, n)
    BY <1>1, SortedListExists
<1>3. SortedList(list, S, n)
    BY <1>2, Zenon DEF sorted, SortedList
<1> HIDE DEF n, list
<1>4. list \in Seq(S) /\ Len(list) = n
    BY <1>1, <1>3, SeqDef, LenProperties DEF SortedList
<1>5. ASSUME NEW i \in 1 .. n, NEW j \in 1 .. n, list[i] = list[j] PROVE i = j
    <2>1. list[i] \in Nat /\ list[j] \in Nat
        BY <1>3 DEF SortedList
    <2>2. ~ (i < j) /\ ~ (j < i)
        BY <1>3, <1>5, <2>1 DEF SortedList
    <2> QED
        BY <1>1, <2>2
<1>6. list \in Injection(1 .. n, S)
    BY <1>3, <1>5 DEF SortedList, Injection, IsInjective
<1>7. IsFiniteSet(1 .. n) /\ Cardinality(1 .. n) = n
    <2>1. 1 \in Int /\ n \in Int
        BY <1>1
    <2> QED
        BY <1>1, <2>1, FS_Interval
<1>8. list \in Surjection(1 .. n, S)
    BY <1>6, <1>7, FS_Injection DEF n
<1> QED
    BY <1>4, <1>5, <1>8 DEF Lists, Surjection, list

\* What Kahn's loop has achieved after n turns: the steps placed and the steps
\* queued are those whose dependencies are placed, each of them once, and the
\* in-degrees count the dependencies that are not.
Kahn(plan, sort, P, W) ==
    /\ P \subseteq plan.steps /\ W \subseteq plan.steps /\ P \cap W = {}
    /\ Lists(sort.ordered, P) /\ Lists(sort.queue, W)
    /\ \A s \in plan.steps : s \in P \cup W <=> plan.dependsOn[s] \subseteq P
    /\ \A s \in plan.steps : sort.inDegree[s] = Cardinality(plan.dependsOn[s] \ P)
    /\ \A i \in 1 .. Len(sort.ordered) : \A d \in plan.dependsOn[sort.ordered[i]] :
           \E j \in 1 .. i - 1 : sort.ordered[j] = d

\* A plan is a finite graph over numbers.
PlanFacts(plan) ==
    /\ plan.steps \subseteq Nat /\ IsFiniteSet(plan.steps)
    /\ \A s \in plan.steps : IsFiniteSet(plan.dependsOn[s])

\* The in-degrees and the queue before the first turn.
LEMMA KahnStarts ==
    ASSUME NEW plan, PlanFacts(plan)
    PROVE  Kahn(plan, initialSort(plan), {}, {s \in plan.steps : plan.dependsOn[s] = {}})
<1> DEFINE W == {s \in plan.steps : plan.dependsOn[s] = {}}
           sort == initialSort(plan)
<1>1. W \in SUBSET Nat /\ IsFiniteSet(W)
    BY FS_Subset DEF PlanFacts
<1>2. Lists(sorted(W), W)
    BY <1>1, SortedLists
<1>3. Lists(<<>>, {})
    BY DEF Lists
<1>4. /\ sort.ordered = <<>> /\ sort.queue = sorted(W)
      /\ \A s \in plan.steps : sort.inDegree[s] = Cardinality(plan.dependsOn[s])
    BY DEF initialSort
<1>5. \A s \in plan.steps : plan.dependsOn[s] \ {} = plan.dependsOn[s]
    OBVIOUS
<1> HIDE DEF sort
<1>6. \A s \in plan.steps : sort.inDegree[s] = Cardinality(plan.dependsOn[s] \ {})
    BY <1>4, <1>5
<1>7. \A s \in plan.steps : s \in {} \cup W <=> plan.dependsOn[s] \subseteq {}
    OBVIOUS
<1>8. Len(sort.ordered) = 0
    BY <1>4
<1> HIDE DEF W
<1>9. W \subseteq plan.steps
    BY DEF W
<1>10. Kahn(plan, sort, {}, W)
    BY <1>2, <1>3, <1>4, <1>6, <1>7, <1>8, <1>9 DEF Kahn
<1> QED
    BY <1>10 DEF sort, W

\* One turn places the head of the queue and queues what waited for it alone.
LEMMA KahnTurns ==
    ASSUME NEW plan, PlanFacts(plan), NEW sort, NEW P, NEW W, Kahn(plan, sort, P, W),
           sort.queue # <<>>
    PROVE  /\ \E V : Kahn(plan, takeNext(plan, sort), P \cup {Head(sort.queue)}, V)
           /\ Len(takeNext(plan, sort).ordered) = Len(sort.ordered) + 1
<1> DEFINE id == Head(sort.queue)
           Q == P \cup {id}
           dependents == {s \in plan.steps : id \in plan.dependsOn[s]}
           inDegree == [s \in plan.steps |->
                           sort.inDegree[s] - (IF s \in dependents THEN 1 ELSE 0)]
           ready == {s \in dependents : inDegree[s] = 0}
           rest == Tail(sort.queue)
           next == takeNext(plan, sort)
           V == (W \ {id}) \cup ready
<1>1. id \in W /\ Lists(rest, W \ {id})
    BY ListsTail DEF Kahn
<1>2. id \in plan.steps /\ id \notin P
    BY <1>1 DEF Kahn
<1>3. /\ next.ordered = Append(sort.ordered, id)
      /\ next.queue = rest \o sorted(ready)
      /\ next.inDegree = inDegree
    BY DEF takeNext
<1> HIDE DEF next, id, rest
<1>4. ASSUME NEW s \in plan.steps PROVE inDegree[s] = Cardinality(plan.dependsOn[s] \ Q)
    <2>1. IsFiniteSet(plan.dependsOn[s] \ P)
        BY FS_Subset DEF PlanFacts
    <2>2. plan.dependsOn[s] \ Q = (plan.dependsOn[s] \ P) \ {id}
        OBVIOUS
    <2>3. /\ sort.inDegree[s] = Cardinality(plan.dependsOn[s] \ P)
          /\ Cardinality(plan.dependsOn[s] \ P) \in Nat
        BY <2>1, FS_CardinalityType DEF Kahn
    <2>4. id \in plan.dependsOn[s] \ P <=> s \in dependents
        BY <1>2
    <2> DEFINE open == plan.dependsOn[s] \ P
    <2> HIDE DEF dependents, Q, open
    <2>5. Cardinality(open \ {id}) =
              IF id \in open THEN Cardinality(open) - 1 ELSE Cardinality(open)
        BY <2>1, FS_RemoveElement DEF open
    <2>6. Cardinality(plan.dependsOn[s] \ Q) =
              IF s \in dependents THEN sort.inDegree[s] - 1 ELSE sort.inDegree[s]
        BY <2>2, <2>3, <2>4, <2>5 DEF open
    <2> QED
        BY <2>3, <2>6
<1>5. ASSUME NEW s \in plan.steps PROVE inDegree[s] = 0 <=> plan.dependsOn[s] \subseteq Q
    <2>1. IsFiniteSet(plan.dependsOn[s] \ Q)
        BY FS_Subset DEF PlanFacts
    <2>2. Cardinality(plan.dependsOn[s] \ Q) = 0 <=> plan.dependsOn[s] \ Q = {}
        BY <2>1, FS_EmptySet
    <2> HIDE DEF inDegree
    <2> QED
        BY <1>4, <2>2
<1> HIDE DEF inDegree
<1>6. ready \subseteq plan.steps /\ IsFiniteSet(ready) /\ ready \in SUBSET Nat
    BY FS_Subset DEF PlanFacts
<1>7. Lists(sorted(ready), ready)
    BY <1>6, SortedLists
<1>8. \A s \in ready : s \notin P \cup W
    BY <1>2 DEF Kahn
<1>9. Lists(next.queue, V)
    <2>1. (W \ {id}) \cap ready = {}
        BY <1>8
    <2> QED
        BY <1>1, <1>3, <1>7, <2>1, ListsConcat
<1>10. Lists(next.ordered, Q)
    BY <1>2, <1>3, ListsAppend DEF Kahn
<1>11. \A s \in plan.steps : s \in Q \cup V <=> plan.dependsOn[s] \subseteq Q
    <2> SUFFICES ASSUME NEW s \in plan.steps PROVE s \in Q \cup V <=> plan.dependsOn[s] \subseteq Q
        OBVIOUS
    <2>1. s \in P \cup W <=> plan.dependsOn[s] \subseteq P
        BY DEF Kahn
    <2>2. CASE id \in plan.dependsOn[s]
        BY <1>1, <1>2, <1>5, <2>1, <2>2
    <2>3. CASE id \notin plan.dependsOn[s]
        BY <1>1, <1>2, <2>1, <2>3
    <2> QED
        BY <2>2, <2>3
<1>12. Q \subseteq plan.steps /\ V \subseteq plan.steps /\ Q \cap V = {}
    BY <1>1, <1>2, <1>6, <1>8 DEF Kahn
<1>13. /\ Len(sort.ordered) \in Nat /\ Len(next.ordered) = Len(sort.ordered) + 1
       /\ \A i \in 1 .. Len(sort.ordered) : next.ordered[i] = sort.ordered[i]
       /\ next.ordered[Len(sort.ordered) + 1] = id
       /\ Len(next.ordered) \in Nat
    BY <1>3, AppendProperties DEF Kahn, Lists
<1>14. ASSUME NEW i \in 1 .. Len(next.ordered), NEW d \in plan.dependsOn[next.ordered[i]]
       PROVE  \E j \in 1 .. i - 1 : next.ordered[j] = d
    <2> DEFINE n == Len(sort.ordered)
    <2> HIDE DEF n
    <2>1. CASE i \in 1 .. n
        <3>1. PICK j \in 1 .. i - 1 : sort.ordered[j] = d
            BY <1>13, <1>14, <2>1 DEF Kahn, n
        <3>2. j \in 1 .. n
            BY <1>13, <2>1 DEF n
        <3> QED
            BY <1>13, <3>1, <3>2 DEF n
    <2>2. CASE i = n + 1
        <3>1. d \in P
            BY <1>1, <1>2, <1>13, <1>14, <2>2 DEF Kahn, n
        <3>2. PICK j \in 1 .. n : sort.ordered[j] = d
            BY <3>1 DEF Kahn, Lists, n
        <3>3. n + 1 - 1 = n
            BY <1>13 DEF n
        <3> QED
            BY <1>13, <2>2, <3>2, <3>3 DEF n
    <2>3. i \in 1 .. n \/ i = n + 1
        <3>1. n \in Nat /\ i \in 1 .. n + 1
            BY <1>13 DEF n
        <3> QED
            BY <3>1
    <2> QED
        BY <2>1, <2>2, <2>3
<1> HIDE DEF Q, V
<1>15. \A s \in plan.steps : next.inDegree[s] = Cardinality(plan.dependsOn[s] \ Q)
    BY <1>3, <1>4
<1>16. Kahn(plan, next, Q, V)
    BY <1>9, <1>10, <1>11, <1>12, <1>14, <1>15 DEF Kahn
<1> QED
    BY <1>13, <1>16 DEF next, Q, id

\* The turns of the loop, up to the m-th.
Turns(f, plan, m) ==
    f = [n \in 0 .. m |->
            IF n = 0 THEN initialSort(plan)
            ELSE LET sort == f[n - 1]
                 IN  IF sort.queue = <<>> THEN sort ELSE takeNext(plan, sort)]

\* The recursion of ordered defines a function.
LEMMA TurnsExist ==
    ASSUME NEW plan, NEW m \in Nat
    PROVE  \E f : Turns(f, plan, m)
<1> DEFINE Bad == {k \in Nat : ~ \E f : Turns(f, plan, k)}
<1>1. SUFFICES ASSUME Bad # {} PROVE FALSE
    BY DEF Bad
<1>2. PICK k \in Bad : \A i \in Bad : ~ (i < k)
    BY <1>1, LeastNumber
<1>3. k \in Nat /\ ~ \E f : Turns(f, plan, k)
    OBVIOUS
<1> HIDE DEF Bad
<1>4. CASE k = 0
    <2> DEFINE f == [n \in 0 .. 0 |-> initialSort(plan)]
    <2>1. Turns(f, plan, 0)
        BY DEF Turns
    <2> QED
        BY <1>3, <1>4, <2>1
<1>5. CASE k # 0
    <2>1. k - 1 \in Nat /\ k - 1 < k
        BY <1>3, <1>5
    <2>2. PICK f : Turns(f, plan, k - 1)
        BY <1>2, <2>1 DEF Bad
    <2> DEFINE step(sort) == IF sort.queue = <<>> THEN sort ELSE takeNext(plan, sort)
               g == [n \in 0 .. k |-> IF n = k THEN step(f[k - 1]) ELSE f[n]]
    <2> HIDE DEF step
    <2>3. ASSUME NEW n \in 0 .. k
          PROVE  g[n] = IF n = 0 THEN initialSort(plan) ELSE step(g[n - 1])
        <3>1. CASE n = k
            <4>1. n - 1 \in 0 .. k /\ n - 1 # k /\ n # 0
                BY <1>3, <1>5, <3>1
            <4> QED
                BY <3>1, <4>1
        <3>2. CASE n # k
            <4>1. n \in 0 .. k - 1
                BY <1>3, <3>2
            <4>2. f[n] = IF n = 0 THEN initialSort(plan) ELSE step(f[n - 1])
                BY <2>2, <4>1 DEF Turns, step
            <4>3. n # 0 => n - 1 \in 0 .. k /\ n - 1 # k
                BY <1>3, <4>1
            <4> QED
                BY <3>2, <4>2, <4>3
        <3> QED
            BY <3>1, <3>2
    <2>4. g = [n \in 0 .. k |-> IF n = 0 THEN initialSort(plan) ELSE step(g[n - 1])]
        <3>1. g = [n \in 0 .. k |-> g[n]]
            OBVIOUS
        <3> HIDE DEF g
        <3> QED
            BY <2>3, <3>1
    <2> HIDE DEF g
    <2>5. Turns(g, plan, k)
        BY <2>4 DEF Turns, step
    <2> QED
        BY <1>3, <2>5
<1> QED
    BY <1>4, <1>5

\* After n turns n steps are placed, unless the queue ran out.
LEMMA KahnKeeps ==
    ASSUME NEW plan, PlanFacts(plan), NEW m \in Nat, NEW f, Turns(f, plan, m)
    PROVE  \A n \in 0 .. m :
               /\ \E P, W : Kahn(plan, f[n], P, W)
               /\ f[n].queue = <<>> \/ Len(f[n].ordered) = n
<1> DEFINE Good(n) == /\ \E P, W : Kahn(plan, f[n], P, W)
                      /\ f[n].queue = <<>> \/ Len(f[n].ordered) = n
           Bad == {n \in 0 .. m : ~ Good(n)}
<1>1. SUFFICES ASSUME Bad # {} PROVE FALSE
    BY DEF Bad
<1>2. PICK k \in Bad : \A i \in Bad : ~ (i < k)
    <2>1. Bad \in SUBSET Nat
        OBVIOUS
    <2> HIDE DEF Bad
    <2> QED
        BY <1>1, <2>1, LeastNumber
<1>3. k \in 0 .. m /\ ~ Good(k)
    OBVIOUS
<1> HIDE DEF Bad
<1>4. CASE k = 0
    <2>1. f[0] = initialSort(plan)
        BY <1>3, <1>4 DEF Turns
    <2>2. Len(f[0].ordered) = 0
        BY <2>1 DEF initialSort
    <2>3. \E P, W : Kahn(plan, f[0], P, W)
        BY <2>1, KahnStarts
    <2> QED
        BY <1>3, <1>4, <2>2, <2>3
<1>5. CASE k # 0
    <2> DEFINE sort == f[k - 1]
    <2>1. k - 1 \in 0 .. m /\ k - 1 < k
        BY <1>3, <1>5
    <2>2. Good(k - 1)
        BY <1>2, <2>1 DEF Bad
    <2>3. f[k] = IF sort.queue = <<>> THEN sort ELSE takeNext(plan, sort)
        BY <1>3, <1>5 DEF Turns
    <2>4. PICK P, W : Kahn(plan, sort, P, W)
        BY <2>2
    <2>5. sort.queue # <<>> => Len(sort.ordered) = k - 1
        BY <2>2
    <2> HIDE DEF sort
    <2>6. CASE sort.queue = <<>>
        <3>1. f[k] = sort
            BY <2>3, <2>6
        <3> QED
            BY <1>3, <2>4, <2>6, <3>1
    <2>7. CASE sort.queue # <<>>
        <3>1. f[k] = takeNext(plan, sort)
            BY <2>3, <2>7
        <3>2. /\ \E Q, V : Kahn(plan, takeNext(plan, sort), Q, V)
              /\ Len(takeNext(plan, sort).ordered) = k - 1 + 1
            BY <2>4, <2>5, <2>7, KahnTurns
        <3>3. k - 1 + 1 = k
            BY <1>3
        <3> QED
            BY <1>3, <3>1, <3>2, <3>3
    <2> QED
        BY <2>6, <2>7
<1> QED
    BY <1>4, <1>5

\* The state in which the loop ends: it ran out of queued steps, or it has
\* placed them all.
LEMMA KahnEnds ==
    ASSUME NEW plan, PlanFacts(plan)
    PROVE  \E sort, P, W :
               /\ Kahn(plan, sort, P, W) /\ ordered(plan) = sort.ordered
               /\ W = {} \/ Len(ordered(plan)) = Cardinality(plan.steps)
<1> DEFINE m == Cardinality(plan.steps)
           f == CHOOSE g : Turns(g, plan, m)
<1>1. m \in Nat
    BY FS_CardinalityType DEF PlanFacts
<1>2. Turns(f, plan, m)
    BY <1>1, TurnsExist, Zenon
<1>3. ordered(plan) = f[m].ordered
    BY Zenon DEF ordered, Turns
<1> HIDE DEF f, m
<1>4. m \in 0 .. m
    BY <1>1
<1>5. /\ \E P, W : Kahn(plan, f[m], P, W)
      /\ f[m].queue = <<>> \/ Len(f[m].ordered) = m
    BY <1>1, <1>2, <1>4, KahnKeeps
<1>6. PICK P, W : Kahn(plan, f[m], P, W)
    BY <1>5
<1>7. f[m].queue = <<>> => W = {}
    BY <1>6 DEF Kahn, Lists
<1> QED
    BY <1>3, <1>5, <1>6, <1>7 DEF m

\* What the sort needs of a plan.
LEMMA PlansAreFinite ==
    ASSUME NEW plan \in Plan
    PROVE  PlanFacts(plan)
BY StepIdAssumption, PlanAssumption DEF PlanFacts

\* What schedule() accepts it has ordered soundly.
LEMMA ScheduleSound ==
    ASSUME NEW plan \in Plan, schedulable(plan)
    PROVE  sound(ordered(plan), plan)
<1>1. PlanFacts(plan)
    BY PlansAreFinite
<1>2. PICK sort, P, W : Kahn(plan, sort, P, W) /\ ordered(plan) = sort.ordered
    BY <1>1, KahnEnds
<1> DEFINE order == ordered(plan)
<1>3. Lists(order, P) /\ P \subseteq plan.steps
    BY <1>2 DEF Kahn
<1>4. P = plan.steps
    <2>1. Cardinality(P) = Cardinality(plan.steps)
        BY <1>3, ListsLength DEF schedulable
    <2> QED
        BY <1>1, <1>3, <2>1, FS_Subset DEF PlanFacts
<1>5. order = sort.ordered
    BY <1>2
<1> HIDE DEF order
<1>6. sound(order, plan)
    BY <1>2, <1>3, <1>4, <1>5 DEF sound, Lists, Kahn
<1> QED
    BY <1>6 DEF order

\* What can be ordered schedule() accepts.
LEMMA ScheduleComplete ==
    ASSUME NEW plan \in Plan, Orderable(plan)
    PROVE  schedulable(plan)
<1>1. PlanFacts(plan)
    BY PlansAreFinite
<1>2. ~ hasUnknownDependency(plan)
    BY DEF Orderable, hasUnknownDependency
<1>3. PICK sort, P, W :
          /\ Kahn(plan, sort, P, W) /\ ordered(plan) = sort.ordered
          /\ W = {} \/ Len(ordered(plan)) = Cardinality(plan.steps)
    BY <1>1, KahnEnds
<1>4. CASE W = {}
    <2> DEFINE left == plan.steps \ P
    <2>1. \A s \in left : plan.dependsOn[s] \cap left # {}
        <3> SUFFICES ASSUME NEW s \in left PROVE plan.dependsOn[s] \cap left # {}
            OBVIOUS
        <3>1. ~ (plan.dependsOn[s] \subseteq P)
            BY <1>3, <1>4 DEF Kahn
        <3>2. plan.dependsOn[s] \subseteq plan.steps
            BY DEF Orderable
        <3> QED
            BY <3>1, <3>2
    <2>2. left = {}
        BY <2>1 DEF Orderable
    <2>3. P = plan.steps
        BY <1>3, <2>2 DEF Kahn
    <2>4. Len(ordered(plan)) = Cardinality(plan.steps)
        BY <1>3, <2>3, ListsLength DEF Kahn
    <2> QED
        BY <1>2, <2>4 DEF schedulable
<1>5. CASE Len(ordered(plan)) = Cardinality(plan.steps)
    BY <1>2, <1>5 DEF schedulable
<1> QED
    BY <1>3, <1>4, <1>5

\* A sound order shows that a plan can be ordered: in any set of its steps, the
\* one that comes first waits for no other.
LEMMA SoundOrderable ==
    ASSUME NEW plan, NEW order, sound(order, plan),
           \A s \in plan.steps : plan.dependsOn[s] \subseteq plan.steps
    PROVE  Orderable(plan)
<1> SUFFICES ASSUME NEW S \in (SUBSET plan.steps) \ {{}}
             PROVE  \E s \in S : plan.dependsOn[s] \cap S = {}
    BY DEF Orderable
<1> DEFINE at == {i \in 1 .. Len(order) : order[i] \in S}
<1>1. Len(order) \in Nat
    BY LenProperties DEF sound
<1>2. at \in SUBSET Nat /\ at # {}
    BY <1>1 DEF sound
<1>3. PICK i \in at : \A j \in at : ~ (j < i)
    BY <1>2, LeastNumber
<1>4. i \in 1 .. Len(order) /\ order[i] \in S
    OBVIOUS
<1>5. \A d \in plan.dependsOn[order[i]] : d \notin S
    <2> SUFFICES ASSUME NEW d \in plan.dependsOn[order[i]], d \in S PROVE FALSE
        OBVIOUS
    <2>1. PICK j \in 1 .. i - 1 : order[j] = d
        BY <1>4 DEF sound
    <2>2. j \in at /\ j < i
        BY <1>1, <1>4, <2>1
    <2> QED
        BY <1>3, <2>2
<1> QED
    BY <1>4, <1>5

-----------------------------------------------------------------------------
(* Types, and one session at a time.                                        *)

\* The step that the loop stands at.
current(k) == k.order[k.position + 1]

inLoop(k) == k.state = "RUNNING" /\ ~ k.invoking

more(k) == k.position < Len(k.order)

\* The session after each step of the supervisor.
began(k, plan) == [k EXCEPT !.state = "RUNNING", !.plan = plan, !.order = ordered(plan)]

unordered(k, plan) == [k EXCEPT !.state = "READY", !.plan = plan]

verdict(k, state) == [k EXCEPT !.state = state]

started(k) ==
    [k EXCEPT !.steps = [@ EXCEPT ![current(k)] = "RUNNING"], !.attempts = 1, !.invoking = TRUE]

succeeded(k) ==
    [k EXCEPT !.steps = [@ EXCEPT ![current(k)] = "COMPLETED"],
              !.position = @ + 1, !.invoking = FALSE]

retried(k) ==
    [k EXCEPT !.steps = [@ EXCEPT ![current(k)] = "RETRYING"], !.attempts = @ + 1]

failed(k, state) ==
    [k EXCEPT !.steps = [@ EXCEPT ![current(k)] = state], !.state = state, !.invoking = FALSE]

Moves(k, l, stop) ==
    \/ \E plan \in Plan : k.state = "NONE" /\ schedulable(plan) /\ l = began(k, plan)
    \/ \E plan \in Plan : k.state = "NONE" /\ ~ schedulable(plan) /\ l = unordered(k, plan)
    \/ inLoop(k) /\ more(k) /\ stop /\ l = verdict(k, "CANCELLED")
    \/ inLoop(k) /\ more(k) /\ ~ stop /\ l = started(k)
    \/ inLoop(k) /\ ~ more(k) /\ l = verdict(k, "COMPLETED")
    \/ k.invoking /\ l = succeeded(k)
    \/ k.invoking /\ k.attempts < MaxAttempts /\ l = retried(k)
    \/ \E state \in {"FAILED", "TIMED_OUT"} : k.invoking /\ l = failed(k, state)

\* Every step is a move of one session or a cancellation.
LEMMA StepIsMove ==
    ASSUME TypeOK, Next
    PROVE  \/ session' = session /\ cancelled' \subseteq Session
           \/ \E s \in Session : \E l :
                  /\ Moves(session[s], l, s \in cancelled)
                  /\ session' = [session EXCEPT ![s] = l] /\ cancelled' = cancelled
<1>1. PICK s \in Session :
          \/ \E plan \in Plan : begin(s, plan) \/ beginThrows(s, plan)
          \/ progress(s)
          \/ cancel(s)
    BY DEF Next
<1> DEFINE k == session[s]
<1>2. session \in [Session -> SessionType] /\ k \in SessionType
    BY DEF TypeOK
<1>3. CASE cancel(s)
    BY <1>3 DEF cancel, TypeOK
<1>4. SUFFICES ASSUME ~ cancel(s)
      PROVE  \E l : /\ Moves(k, l, s \in cancelled)
                    /\ session' = [session EXCEPT ![s] = l] /\ cancelled' = cancelled
    BY <1>3
<1>5. ASSUME NEW plan \in Plan, begin(s, plan)
      PROVE  /\ Moves(k, began(k, plan), s \in cancelled)
             /\ session' = [session EXCEPT ![s] = began(k, plan)] /\ cancelled' = cancelled
    BY <1>2, <1>5 DEF begin, Moves, began, SessionType
<1>6. ASSUME NEW plan \in Plan, beginThrows(s, plan)
      PROVE  /\ Moves(k, unordered(k, plan), s \in cancelled)
             /\ session' = [session EXCEPT ![s] = unordered(k, plan)] /\ cancelled' = cancelled
    BY <1>2, <1>6 DEF beginThrows, Moves, unordered, SessionType
<1>7. ASSUME observeCancel(s)
      PROVE  /\ Moves(k, verdict(k, "CANCELLED"), s \in cancelled)
             /\ session' = [session EXCEPT ![s] = verdict(k, "CANCELLED")]
             /\ cancelled' = cancelled
    BY <1>2, <1>7 DEF observeCancel, atBoundary, stepsLeft, Moves, inLoop, more, verdict
<1>8. ASSUME startStep(s)
      PROVE  /\ Moves(k, started(k), s \in cancelled)
             /\ session' = [session EXCEPT ![s] = started(k)] /\ cancelled' = cancelled
    BY <1>2, <1>8 DEF startStep, atBoundary, stepsLeft, Moves, inLoop, more, started, current,
                      currentStep, SessionType
<1>9. ASSUME complete(s)
      PROVE  /\ Moves(k, verdict(k, "COMPLETED"), s \in cancelled)
             /\ session' = [session EXCEPT ![s] = verdict(k, "COMPLETED")]
             /\ cancelled' = cancelled
    BY <1>2, <1>9 DEF complete, atBoundary, stepsLeft, Moves, inLoop, more, verdict
<1>10. ASSUME NEW outcome \in Outcome, stepSucceeds(s, outcome)
       PROVE  /\ Moves(k, succeeded(k), s \in cancelled)
              /\ session' = [session EXCEPT ![s] = succeeded(k)] /\ cancelled' = cancelled
    BY <1>2, <1>10 DEF stepSucceeds, Moves, succeeded, current, currentStep, SessionType
<1>11. ASSUME NEW outcome \in Outcome, retryStep(s, outcome)
       PROVE  /\ Moves(k, retried(k), s \in cancelled)
              /\ session' = [session EXCEPT ![s] = retried(k)] /\ cancelled' = cancelled
    BY <1>2, <1>11 DEF retryStep, mayRetry, Moves, retried, current, currentStep, SessionType
<1>12. ASSUME NEW outcome \in Outcome, stepFails(s, outcome)
       PROVE  \E state \in {"FAILED", "TIMED_OUT"} :
                  /\ Moves(k, failed(k, state), s \in cancelled)
                  /\ session' = [session EXCEPT ![s] = failed(k, state)]
                  /\ cancelled' = cancelled
    <2>1. PICK state \in {"FAILED", "TIMED_OUT"} :
              /\ k.invoking /\ cancelled' = cancelled
              /\ session' = [session EXCEPT ![s].steps[currentStep(s)] = state,
                                            ![s].state = state, ![s].invoking = FALSE]
        BY <1>12 DEF stepFails
    <2>2. session' = [session EXCEPT ![s] = failed(k, state)]
        BY <1>2, <2>1 DEF failed, current, currentStep, SessionType
    <2>3. Moves(k, failed(k, state), s \in cancelled)
        BY <2>1 DEF Moves
    <2> QED
        BY <2>1, <2>2, <2>3
<1> QED
    BY <1>1, <1>4, <1>5, <1>6, <1>7, <1>8, <1>9, <1>10, <1>11, <1>12
       DEF progress, ownStep, invocationAnswers

LEMMA MoveTyped ==
    ASSUME NEW k \in SessionType, NEW l, NEW stop, Moves(k, l, stop)
    PROVE  l \in SessionType
<1>1. MaxAttempts \in Nat /\ 1 \in 0 .. MaxAttempts
    BY MaxAttemptsAssumption
<1>2. \A plan \in Plan : ordered(plan) \in Orders
    BY DEF Orders
<1>3. \A state \in StepStates : [k.steps EXCEPT ![current(k)] = state] \in [StepId -> StepStates]
    BY DEF SessionType
<1>4. /\ {"RUNNING", "READY", "CANCELLED", "COMPLETED", "FAILED", "TIMED_OUT"}
             \subseteq SessionStates
      /\ {"RUNNING", "COMPLETED", "RETRYING", "FAILED", "TIMED_OUT"} \subseteq StepStates
    BY DEF SessionStates, FinalSessionStates, StepStates
<1>5. k.position + 1 \in Nat
    BY DEF SessionType
<1>6. k.attempts < MaxAttempts => k.attempts + 1 \in 0 .. MaxAttempts
    BY <1>1 DEF SessionType
<1>7. ASSUME NEW plan \in Plan PROVE began(k, plan) \in SessionType /\ unordered(k, plan) \in SessionType
    BY <1>2, <1>4 DEF began, unordered, SessionType
<1>8. verdict(k, "CANCELLED") \in SessionType /\ verdict(k, "COMPLETED") \in SessionType
    BY <1>4 DEF verdict, SessionType
<1>9. started(k) \in SessionType /\ succeeded(k) \in SessionType
    BY <1>1, <1>3, <1>4, <1>5 DEF started, succeeded, SessionType
<1>10. k.attempts < MaxAttempts => retried(k) \in SessionType
    BY <1>3, <1>4, <1>6 DEF retried, SessionType
<1>11. \A state \in {"FAILED", "TIMED_OUT"} : failed(k, state) \in SessionType
    BY <1>3, <1>4 DEF failed, SessionType
<1> QED
    BY <1>7, <1>8, <1>9, <1>10, <1>11 DEF Moves

-----------------------------------------------------------------------------
(* The invariant that needs no hypothesis: a step that is being invoked     *)
(* has started.                                                             *)

Underway(k) ==
    k.invoking => k.state = "RUNNING" /\ (current(k) \in StepId => k.steps[current(k)] # "CREATED")

Started == TypeOK /\ \A s \in Session : Underway(session[s])

\* What was not started before a move was not, unless the move starts it.
LEMMA MoveKeepsUnderway ==
    ASSUME NEW k \in SessionType, NEW l, NEW stop, Moves(k, l, stop), Underway(k)
    PROVE  /\ Underway(l)
           /\ stop => \A i \in StepId : k.steps[i] = "CREATED" => l.steps[i] = "CREATED"
<1> USE DEF Underway, current, SessionType
<1>1. ASSUME NEW plan \in Plan, k.state = "NONE", l = began(k, plan) \/ l = unordered(k, plan)
      PROVE  Underway(l) /\ l.steps = k.steps
    BY <1>1 DEF began, unordered
<1>2. ASSUME inLoop(k), l = verdict(k, "CANCELLED") \/ l = verdict(k, "COMPLETED")
      PROVE  Underway(l) /\ l.steps = k.steps
    BY <1>2 DEF inLoop, verdict
<1>3. ASSUME inLoop(k), l = started(k)
      PROVE  Underway(l)
    BY <1>3 DEF inLoop, started
<1>4. ASSUME k.invoking, l = succeeded(k)
      PROVE  /\ Underway(l)
             /\ \A i \in StepId : k.steps[i] = "CREATED" => l.steps[i] = "CREATED"
    BY <1>4 DEF succeeded
<1>5. ASSUME k.invoking, l = retried(k)
      PROVE  /\ Underway(l)
             /\ \A i \in StepId : k.steps[i] = "CREATED" => l.steps[i] = "CREATED"
    BY <1>5 DEF retried
<1>6. ASSUME NEW state \in {"FAILED", "TIMED_OUT"}, k.invoking, l = failed(k, state)
      PROVE  /\ Underway(l)
             /\ \A i \in StepId : k.steps[i] = "CREATED" => l.steps[i] = "CREATED"
    BY <1>6 DEF failed
<1> HIDE DEF Underway, current, SessionType
<1> QED
    BY <1>1, <1>2, <1>3, <1>4, <1>5, <1>6 DEF Moves

LEMMA StartedHolds == Spec => []Started
<1>1. Init => Started
    <2>1. ASSUME Init PROVE TypeOK
        BY <2>1, MaxAttemptsAssumption
           DEF Init, TypeOK, NoSession, SessionType, SessionStates, StepStates, Orders
    <2> QED
        BY <2>1 DEF Init, Started, Underway, NoSession
<1>2. ASSUME Started, [Next]_vars PROVE Started'
    <2>1. CASE UNCHANGED vars
        BY <1>2, <2>1 DEF Started, TypeOK, vars
    <2>2. CASE session' = session /\ cancelled' \subseteq Session
        BY <1>2, <2>2 DEF Started, TypeOK
    <2>3. ASSUME NEW s \in Session, NEW l, Moves(session[s], l, s \in cancelled),
                 session' = [session EXCEPT ![s] = l], cancelled' = cancelled
          PROVE  Started'
        <3>1. session[s] \in SessionType /\ Underway(session[s])
            BY <1>2 DEF Started, TypeOK
        <3>2. l \in SessionType /\ Underway(l)
            BY <2>3, <3>1, MoveTyped, MoveKeepsUnderway
        <3> QED
            BY <1>2, <2>3, <3>2 DEF Started, TypeOK
    <2> QED
        BY <1>2, <2>1, <2>2, <2>3, StepIsMove DEF Started
<1> QED
    BY <1>1, <1>2, PTL DEF Spec

-----------------------------------------------------------------------------
(* The invariant about the order: what the loop has behind it is completed, *)
(* what it has before it was never started.                                 *)

\* How a session in some state leaves the step that the loop stands at.
StepAtHead(k) ==
    IF k.state = "RUNNING"
    THEN IF k.invoking THEN {"RUNNING", "RETRYING"} ELSE {"CREATED"}
    ELSE IF k.state = "CANCELLED" THEN {"CREATED"} ELSE {k.state}

Scheduled(k) ==
    /\ k.plan \in Plan /\ schedulable(k.plan) /\ k.order = ordered(k.plan)
    /\ k.position <= Len(k.order)
    /\ \A i \in 1 .. Len(k.order) :
           /\ i <= k.position => k.steps[k.order[i]] = "COMPLETED"
           /\ i = k.position + 1 => k.steps[k.order[i]] \in StepAtHead(k)
           /\ i > k.position + 1 => k.steps[k.order[i]] = "CREATED"
    /\ \A id \in StepId \ k.plan.steps : k.steps[id] = "CREATED"
    /\ k.state = "COMPLETED" => ~ more(k)
    /\ k.state \in {"CANCELLED", "FAILED", "TIMED_OUT"} => more(k)
    /\ k.invoking => k.state = "RUNNING" /\ more(k)

Explained(k) ==
    IF k.state \in {"NONE", "READY"}
    THEN /\ ~ k.invoking /\ k.position = 0 /\ \A id \in StepId : k.steps[id] = "CREATED"
         /\ k.state = "READY" => k.plan \in Plan /\ ~ schedulable(k.plan)
    ELSE Scheduled(k)

Explains == TypeOK /\ \A s \in Session : Explained(session[s])

\* An accepted plan's order.
Topological(plan, order) ==
    /\ Len(order) \in Nat /\ \A i \in 1 .. Len(order) : order[i] \in plan.steps
    /\ \A i, j \in 1 .. Len(order) : order[i] = order[j] => i = j
    /\ \A id \in plan.steps : \E i \in 1 .. Len(order) : order[i] = id
    /\ \A i \in 1 .. Len(order) : \A d \in plan.dependsOn[order[i]] :
           \E j \in 1 .. i - 1 : order[j] = d
    /\ plan.steps \subseteq StepId

LEMMA OrderIsTopological ==
    ASSUME NEW plan \in Plan, schedulable(plan)
    PROVE  Topological(plan, ordered(plan))
<1> DEFINE order == ordered(plan)
<1>1. /\ order \in Seq(plan.steps)
      /\ \A i, j \in 1 .. Len(order) : order[i] = order[j] => i = j
      /\ \A id \in plan.steps : \E i \in 1 .. Len(order) : order[i] = id
      /\ \A i \in 1 .. Len(order) : \A d \in plan.dependsOn[order[i]] :
             \E j \in 1 .. i - 1 : order[j] = d
    BY ScheduleSound DEF sound
<1> HIDE DEF order
<1>2. Len(order) \in Nat /\ order \in [1 .. Len(order) -> plan.steps]
    BY <1>1, LenProperties
<1>3. plan.steps \subseteq StepId
    BY PlanAssumption
<1>4. Topological(plan, order)
    BY <1>1, <1>2, <1>3 DEF Topological
<1> QED
    BY <1>4 DEF order

SetsHead(k, steps, state) == steps = [k.steps EXCEPT ![current(k)] = state]

\* A step that moves only the step at the head of the loop.
LEMMA HeadMoves ==
    ASSUME NEW k \in SessionType, Scheduled(k), more(k), Topological(k.plan, k.order),
           NEW state, NEW steps, SetsHead(k, steps, state)
    PROVE  /\ \A i \in 1 .. Len(k.order) :
                  steps[k.order[i]] = IF i = k.position + 1 THEN state ELSE k.steps[k.order[i]]
           /\ \A id \in StepId \ k.plan.steps : steps[id] = "CREATED"
<1>1. k.position + 1 \in 1 .. Len(k.order) /\ k.steps \in [StepId -> StepStates]
    BY DEF more, Topological, SessionType
<1>2. current(k) \in k.plan.steps
    BY <1>1 DEF current, Topological
<1>3. \A i \in 1 .. Len(k.order) : k.order[i] \in StepId /\
                                    (k.order[i] = current(k) <=> i = k.position + 1)
    BY <1>1 DEF current, Topological
<1>4. \A i \in 1 .. Len(k.order) :
          steps[k.order[i]] = IF i = k.position + 1 THEN state ELSE k.steps[k.order[i]]
    BY <1>1, <1>3 DEF SetsHead
<1>5. \A id \in StepId \ k.plan.steps : steps[id] = "CREATED"
    BY <1>1, <1>2 DEF Scheduled, SetsHead
<1> QED
    BY <1>4, <1>5

LEMMA MoveKeepsExplained ==
    ASSUME NEW k \in SessionType, NEW l, NEW stop, Moves(k, l, stop),
           Explained(k)
    PROVE  Explained(l)
<1>1. k.position \in Nat /\ k.steps \in [StepId -> StepStates]
    BY DEF SessionType
<1>2. ASSUME NEW plan \in Plan, k.state = "NONE", schedulable(plan), l = began(k, plan)
      PROVE  Explained(l)
    <2>1. Topological(plan, ordered(plan))
        BY <1>2, OrderIsTopological
    <2>2. /\ l.state = "RUNNING" /\ l.plan = plan /\ l.order = ordered(plan)
          /\ l.position = k.position /\ l.steps = k.steps /\ l.invoking = k.invoking
        BY <1>2 DEF began, SessionType
    <2>3. /\ ~ l.invoking /\ l.position = 0
          /\ \A id \in StepId : l.steps[id] = "CREATED"
        BY <1>2, <2>2 DEF Explained
    <2>4. \A i \in 1 .. Len(l.order) : l.order[i] \in StepId
        BY <2>1, <2>2 DEF Topological
    <2>5. Len(l.order) \in Nat
        BY <2>1, <2>2 DEF Topological
    <2>6. \A i \in 1 .. Len(l.order) :
              /\ ~ (i <= l.position) /\ l.steps[l.order[i]] = "CREATED"
        BY <2>3, <2>4, <2>5
    <2>7. Scheduled(l)
        BY <1>2, <2>2, <2>3, <2>5, <2>6 DEF Scheduled, StepAtHead
    <2> QED
        BY <2>2, <2>7 DEF Explained
<1>3. ASSUME NEW plan \in Plan, k.state = "NONE", ~ schedulable(plan), l = unordered(k, plan)
      PROVE  Explained(l)
    BY <1>3 DEF unordered, Explained, SessionType
<1>4. ASSUME k.state = "RUNNING"
      PROVE  Scheduled(k) /\ Topological(k.plan, k.order)
    BY <1>4, OrderIsTopological DEF Explained, Scheduled
<1>5. ASSUME inLoop(k), more(k), l = verdict(k, "CANCELLED")
      PROVE  Explained(l)
    <2>1. /\ l.state = "CANCELLED" /\ l.plan = k.plan /\ l.order = k.order
          /\ l.position = k.position /\ l.steps = k.steps /\ l.invoking = k.invoking
        BY <1>5 DEF verdict, SessionType
    <2>2. Scheduled(k) /\ StepAtHead(l) = StepAtHead(k) /\ ~ k.invoking
        BY <1>4, <1>5, <2>1 DEF inLoop, StepAtHead
    <2> QED
        BY <1>5, <2>1, <2>2 DEF Explained, Scheduled, more
<1>6. ASSUME inLoop(k), ~ more(k), l = verdict(k, "COMPLETED")
      PROVE  Explained(l)
    <2>1. /\ l.state = "COMPLETED" /\ l.plan = k.plan /\ l.order = k.order
          /\ l.position = k.position /\ l.steps = k.steps /\ l.invoking = k.invoking
        BY <1>6 DEF verdict, SessionType
    <2>2. Scheduled(k) /\ ~ k.invoking /\ Len(k.order) \in Nat
        BY <1>4, <1>6 DEF inLoop, Topological
    <2>3. \A i \in 1 .. Len(k.order) : i <= k.position
        BY <1>1, <1>6, <2>2 DEF more
    <2> QED
        BY <1>1, <1>6, <2>1, <2>2, <2>3 DEF Explained, Scheduled, more
<1>7. ASSUME inLoop(k), more(k), l = started(k)
      PROVE  Explained(l)
    <2>1. /\ l.state = "RUNNING" /\ l.plan = k.plan /\ l.order = k.order /\ l.invoking
          /\ l.position = k.position /\ SetsHead(k, l.steps, "RUNNING")
        BY <1>7 DEF started, inLoop, SessionType, SetsHead
    <2>2. Scheduled(k) /\ Topological(k.plan, k.order)
        BY <1>4, <1>7 DEF inLoop
    <2>3. /\ \A i \in 1 .. Len(k.order) :
                 l.steps[k.order[i]] = IF i = k.position + 1 THEN "RUNNING"
                                       ELSE k.steps[k.order[i]]
          /\ \A id \in StepId \ k.plan.steps : l.steps[id] = "CREATED"
        BY <1>7, <2>1, <2>2, HeadMoves
    <2>4. StepAtHead(l) = {"RUNNING", "RETRYING"}
        BY <2>1 DEF StepAtHead
    <2> QED
        BY <1>1, <1>7, <2>1, <2>2, <2>3, <2>4 DEF Explained, Scheduled, more
<1>8. ASSUME k.invoking
      PROVE  k.state = "RUNNING" /\ more(k) /\ Scheduled(k) /\ Topological(k.plan, k.order)
    <2>1. k.state = "RUNNING" /\ more(k)
        BY <1>8 DEF Explained, Scheduled
    <2> QED
        BY <1>4, <2>1
<1>9. ASSUME k.invoking, l = succeeded(k)
      PROVE  Explained(l)
    <2>1. /\ l.state = "RUNNING" /\ l.plan = k.plan /\ l.order = k.order /\ ~ l.invoking
          /\ l.position = k.position + 1
          /\ SetsHead(k, l.steps, "COMPLETED")
        BY <1>8, <1>9 DEF succeeded, SessionType, SetsHead
    <2>2. /\ \A i \in 1 .. Len(k.order) :
                 l.steps[k.order[i]] = IF i = k.position + 1 THEN "COMPLETED"
                                       ELSE k.steps[k.order[i]]
          /\ \A id \in StepId \ k.plan.steps : l.steps[id] = "CREATED"
        BY <1>8, <1>9, <2>1, HeadMoves
    <2>3. StepAtHead(l) = {"CREATED"}
        BY <2>1 DEF StepAtHead
    <2>4. Len(k.order) \in Nat
        BY <1>8, <1>9 DEF Topological
    <2>5. ASSUME NEW i \in 1 .. Len(k.order)
          PROVE  /\ i <= l.position => l.steps[k.order[i]] = "COMPLETED"
                 /\ i >= l.position + 1 => l.steps[k.order[i]] = "CREATED"
        <3>1. i <= l.position => i <= k.position \/ i = k.position + 1
            BY <1>1, <2>1
        <3>2. i >= l.position + 1 => i > k.position + 1 /\ i # k.position + 1
            BY <1>1, <2>1
        <3>3. /\ i <= k.position => k.steps[k.order[i]] = "COMPLETED"
              /\ i > k.position + 1 => k.steps[k.order[i]] = "CREATED"
            BY <1>8, <1>9 DEF Scheduled
        <3> QED
            BY <2>2, <3>1, <3>2, <3>3
    <2>6. l.position <= Len(l.order)
        BY <1>1, <1>8, <1>9, <2>1, <2>4 DEF more
    <2>7. \A i \in 1 .. Len(l.order) :
              /\ i <= l.position => l.steps[l.order[i]] = "COMPLETED"
              /\ i = l.position + 1 => l.steps[l.order[i]] \in StepAtHead(l)
              /\ i > l.position + 1 => l.steps[l.order[i]] = "CREATED"
        BY <1>1, <2>1, <2>3, <2>4, <2>5
    <2> QED
        BY <1>8, <1>9, <2>1, <2>2, <2>6, <2>7 DEF Explained, Scheduled
<1>10. ASSUME k.invoking, l = retried(k)
       PROVE  Explained(l)
    <2>1. /\ l.state = "RUNNING" /\ l.plan = k.plan /\ l.order = k.order /\ l.invoking
          /\ l.position = k.position /\ SetsHead(k, l.steps, "RETRYING")
        BY <1>8, <1>10 DEF retried, SessionType, SetsHead
    <2>2. /\ \A i \in 1 .. Len(k.order) :
                 l.steps[k.order[i]] = IF i = k.position + 1 THEN "RETRYING"
                                       ELSE k.steps[k.order[i]]
          /\ \A id \in StepId \ k.plan.steps : l.steps[id] = "CREATED"
        BY <1>8, <1>10, <2>1, HeadMoves
    <2>3. StepAtHead(l) = {"RUNNING", "RETRYING"}
        BY <2>1 DEF StepAtHead
    <2> QED
        BY <1>1, <1>8, <1>10, <2>1, <2>2, <2>3 DEF Explained, Scheduled, more
<1>11. ASSUME NEW state \in {"FAILED", "TIMED_OUT"}, k.invoking, l = failed(k, state)
       PROVE  Explained(l)
    <2>1. /\ l.state = state /\ l.plan = k.plan /\ l.order = k.order /\ ~ l.invoking
          /\ l.position = k.position /\ SetsHead(k, l.steps, state)
        BY <1>8, <1>11 DEF failed, SessionType, SetsHead
    <2>2. /\ \A i \in 1 .. Len(k.order) :
                 l.steps[k.order[i]] = IF i = k.position + 1 THEN state
                                       ELSE k.steps[k.order[i]]
          /\ \A id \in StepId \ k.plan.steps : l.steps[id] = "CREATED"
        BY <1>8, <1>11, <2>1, HeadMoves
    <2>3. StepAtHead(l) = {state}
        BY <1>11, <2>1 DEF StepAtHead
    <2> QED
        BY <1>1, <1>8, <1>11, <2>1, <2>2, <2>3 DEF Explained, Scheduled, more
<1> QED
    BY <1>2, <1>3, <1>5, <1>6, <1>7, <1>9, <1>10, <1>11 DEF Moves

LEMMA ExplainsHolds == Spec => []Explains
<1>1. Init => Explains
    <2>1. ASSUME Init PROVE TypeOK
        BY <2>1, MaxAttemptsAssumption
           DEF Init, TypeOK, NoSession, SessionType, SessionStates, StepStates, Orders
    <2> QED
        BY <2>1 DEF Init, Explains, Explained, NoSession
<1>2. ASSUME Explains, [Next]_vars PROVE Explains'
    <2>1. CASE UNCHANGED vars
        BY <1>2, <2>1 DEF Explains, TypeOK, vars
    <2>2. CASE session' = session /\ cancelled' \subseteq Session
        BY <1>2, <2>2 DEF Explains, TypeOK
    <2>3. ASSUME NEW s \in Session, NEW l, Moves(session[s], l, s \in cancelled),
                 session' = [session EXCEPT ![s] = l], cancelled' = cancelled
          PROVE  Explains'
        <3>1. session[s] \in SessionType /\ Explained(session[s])
            BY <1>2 DEF Explains, TypeOK
        <3>2. l \in SessionType /\ Explained(l)
            BY <2>3, <3>1, MoveTyped, MoveKeepsExplained
        <3> QED
            BY <1>2, <2>3, <3>2 DEF Explains, TypeOK
    <2> QED
        BY <1>2, <2>1, <2>2, <2>3, StepIsMove DEF Explains
<1> QED
    BY <1>1, <1>2, PTL DEF Spec

-----------------------------------------------------------------------------
(* The theorems.                                                            *)

\* The session store and the loop variables keep their types.
THEOREM SupervisorTypeCorrect == Spec => []TypeOK
<1>1. Started => TypeOK
    BY DEF Started
<1> QED
    BY <1>1, StartedHolds, PTL

\* After cancel() no further step of the session is started: only the retries
\* of the step under way go on (the cancellation check at the loop head).
THEOREM CancelledStartsNothing == Spec => CancelStopsNewSteps
<1>1. ASSUME Started, Next, NEW s \in Session, s \in cancelled, NEW i \in StepId,
             session[s].steps[i] = "CREATED"
      PROVE  session'[s].steps[i] = "CREATED"
    <2>1. CASE session' = session
        BY <1>1, <2>1
    <2>2. ASSUME NEW t \in Session, NEW l, Moves(session[t], l, t \in cancelled),
                 session' = [session EXCEPT ![t] = l]
          PROVE  session'[s].steps[i] = "CREATED"
        <3>1. session \in [Session -> SessionType] /\ Underway(session[t])
            BY <1>1 DEF Started, TypeOK
        <3>2. CASE s = t
            <4>1. Moves(session[s], l, s \in cancelled) /\ Underway(session[s])
                  /\ session[s] \in SessionType
                BY <2>2, <3>1, <3>2
            <4>2. s \in cancelled =>
                      \A j \in StepId : session[s].steps[j] = "CREATED" => l.steps[j] = "CREATED"
                BY <4>1, MoveKeepsUnderway
            <4>3. l.steps[i] = "CREATED"
                BY <1>1, <4>2
            <4> QED
                BY <2>2, <3>1, <3>2, <4>3
        <3>3. CASE s # t
            BY <1>1, <2>2, <3>1, <3>3
        <3> QED
            BY <3>2, <3>3
    <2> QED
        BY <1>1, <2>1, <2>2, StepIsMove DEF Started
<1>2. ASSUME Started, [Next]_vars
      PROVE  [\A s \in Session : s \in cancelled =>
                  \A i \in StepId : session[s].steps[i] = "CREATED" =>
                                        session'[s].steps[i] = "CREATED"]_vars
    BY <1>1, <1>2
<1> QED
    BY <1>2, StartedHolds, PTL DEF Spec, CancelStopsNewSteps

\* A step is started only after everything it depends
\* on has completed: retries, failures and cancellations leave the loop without
\* skipping or repeating a step.
THEOREM DependenciesFirst == Spec => []DependenciesCompleteFirst
<1>1. ASSUME Explains, NEW s \in Session, NEW i \in StepId, session[s].steps[i] # "CREATED",
             NEW d \in session[s].plan.dependsOn[i]
      PROVE  session[s].steps[d] = "COMPLETED"
    <2> DEFINE k == session[s]
    <2>1. k \in SessionType /\ Explained(k)
        BY <1>1 DEF Explains, TypeOK
    <2>2. Scheduled(k) /\ i \in k.plan.steps
        BY <1>1, <2>1 DEF Explained, Scheduled
    <2>3. Topological(k.plan, k.order)
        BY <2>2, OrderIsTopological DEF Scheduled
    <2> HIDE DEF k
    <2>4. PICK n \in 1 .. Len(k.order) : k.order[n] = i
        BY <2>2, <2>3 DEF Topological
    <2>5. n <= k.position + 1 /\ k.position \in Nat /\ Len(k.order) \in Nat
        <3>1. k.position \in Nat /\ Len(k.order) \in Nat /\ k.steps[i] # "CREATED"
            BY <1>1, <2>1, <2>3 DEF Topological, SessionType, k
        <3>2. ~ (n > k.position + 1)
            BY <2>2, <2>4, <3>1 DEF Scheduled
        <3> QED
            BY <3>1, <3>2
    <2>6. PICK m \in 1 .. n - 1 : k.order[m] = d
        BY <1>1, <2>3, <2>4 DEF Topological, k
    <2>7. m \in 1 .. Len(k.order) /\ m <= k.position
        BY <2>5
    <2> QED
        BY <2>2, <2>6, <2>7 DEF Scheduled, k
<1>2. Explains => DependenciesCompleteFirst
    BY <1>1 DEF DependenciesCompleteFirst
<1> QED
    BY <1>2, ExplainsHolds, PTL

\* The step records of a finished session explain its
\* verdict: all completed, or one ended that way, or some were never started.
THEOREM VerdictsExplained == Spec => []VerdictMatchesSteps
<1>1. ASSUME Explains, NEW s \in Session, finished(s)
      PROVE  LET ended(state) == {i \in session[s].plan.steps : session[s].steps[i] = state}
             IN  /\ ended("RUNNING") \cup ended("RETRYING") = {}
                 /\ session[s].state = "COMPLETED" <=>
                        ended("COMPLETED") = session[s].plan.steps
                 /\ session[s].state = "CANCELLED" =>
                        ended("CREATED") # {} /\ ended("FAILED") \cup ended("TIMED_OUT") = {}
                 /\ session[s].state \in {"FAILED", "TIMED_OUT"} =>
                        Cardinality(ended(session[s].state)) = 1
    <2> DEFINE k == session[s]
               ended(state) == {i \in k.plan.steps : k.steps[i] = state}
    <2>1. /\ k \in SessionType /\ Explained(k)
          /\ k.state \in {"COMPLETED", "FAILED", "CANCELLED", "TIMED_OUT"}
        BY <1>1 DEF Explains, TypeOK, finished, FinalSessionStates
    <2>2. Scheduled(k) /\ Topological(k.plan, k.order)
        BY <2>1, OrderIsTopological DEF Explained, Scheduled
    <2> HIDE DEF k
    <2>3. k.position \in Nat /\ Len(k.order) \in Nat
        BY <2>1, <2>2 DEF SessionType, Topological
    <2>4. ASSUME NEW i \in 1 .. Len(k.order)
          PROVE  \/ i <= k.position /\ k.steps[k.order[i]] = "COMPLETED"
                 \/ i = k.position + 1 /\ k.steps[k.order[i]] \in StepAtHead(k)
                 \/ i > k.position + 1 /\ k.steps[k.order[i]] = "CREATED"
        BY <2>2, <2>3 DEF Scheduled
    <2>5. \A id \in k.plan.steps : \E i \in 1 .. Len(k.order) : k.order[i] = id
        BY <2>2 DEF Topological
    <2>6. CASE k.state = "COMPLETED"
        <3>1. \A i \in 1 .. Len(k.order) : i <= k.position
            BY <2>2, <2>3, <2>6 DEF Scheduled, more
        <3>2. \A id \in k.plan.steps : k.steps[id] = "COMPLETED"
            BY <2>3, <2>4, <2>5, <3>1
        <3> QED
            BY <2>6, <3>2 DEF k
    <2>7. ASSUME k.state \in {"CANCELLED", "FAILED", "TIMED_OUT"}
          PROVE  /\ k.position + 1 \in 1 .. Len(k.order)
                 /\ k.order[k.position + 1] \in k.plan.steps
                 /\ k.steps[k.order[k.position + 1]] \in StepAtHead(k)
        <3>1. k.position + 1 \in 1 .. Len(k.order)
            BY <2>2, <2>3, <2>7 DEF Scheduled, more
        <3> QED
            BY <2>2, <3>1 DEF Scheduled, Topological
    <2>8. CASE k.state = "CANCELLED"
        <3>1. k.steps[k.order[k.position + 1]] = "CREATED"
            BY <2>7, <2>8 DEF StepAtHead
        <3>2. \A id \in k.plan.steps : k.steps[id] \in {"COMPLETED", "CREATED"}
            BY <2>4, <2>5, <2>8 DEF StepAtHead
        <3> QED
            BY <2>7, <2>8, <3>1, <3>2 DEF k
    <2>9. CASE k.state \in {"FAILED", "TIMED_OUT"}
        <3> DEFINE id == k.order[k.position + 1]
        <3>1. id \in k.plan.steps /\ k.steps[id] = k.state
            BY <2>7, <2>9 DEF StepAtHead
        <3>2. \A x \in k.plan.steps \ {id} : k.steps[x] \in {"COMPLETED", "CREATED"}
            BY <2>3, <2>4, <2>5
        <3> HIDE DEF id
        <3>3. {i \in k.plan.steps : k.steps[i] = k.state} = {id}
            BY <2>9, <3>1, <3>2
        <3>4. Cardinality({id}) = 1
            BY FS_Singleton
        <3>5. k.state # "COMPLETED" /\ ended("COMPLETED") # k.plan.steps
            BY <2>9, <3>1
        <3>6. ended("RUNNING") \cup ended("RETRYING") = {}
            BY <2>9, <3>1, <3>2
        <3> QED
            BY <2>9, <3>3, <3>4, <3>5, <3>6 DEF k
    <2> QED
        BY <2>1, <2>6, <2>8, <2>9
<1>2. Explains => VerdictMatchesSteps
    BY <1>1 DEF VerdictMatchesSteps
<1> QED
    BY <1>2, ExplainsHolds, PTL

\* A plan is refused exactly when its steps cannot be ordered at all, and what
\* the loop goes through is a sound order of the whole plan: schedule() neither
\* rejects a sound plan nor runs part of a cyclic one.
THEOREM OrderedExactly == Spec => []OrderedIffOrderable
<1>1. ASSUME Explains, NEW s \in Session, session[s].state # "NONE"
      PROVE  /\ session[s].state = "READY" <=> ~ Orderable(session[s].plan)
             /\ session[s].state # "READY" => sound(session[s].order, session[s].plan)
    <2> DEFINE k == session[s]
    <2>1. Explained(k)
        BY <1>1 DEF Explains
    <2> HIDE DEF k
    <2>2. CASE k.state = "READY"
        <3>1. k.plan \in Plan /\ ~ schedulable(k.plan)
            BY <2>1, <2>2 DEF Explained
        <3> QED
            BY <2>2, <3>1, ScheduleComplete DEF k
    <2>3. CASE k.state # "READY"
        <3>1. k.plan \in Plan /\ schedulable(k.plan) /\ k.order = ordered(k.plan)
            BY <1>1, <2>1, <2>3 DEF Explained, Scheduled, k
        <3>2. sound(k.order, k.plan)
            BY <3>1, ScheduleSound
        <3>3. \A i \in k.plan.steps : k.plan.dependsOn[i] \subseteq k.plan.steps
            BY <3>1 DEF schedulable, hasUnknownDependency
        <3> QED
            BY <2>3, <3>2, <3>3, SoundOrderable DEF k
    <2> QED
        BY <2>2, <2>3 DEF k
<1>2. Explains => OrderedIffOrderable
    BY <1>1 DEF OrderedIffOrderable
<1> QED
    BY <1>2, ExplainsHolds, PTL
=============================================================================
