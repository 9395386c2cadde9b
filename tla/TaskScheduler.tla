---------------------------- MODULE TaskScheduler ----------------------------
(***************************************************************************)
(* Kahn's topological sort of an execution plan.  A plan is a record with  *)
(* the set "steps" of its step identifiers and, for every step, the set    *)
(* "dependsOn" of the steps it waits for.  Identifiers are numbers, whose  *)
(* order stands for the string order by which the code breaks ties.        *)
(* Recursive functions only: the modules above this one are proved about.  *)
(***************************************************************************)
EXTENDS Naturals, Sequences, FiniteSets

\* queue.sort() and ready.sort().
sorted(S) ==
    CHOOSE list \in [1 .. Cardinality(S) -> S] :
        \A i, j \in 1 .. Cardinality(S) : i < j => list[i] < list[j]

hasUnknownDependency(plan) ==
    \E s \in plan.steps : ~ (plan.dependsOn[s] \subseteq plan.steps)

\* In-degrees, and the queue of the steps that wait for nothing.
initialSort(plan) ==
    [ordered  |-> <<>>,
     queue    |-> sorted({s \in plan.steps : plan.dependsOn[s] = {}}),
     inDegree |-> [s \in plan.steps |-> Cardinality(plan.dependsOn[s])]]

\* One turn of the loop: take the head of the queue, release its dependents.
takeNext(plan, sort) ==
    LET id         == Head(sort.queue)
        dependents == {s \in plan.steps : id \in plan.dependsOn[s]}
        inDegree   == [s \in plan.steps |->
                          sort.inDegree[s] - (IF s \in dependents THEN 1 ELSE 0)]
    IN  [ordered  |-> Append(sort.ordered, id),
         queue    |-> Tail(sort.queue) \o sorted({s \in dependents : inDegree[s] = 0}),
         inDegree |-> inDegree]

\* A step enters the queue at most once, so the number of steps bounds the loop.
ordered(plan) ==
    LET turn[n \in 0 .. Cardinality(plan.steps)] ==
            IF n = 0 THEN initialSort(plan)
            ELSE LET sort == turn[n - 1]
                 IN  IF sort.queue = <<>> THEN sort ELSE takeNext(plan, sort)
    IN  turn[Cardinality(plan.steps)].ordered

\* Mutant: the order is not compared with the number of steps.
schedulableCyclic(plan) == ~ hasUnknownDependency(plan)

\* schedule() throws on an unknown dependency and on a cycle.
schedulable(plan) ==
    /\ ~ hasUnknownDependency(plan)
    /\ Len(ordered(plan)) = Cardinality(plan.steps)
=============================================================================
