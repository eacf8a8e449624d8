------------------------------ MODULE TaskOrder ------------------------------
(***************************************************************************)
(* orderTasksForScheduling (src/src/scheduler.ts): the tasks sorted by     *)
(* compareTasks, then a depth-first visit that puts the dependencies of a  *)
(* task before it and steps over a dependency that is being visited        *)
(* already (a cycle).  The recursion of visit is the variable stack; a     *)
(* task is named by its index in the batch.                                *)
(***************************************************************************)
EXTENDS Integers, Sequences, FiniteSets

CONSTANTS
  Batches,   \* the task lists that may be ordered: sequences of task records
  None       \* an absent optional field

ASSUME BatchAssumption ==
  \A tasks \in Batches :
    /\ Len(tasks) \in Nat
    /\ \A i \in 1..Len(tasks) : /\ tasks[i].dependencies \in Seq(STRING)
                                /\ tasks[i].priority \in Nat /\ tasks[i].created \in Int
                                /\ tasks[i].deadline \in Int \cup {None}
    /\ \A i, j \in 1..Len(tasks) : tasks[i].id = tasks[j].id => i = j

VARIABLES
  batch,     \* the task list being ordered
  base,      \* the tasks sorted by compareTasks
  root,      \* position in the sorted list of the next visit
  stack,     \* the visits in progress, innermost first: [task, dep]
  ordered    \* the tasks already visited, in order

orderVars == <<batch, base, root, stack, ordered>>

-----------------------------------------------------------------------------
Tasks == 1..Len(batch)

DeadlineBefore(a, b) == a # None /\ (b = None \/ a < b)

\* compareTasks; the sort is stable, so equal tasks keep the order of the batch.
Before(i, j) ==
  LET a == batch[i]
      b == batch[j]
  IN  \/ a.priority < b.priority
      \/ /\ a.priority = b.priority
         /\ \/ DeadlineBefore(a.deadline, b.deadline)
            \/ /\ a.deadline = b.deadline
               /\ a.created < b.created \/ (a.created = b.created /\ i < j)

\* baseOrder: the sorted permutation of the batch.
Sorted(order) ==
  /\ \A i \in Tasks : \E k \in Tasks : order[k] = i
  /\ \A k, l \in Tasks : k < l => Before(order[k], order[l])

Visited == {ordered[k] : k \in 1..Len(ordered)}
Visiting == {stack[k].task : k \in 1..Len(stack)}

\* tasksById.get(id), for an id of the batch.
TaskWithId(id) == CHOOSE i \in Tasks : batch[i].id = id
Known(id) == \E i \in Tasks : batch[i].id = id

DependenciesOf(i) == batch[i].dependencies

-----------------------------------------------------------------------------
OrderInit ==
  /\ batch \in Batches
  /\ base \in {order \in [Tasks -> Tasks] : Sorted(order)}
  /\ root = 1 /\ stack = <<>> /\ ordered = <<>>

\* (mutant) A task that a dependent has pulled forward is visited again.
VisitRootAgain ==
  /\ stack = <<>> /\ root <= Len(batch)
  /\ root' = root + 1
  /\ stack' = <<[task |-> base[root], dep |-> 1]>>
  /\ UNCHANGED <<batch, base, ordered>>

\* for (const task of baseOrder) visit(task)
VisitRoot ==
  /\ stack = <<>> /\ root <= Len(batch)
  /\ root' = root + 1
  /\ stack' = IF base[root] \in Visited THEN <<>>
              ELSE <<[task |-> base[root], dep |-> 1]>>
  /\ UNCHANGED <<batch, base, ordered>>

\* One turn of the loop over task.dependencies: a dependency outside the batch
\* is ignored, one visited or being visited returns at once.
VisitDependency ==
  /\ stack # <<>>
  /\ LET top == Head(stack)
         id == DependenciesOf(top.task)[top.dep]
         rest == <<[top EXCEPT !.dep = @ + 1]>> \o Tail(stack)
     IN  /\ top.dep <= Len(DependenciesOf(top.task))
         /\ stack' =
              IF ~Known(id) \/ TaskWithId(id) \in Visited \cup Visiting THEN rest
              ELSE <<[task |-> TaskWithId(id), dep |-> 1]>> \o rest
  /\ UNCHANGED <<batch, base, root, ordered>>

\* (mutant) A finished task is listed in front of the ones before it.
LeaveFirstInFront ==
  /\ stack # <<>>
  /\ Head(stack).dep > Len(DependenciesOf(Head(stack).task))
  /\ ordered' = <<Head(stack).task>> \o ordered
  /\ stack' = Tail(stack)
  /\ UNCHANGED <<batch, base, root>>

Leave ==
  /\ stack # <<>>
  /\ Head(stack).dep > Len(DependenciesOf(Head(stack).task))
  /\ ordered' = Append(ordered, Head(stack).task)
  /\ stack' = Tail(stack)
  /\ UNCHANGED <<batch, base, root>>

OrderDone == stack = <<>> /\ root > Len(batch)

OrderNext == VisitRoot \/ VisitDependency \/ Leave

OrderSpec == OrderInit /\ [][OrderNext]_orderVars

-----------------------------------------------------------------------------
OrderTypeOK ==
  /\ batch \in Batches
  /\ base \in [Tasks -> Tasks]
  /\ root \in 1..Len(batch) + 1
  /\ stack \in Seq([task : Tasks, dep : Nat \ {0}])
  /\ ordered \in Seq(Tasks)

Edge(i, j) == \E k \in 1..Len(DependenciesOf(i)) :
                Known(DependenciesOf(i)[k]) /\ TaskWithId(DependenciesOf(i)[k]) = j

\* j is reached from i over one or more dependencies.  A shortest path visits
\* no task twice, so paths of up to Len(batch) edges are enough.
Reaches(i, j) ==
  \E n \in 1..Len(batch) : \E path \in [1..n -> Tasks] :
    /\ Edge(i, path[1]) /\ path[n] = j
    /\ \A k \in 1..n - 1 : Edge(path[k], path[k + 1])

Position(i) == CHOOSE k \in 1..Len(ordered) : ordered[k] = i

\* Every task of the batch is ordered exactly once, whatever the dependencies.
EveryTaskOnce ==
  OrderDone => \A i \in Tasks : \E k \in 1..Len(ordered) :
                 ordered[k] = i /\ \A l \in 1..Len(ordered) : ordered[l] = i => l = k

\* A dependency comes before its dependent unless the two lie on a cycle, also
\* when the dependent was sorted first or was reached through a third task.
DependenciesFirst ==
  OrderDone => \A i, j \in Tasks :
                 (Position(i) < Position(j) /\ Edge(i, j)) => Reaches(j, i)

\* Only a dependency may overtake: a task that leaves the order of compareTasks
\* is needed by the task it overtakes or by one sorted before that.
OnlyDependenciesOvertake ==
  OrderDone => \A i, j \in Tasks :
    (Position(j) < Position(i) /\ Before(i, j)) =>
      \E r \in Tasks : (r = i \/ Before(r, i)) /\ Reaches(r, j)

\* The order is that of compareTasks, departed from for dependencies and for nothing else.
OrderFollowsDependencies == DependenciesFirst /\ OnlyDependenciesOvertake

=============================================================================
