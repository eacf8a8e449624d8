--------------------------- MODULE SchedulerProofs ---------------------------
(***************************************************************************)
(* createSchedule and findSlot, for every input.  First the order of the   *)
(* tasks: the visit lists each task once, in the order of the sort,        *)
(* departed from for dependencies only.  Second the sweep of findSlot: all *)
(* it offers is free, it passes over no earlier free slot, and it answers  *)
(* what the set definition FindSlots says.  Third the placement, which     *)
(* uses FindSlots: a task is handled once, so the blocks it must keep      *)
(* clear of, which exclude its own, are all the blocks there are, and      *)
(* nothing is double booked.  Last the contract: when the loop ends, what  *)
(* is returned meets PlanContract, so that the scheduler implements        *)
(* Planning.                                                               *)
(***************************************************************************)
EXTENDS Scheduler, SlotSearch, FiniteSetTheorems, WellFoundedInduction, TLAPS

Frame == [task : Tasks, dep : Nat \ {0}]

\* The visit lists no task twice, and each task sorted before root is listed or
\* being visited.
OrderInv ==
  /\ OrderTypeOK
  /\ Sorted(base)
  /\ \A k, l \in 1..Len(ordered) : ordered[k] = ordered[l] => k = l
  /\ \A k, l \in 1..Len(stack) : stack[k].task = stack[l].task => k = l
  /\ Visited \cap Visiting = {}
  /\ \A k \in 1..root - 1 : base[k] \in Visited \cup Visiting

-----------------------------------------------------------------------------
(* Sequences used as a stack. *)

\* Pushing a frame on a stack, or putting another frame in place of its top.
LEMMA PushOnStack ==
  ASSUME NEW S, NEW s \in Seq(S), NEW x \in S
  PROVE  /\ <<x>> \o s \in Seq(S) /\ Len(<<x>> \o s) = Len(s) + 1
         /\ (<<x>> \o s)[1] = x
         /\ \A k \in 2..Len(s) + 1 : (<<x>> \o s)[k] = s[k - 1]
OBVIOUS

LEMMA TailOfStack ==
  ASSUME NEW S, NEW s \in Seq(S), s # <<>>
  PROVE  /\ Tail(s) \in Seq(S) /\ Len(Tail(s)) = Len(s) - 1 /\ Len(s) \in Nat \ {0}
         /\ Head(s) = s[1] /\ s[1] \in S
         /\ \A k \in 1..Len(s) - 1 : Tail(s)[k] = s[k + 1]
OBVIOUS

LEMMA ReplaceTop ==
  ASSUME NEW S, NEW s \in Seq(S), s # <<>>, NEW x \in S
  PROVE  /\ <<x>> \o Tail(s) \in Seq(S) /\ Len(<<x>> \o Tail(s)) = Len(s)
         /\ (<<x>> \o Tail(s))[1] = x
         /\ \A k \in 2..Len(s) : (<<x>> \o Tail(s))[k] = s[k]
<1> DEFINE t == Tail(s)
<1>1. t \in Seq(S) /\ Len(t) = Len(s) - 1 /\ Len(s) \in Nat \ {0}
        /\ \A k \in 1..Len(s) - 1 : t[k] = s[k + 1]
  BY TailOfStack
<1> HIDE DEF t
<1>2. /\ <<x>> \o t \in Seq(S) /\ Len(<<x>> \o t) = Len(t) + 1
      /\ (<<x>> \o t)[1] = x
      /\ \A k \in 2..Len(t) + 1 : (<<x>> \o t)[k] = t[k - 1]
  BY <1>1, PushOnStack
<1>3. \A k \in 2..Len(s) : (<<x>> \o t)[k] = s[k]
  <2> SUFFICES ASSUME NEW k \in 2..Len(s) PROVE (<<x>> \o t)[k] = s[k]
    OBVIOUS
  <2>1. (<<x>> \o t)[k] = t[k - 1]
    BY <1>1, <1>2
  <2>2. t[k - 1] = s[(k - 1) + 1]
    BY <1>1
  <2>3. (k - 1) + 1 = k
    OBVIOUS
  <2> QED
    BY <2>1, <2>2, <2>3
<1> QED
  BY <1>1, <1>2, <1>3 DEF t

-----------------------------------------------------------------------------
(* The visit. *)

LEMMA OrderInitHolds == OrderInit => OrderInv
<1> SUFFICES ASSUME OrderInit PROVE OrderInv
  OBVIOUS
<1>1. Len(batch) \in Nat
  BY BatchAssumption DEF OrderInit
<1>2. OrderTypeOK
  BY <1>1 DEF OrderInit, OrderTypeOK
<1> QED
  BY <1>1, <1>2 DEF OrderInit, OrderInv, Visited, Visiting

LEMMA DependenciesAreSequences ==
  ASSUME OrderTypeOK
  PROVE  /\ Len(batch) \in Nat
         /\ \A i \in Tasks : Len(DependenciesOf(i)) \in Nat
BY BatchAssumption DEF OrderTypeOK, Tasks, DependenciesOf

\* A step of the visit leaves the batch and the sorted list alone.
LEMMA BatchKept ==
  ASSUME batch' = batch, base' = base
  PROVE  Tasks' = Tasks /\ Frame' = Frame /\ (Sorted(base) => Sorted(base)')
<1>1. Tasks' = Tasks
  BY DEF Tasks
<1>2. Frame' = Frame
  BY <1>1 DEF Frame
<1>3. ASSUME NEW i, NEW j PROVE Before(i, j) => Before(i, j)'
  BY Zenon DEF Before, DeadlineBefore
<1>4. Sorted(base) => Sorted(base)'
  BY <1>1, <1>3 DEF Sorted
<1> QED
  BY <1>1, <1>2, <1>4

LEMMA VisitRootHolds == OrderInv /\ VisitRoot => OrderInv'
<1> SUFFICES ASSUME OrderInv, VisitRoot PROVE OrderInv'
  OBVIOUS
<1>1. /\ stack = <<>> /\ root \in 1..Len(batch) /\ Len(batch) \in Nat
      /\ root' = root + 1 /\ UNCHANGED <<batch, base, ordered>>
      /\ Visiting = {}
  BY DependenciesAreSequences DEF OrderInv, OrderTypeOK, VisitRoot, Visiting
<1>2. base[root] \in Tasks
  BY <1>1 DEF OrderInv, OrderTypeOK, Tasks
<1>3. Tasks' = Tasks /\ Visited' = Visited /\ Sorted(base)'
  BY <1>1, BatchKept DEF Visited, OrderInv
<1>4. CASE base[root] \in Visited
  <2>1. stack' = <<>> /\ Visiting' = {}
    BY <1>4 DEF VisitRoot, Visiting
  <2>2. OrderTypeOK'
    BY <2>1, <1>1, <1>3 DEF OrderInv, OrderTypeOK
  <2> QED
    BY <2>1, <2>2, <1>1, <1>3, <1>4 DEF OrderInv
<1>5. CASE base[root] \notin Visited
  <2>1. stack' = <<[task |-> base[root], dep |-> 1]>>
    BY <1>5 DEF VisitRoot
  <2>2. /\ Len(stack') = 1 /\ stack'[1].task = base[root] /\ Visiting' = {base[root]}
    BY <2>1 DEF Visiting
  <2>3. OrderTypeOK'
    BY <2>1, <1>1, <1>2, <1>3 DEF OrderInv, OrderTypeOK
  <2> QED
    BY <2>2, <2>3, <1>1, <1>3, <1>5 DEF OrderInv
<1> QED
  BY <1>4, <1>5

\* The frames below and at the top keep their tasks when the top moves on.
LEMMA VisitDependencyHolds == OrderInv /\ VisitDependency => OrderInv'
<1> SUFFICES ASSUME OrderInv, VisitDependency PROVE OrderInv'
  OBVIOUS
<1> DEFINE top == Head(stack)
           moved == [top EXCEPT !.dep = @ + 1]
           rest == <<moved>> \o Tail(stack)
           id == DependenciesOf(top.task)[top.dep]
           pushed == [task |-> TaskWithId(id), dep |-> 1]
<1>1. /\ stack \in Seq(Frame) /\ stack # <<>> /\ UNCHANGED <<batch, base, root, ordered>>
      /\ Len(batch) \in Nat
  BY DependenciesAreSequences DEF OrderInv, OrderTypeOK, VisitDependency, Frame
<1>2. Tasks' = Tasks /\ Visited' = Visited /\ Sorted(base)' /\ Frame' = Frame
  BY <1>1, BatchKept DEF Visited, OrderInv
<1>3. top \in Frame /\ top = stack[1] /\ Len(stack) \in Nat \ {0}
  BY <1>1, TailOfStack
<1>4. moved \in Frame /\ moved.task = top.task
  BY <1>3 DEF Frame
<1> HIDE DEF moved
<1>5. /\ rest \in Seq(Frame) /\ Len(rest) = Len(stack)
      /\ rest[1] = moved /\ \A k \in 2..Len(stack) : rest[k] = stack[k]
  BY <1>1, <1>4, ReplaceTop
<1>6. \A k \in 1..Len(stack) : rest[k].task = stack[k].task
  BY <1>3, <1>4, <1>5
<1> HIDE DEF rest
<1>7. CASE stack' = rest
  <2>1. Visiting' = Visiting
    BY <1>5, <1>6, <1>7 DEF Visiting
  <2>2. OrderTypeOK'
    BY <1>1, <1>2, <1>5, <1>7 DEF OrderInv, OrderTypeOK, Frame
  <2> QED
    BY <2>1, <2>2, <1>1, <1>2, <1>5, <1>6, <1>7 DEF OrderInv
<1>8. CASE /\ Known(id) /\ TaskWithId(id) \notin Visited \cup Visiting
           /\ stack' = <<pushed>> \o rest
  <2>1. TaskWithId(id) \in Tasks
    BY <1>8 DEF Known, TaskWithId
  <2>2. pushed \in Frame /\ pushed.task = TaskWithId(id)
    BY <2>1 DEF Frame
  <2> HIDE DEF pushed, id
  <2>3. /\ stack' \in Seq(Frame) /\ Len(stack') = Len(stack) + 1
        /\ stack'[1] = pushed /\ \A k \in 2..Len(stack) + 1 : stack'[k] = rest[k - 1]
    BY <1>5, <1>8, <2>2, PushOnStack
  <2>4. \A k \in 2..Len(stack) + 1 : k - 1 \in 1..Len(stack) /\ stack'[k].task = stack[k - 1].task
    BY <2>3, <1>3, <1>6
  <2>5. \A k \in 2..Len(stack) + 1 : stack'[k].task \in Visiting
    BY <2>4 DEF Visiting
  <2>6. \A k \in 1..Len(stack) : k + 1 \in 2..Len(stack) + 1 /\ stack'[k + 1].task = stack[k].task
    <3> SUFFICES ASSUME NEW k \in 1..Len(stack)
                 PROVE  k + 1 \in 2..Len(stack) + 1 /\ stack'[k + 1].task = stack[k].task
      OBVIOUS
    <3>1. k + 1 \in 2..Len(stack) + 1 /\ (k + 1) - 1 = k
      BY <1>3
    <3> QED
      BY <3>1, <2>4
  <2>7. Visiting' = Visiting \cup {TaskWithId(id)}
    <3>1. Visiting' \subseteq Visiting \cup {TaskWithId(id)}
      BY <2>2, <2>3, <2>5, <1>3 DEF Visiting
    <3>2. Visiting \subseteq Visiting'
      BY <2>3, <2>6, <1>3 DEF Visiting
    <3>3. TaskWithId(id) \in Visiting'
      BY <2>2, <2>3, <1>3 DEF Visiting
    <3> QED
      BY <3>1, <3>2, <3>3
  <2>8. ASSUME NEW k \in 1..Len(stack'), NEW l \in 1..Len(stack'),
               stack'[k].task = stack'[l].task
        PROVE  k = l
    <3>1. CASE k = 1 /\ l # 1
      BY <3>1, <2>2, <2>3, <2>5, <2>8, <1>3, <1>8
    <3>2. CASE k # 1 /\ l = 1
      BY <3>2, <2>2, <2>3, <2>5, <2>8, <1>3, <1>8
    <3>3. CASE k # 1 /\ l # 1
      <4>1. k - 1 \in 1..Len(stack) /\ l - 1 \in 1..Len(stack)
            /\ stack[k - 1].task = stack[l - 1].task
        BY <3>3, <2>3, <2>4, <2>8, <1>3
      <4> QED
        BY <4>1 DEF OrderInv
    <3> QED
      BY <3>1, <3>2, <3>3
  <2>9. OrderTypeOK'
    BY <1>1, <1>2, <2>3 DEF OrderInv, OrderTypeOK, Frame
  <2> QED
    BY <2>7, <2>8, <2>9, <1>1, <1>2, <1>8 DEF OrderInv
<1> QED
  BY <1>7, <1>8 DEF VisitDependency, rest, moved

LEMMA LeaveHolds == OrderInv /\ Leave => OrderInv'
<1> SUFFICES ASSUME OrderInv, Leave PROVE OrderInv'
  OBVIOUS
<1> DEFINE done == Head(stack).task
<1>1. /\ stack \in Seq(Frame) /\ stack # <<>> /\ UNCHANGED <<batch, base, root>>
      /\ ordered \in Seq(Tasks) /\ Len(batch) \in Nat
      /\ stack' = Tail(stack) /\ ordered' = Append(ordered, done)
  BY DependenciesAreSequences DEF OrderInv, OrderTypeOK, Leave, Frame
<1>2. Tasks' = Tasks /\ Sorted(base)' /\ Frame' = Frame
  BY <1>1, BatchKept DEF OrderInv
<1>3. /\ stack' \in Seq(Frame) /\ Len(stack') = Len(stack) - 1
      /\ Len(stack) \in Nat \ {0} /\ Head(stack) = stack[1]
      /\ \A k \in 1..Len(stack) - 1 : stack'[k] = stack[k + 1]
      /\ done \in Tasks
  <2>1. /\ Tail(stack) \in Seq(Frame) /\ Len(Tail(stack)) = Len(stack) - 1
        /\ Len(stack) \in Nat \ {0} /\ Head(stack) = stack[1] /\ stack[1] \in Frame
        /\ \A k \in 1..Len(stack) - 1 : Tail(stack)[k] = stack[k + 1]
    BY <1>1, TailOfStack
  <2>2. done \in Tasks
    BY <2>1 DEF Frame
  <2> QED
    BY <2>1, <2>2, <1>1
<1>4. done \in Visiting /\ done \notin Visited
  BY <1>3 DEF OrderInv, Visiting
<1>5. /\ Len(ordered') = Len(ordered) + 1 /\ Len(ordered) \in Nat
      /\ ordered'[Len(ordered) + 1] = done
      /\ \A k \in 1..Len(ordered) : ordered'[k] = ordered[k]
      /\ ordered' \in Seq(Tasks)
  BY <1>1, <1>3
<1> HIDE DEF done
<1>6. Visited' = Visited \cup {done}
  BY <1>5 DEF Visited
<1>7. Visiting \subseteq Visiting' \cup {done}
  <2> SUFFICES ASSUME NEW k \in 1..Len(stack), k # 1 PROVE stack[k].task \in Visiting'
    BY <1>3 DEF Visiting, done
  <2>1. k - 1 \in 1..Len(stack) - 1 /\ (k - 1) + 1 = k
    BY <1>3
  <2> QED
    BY <2>1, <1>3 DEF Visiting
<1>8. /\ Visiting' \subseteq Visiting
      /\ \A k \in 1..Len(stack') : k + 1 \in 1..Len(stack) /\ stack'[k] = stack[k + 1]
  BY <1>3 DEF Visiting
<1>9. done \notin Visiting'
  <2> SUFFICES ASSUME NEW k \in 1..Len(stack'), stack'[k].task = done PROVE FALSE
    BY DEF Visiting
  <2>1. stack[k + 1].task = stack[1].task /\ k + 1 \in 1..Len(stack) /\ k + 1 # 1
    BY <1>3, <1>8 DEF done
  <2> QED
    BY <2>1, <1>3 DEF OrderInv
<1>10. \A k, l \in 1..Len(stack') : stack'[k].task = stack'[l].task => k = l
  <2> SUFFICES ASSUME NEW k \in 1..Len(stack'), NEW l \in 1..Len(stack'),
                      stack'[k].task = stack'[l].task
               PROVE  k = l
    OBVIOUS
  <2>1. k + 1 = l + 1
    BY <1>8 DEF OrderInv
  <2> QED
    BY <2>1, <1>3
<1>11. \A k, l \in 1..Len(ordered') : ordered'[k] = ordered'[l] => k = l
  <2>1. \A k \in 1..Len(ordered) : ordered[k] # done
    BY <1>4 DEF Visited
  <2> QED
    BY <2>1, <1>5 DEF OrderInv
<1>12. OrderTypeOK'
  BY <1>1, <1>2, <1>3, <1>5 DEF OrderInv, OrderTypeOK, Frame
<1> QED
  BY <1>1, <1>2, <1>4, <1>6, <1>7, <1>8, <1>9, <1>10, <1>11, <1>12 DEF OrderInv

LEMMA OrderStutterHolds == OrderInv /\ UNCHANGED orderVars => OrderInv'
<1> SUFFICES ASSUME OrderInv, UNCHANGED orderVars PROVE OrderInv'
  OBVIOUS
<1>1. /\ Tasks' = Tasks /\ Sorted(base)' /\ Visited' = Visited /\ Visiting' = Visiting
  BY DEF orderVars, Tasks, Sorted, Before, Visited, Visiting, OrderInv
<1>2. OrderTypeOK'
  BY <1>1 DEF orderVars, OrderInv, OrderTypeOK
<1> QED
  BY <1>1, <1>2 DEF orderVars, OrderInv

LEMMA OrderStepHolds == OrderInv /\ [OrderNext]_orderVars => OrderInv'
BY VisitRootHolds, VisitDependencyHolds, LeaveHolds, OrderStutterHolds DEF OrderNext

\* The visit of orderTasksForScheduling lists every task of the batch exactly
\* once, whatever the dependencies, cycles included.
THEOREM OrderIsPermutation == OrderSpec => []EveryTaskOnce
<1>1. OrderInv => EveryTaskOnce
  <2> SUFFICES ASSUME OrderInv, OrderDone, NEW i \in Tasks
               PROVE  \E k \in 1..Len(ordered) :
                        ordered[k] = i /\ \A l \in 1..Len(ordered) : ordered[l] = i => l = k
    BY DEF EveryTaskOnce
  <2>1. Len(batch) \in Nat /\ root \in Nat /\ root > Len(batch) /\ Visiting = {}
    BY DependenciesAreSequences DEF OrderInv, OrderTypeOK, OrderDone, Visiting
  <2>2. PICK k \in Tasks : base[k] = i
    BY DEF OrderInv, Sorted
  <2>3. i \in Visited
    BY <2>1, <2>2 DEF OrderInv, Tasks
  <2> QED
    BY <2>3 DEF OrderInv, Visited
<1> QED
  BY OrderInitHolds, OrderStepHolds, <1>1, PTL DEF OrderSpec

-----------------------------------------------------------------------------
(***************************************************************************)
(* The order follows the dependencies.  The visits in progress form a path *)
(* of dependencies, from the task of the root down to the innermost; so    *)
(* every dependency that a visit steps over reaches back to its dependent, *)
(* and every task listed was reached from a root sorted at or before it.   *)
(***************************************************************************)

\* The mth dependency of i is the task j of the batch.
Dep(i, m, j) ==
  /\ m \in 1..Len(DependenciesOf(i)) /\ Known(DependenciesOf(i)[m])
  /\ TaskWithId(DependenciesOf(i)[m]) = j

ListedBefore(j, i) ==
  \E p, q \in 1..Len(ordered) : p < q /\ ordered[p] = j /\ ordered[q] = i

OnPath ==
  \A k \in 1..Len(stack) - 1 : Dep(stack[k + 1].task, stack[k + 1].dep - 1, stack[k].task)

Handled ==
  \A k \in 1..Len(stack) : \A m \in 1..stack[k].dep - 1, j \in Tasks :
    Dep(stack[k].task, m, j) =>
      j \in Visited \/ Reaches(j, stack[k].task) \/ (k > 1 /\ j = stack[k - 1].task)

Settled ==
  \A i \in Visited, j \in Tasks : Edge(i, j) => Reaches(j, i) \/ ListedBefore(j, i)

RootsVisited ==
  /\ stack = <<>> => \A m \in 1..root - 1 : base[m] \in Visited
  /\ stack # <<>> => /\ root > 1 /\ stack[Len(stack)].task = base[root - 1]
                     /\ \A m \in 1..root - 2 : base[m] \in Visited

\* r is the position of a root from which the task listed at q was reached.
RootOf(r, q) ==
  /\ base[r] = ordered[q] \/ Reaches(base[r], ordered[q])
  /\ \A m \in 1..r - 1 : \E p \in 1..q - 1 : ordered[p] = base[m]
Rooted == \A q \in 1..Len(ordered) : \E r \in 1..root - 1 : RootOf(r, q)

VisitInv == OrderInv /\ OnPath /\ Handled /\ Settled /\ RootsVisited /\ Rooted

-----------------------------------------------------------------------------
\* The ids of a batch name its tasks.
LEMMA DepMeans ==
  ASSUME OrderTypeOK, NEW i \in Tasks, NEW m, NEW j
  PROVE  Dep(i, m, j) <=> /\ m \in 1..Len(batch[i].dependencies) /\ j \in Tasks
                          /\ batch[j].id = batch[i].dependencies[m]
<1>1. \A x, y \in Tasks : batch[x].id = batch[y].id => x = y
  BY BatchAssumption DEF OrderTypeOK, Tasks
<1>2. ASSUME Dep(i, m, j)
      PROVE  /\ m \in 1..Len(batch[i].dependencies) /\ j \in Tasks
             /\ batch[j].id = batch[i].dependencies[m]
  BY <1>2 DEF Dep, Known, TaskWithId, DependenciesOf
<1>3. ASSUME m \in 1..Len(batch[i].dependencies), j \in Tasks, batch[j].id = batch[i].dependencies[m]
      PROVE  Dep(i, m, j)
  <2>1. Known(DependenciesOf(i)[m])
    BY <1>3 DEF Known, DependenciesOf
  <2>2. /\ TaskWithId(DependenciesOf(i)[m]) \in Tasks
        /\ batch[TaskWithId(DependenciesOf(i)[m])].id = DependenciesOf(i)[m]
    BY <2>1 DEF Known, TaskWithId
  <2>3. TaskWithId(DependenciesOf(i)[m]) = j
    BY <1>1, <1>3, <2>2 DEF DependenciesOf
  <2>. QED BY <1>3, <2>1, <2>3 DEF Dep, DependenciesOf
<1>. QED BY <1>2, <1>3

LEMMA EdgeMeans ==
  ASSUME NEW i, NEW j
  PROVE  Edge(i, j) <=> \E m \in 1..Len(DependenciesOf(i)) : Dep(i, m, j)
BY DEF Edge, Dep

\* A step of the visit leaves the dependencies alone.
LEMMA EdgesFixed ==
  ASSUME OrderTypeOK, OrderTypeOK', batch' = batch
  PROVE  /\ Tasks' = Tasks
         /\ \A i \in Tasks : \A m, j : Dep(i, m, j)' <=> Dep(i, m, j)
         /\ \A i, j \in Tasks : Edge(i, j)' <=> Edge(i, j)
         /\ \A i, j \in Tasks : Reaches(i, j)' <=> Reaches(i, j)
<1>1. Tasks' = Tasks /\ \A i : DependenciesOf(i)' = DependenciesOf(i)
  BY DEF Tasks, DependenciesOf
<1>2. \A id : Known(id)' <=> Known(id)
  BY <1>1 DEF Known
<1>3. ASSUME NEW id, Known(id) PROVE TaskWithId(id)' = TaskWithId(id)
  <2>1. \A x, y \in Tasks : batch[x].id = batch[y].id => x = y
    BY BatchAssumption DEF OrderTypeOK, Tasks
  <2>2. TaskWithId(id) \in Tasks /\ batch[TaskWithId(id)].id = id
    BY <1>3 DEF Known, TaskWithId
  <2>3. TaskWithId(id)' \in Tasks' /\ batch'[TaskWithId(id)'].id = id
    BY <1>2, <1>3 DEF Known, TaskWithId
  <2>. QED BY <1>1, <2>1, <2>2, <2>3
<1>4. \A i, m, j : Dep(i, m, j)' <=> Dep(i, m, j)
  BY <1>1, <1>2, <1>3 DEF Dep
<1>5. \A i, j : Edge(i, j)' <=> Edge(i, j)
  BY <1>1, <1>2, <1>3 DEF Edge
<1>6. \A i, j : Reaches(i, j)' <=> Reaches(i, j)
  BY <1>1, <1>5 DEF Reaches
<1>. QED BY <1>1, <1>4, <1>5, <1>6

\* The visits in progress are of different tasks, so there are no more than tasks.
LEMMA StackIsShort ==
  ASSUME OrderInv
  PROVE  Len(stack) \in Nat /\ Len(stack) <= Len(batch) /\ Len(batch) \in Nat
         /\ \A k \in 1..Len(stack) : stack[k].task \in Tasks /\ stack[k].dep \in Nat \ {0}
<1>1. stack \in Seq(Frame) /\ Len(batch) \in Nat
  BY DependenciesAreSequences DEF OrderInv, OrderTypeOK, Frame
<1>2. Len(stack) \in Nat /\ \A k \in 1..Len(stack) : stack[k] \in Frame
  BY <1>1
<1>3. \A k \in 1..Len(stack) : stack[k].task \in Tasks /\ stack[k].dep \in Nat \ {0}
  BY <1>2 DEF Frame
<1>. DEFINE f == [k \in 1..Len(stack) |-> stack[k].task]
<1>4. f \in Injection(1..Len(stack), Tasks)
  BY <1>3 DEF Injection, IsInjective, OrderInv
<1>5. /\ IsFiniteSet(1..Len(batch)) /\ Cardinality(1..Len(batch)) = Len(batch)
      /\ Cardinality(1..Len(stack)) = Len(stack)
  <2>1. ASSUME NEW n \in Nat PROVE IsFiniteSet(1..n) /\ Cardinality(1..n) = n
    <3>1. IsFiniteSet(1..n) /\ Cardinality(1..n) = IF 1 > n THEN 0 ELSE n - 1 + 1
      BY FS_Interval
    <3>. QED BY <3>1
  <2>. QED BY <2>1, <1>1, <1>2
<1>. HIDE DEF f
<1>6. Cardinality(1..Len(stack)) <= Cardinality(1..Len(batch))
  BY <1>4, <1>5, FS_Injection DEF Tasks
<1>. QED BY <1>1, <1>2, <1>3, <1>5, <1>6

\* A visit reaches the visits that it has led to.
LEMMA StackReaches ==
  ASSUME OrderInv, OnPath, NEW k \in 1..Len(stack), NEW l \in 1..Len(stack), k < l
  PROVE  Reaches(stack[l].task, stack[k].task)
<1>1. Len(stack) \in Nat /\ Len(stack) <= Len(batch) /\ Len(batch) \in Nat
      /\ \A x \in 1..Len(stack) : stack[x].task \in Tasks
  BY StackIsShort
<1>. DEFINE n == l - k
            path == [m \in 1..n |-> stack[l - m].task]
<1>2. n \in 1..Len(batch) /\ \A m \in 1..n : l - m \in 1..Len(stack)
  BY <1>1
<1>3. path \in [1..n -> Tasks]
  BY <1>1, <1>2
<1>4. \A x \in 1..Len(stack) - 1 : Edge(stack[x + 1].task, stack[x].task)
  BY EdgeMeans DEF OnPath, Dep
<1>5. ASSUME NEW x \in 2..Len(stack) PROVE Edge(stack[x].task, stack[x - 1].task)
  <2>1. x - 1 \in 1..Len(stack) - 1 /\ (x - 1) + 1 = x
    BY <1>1
  <2>. QED BY <1>4, <2>1
<1>6. Edge(stack[l].task, path[1])
  <2>1. l \in 2..Len(stack) /\ 1 \in 1..n
    BY <1>1
  <2>. QED BY <1>5, <2>1
<1>7. path[n] = stack[k].task
  BY <1>2
<1>8. ASSUME NEW m \in 1..n - 1 PROVE Edge(path[m], path[m + 1])
  <2>1. m \in 1..n /\ m + 1 \in 1..n /\ l - m \in 2..Len(stack) /\ l - (m + 1) = (l - m) - 1
    BY <1>1
  <2>2. path[m] = stack[l - m].task /\ path[m + 1] = stack[(l - m) - 1].task
    BY <2>1
  <2>. QED BY <1>5, <2>1, <2>2
<1>. HIDE DEF n, path
<1>. QED BY <1>2, <1>3, <1>6, <1>7, <1>8 DEF Reaches

LEMMA EdgeReaches ==
  ASSUME OrderInv, NEW i \in Tasks, NEW j \in Tasks, Edge(i, j)
  PROVE  Reaches(i, j)
<1>. DEFINE path == [m \in 1..1 |-> j]
<1>1. 1 \in 1..Len(batch)
  BY DependenciesAreSequences DEF OrderInv, Tasks
<1>2. path \in [1..1 -> Tasks] /\ path[1] = j /\ 1..1 - 1 = {}
  OBVIOUS
<1>. HIDE DEF path
<1>. QED BY <1>1, <1>2 DEF Reaches

-----------------------------------------------------------------------------
LEMMA VisitInvInit == OrderInit => VisitInv
<1>. SUFFICES ASSUME OrderInit PROVE VisitInv
  OBVIOUS
<1>1. OrderInv /\ stack = <<>> /\ ordered = <<>> /\ root = 1
  BY OrderInitHolds DEF OrderInit
<1>2. Len(stack) = 0 /\ Len(ordered) = 0
  BY <1>1
<1>. QED BY <1>1, <1>2 DEF VisitInv, OnPath, Handled, Settled, RootsVisited, Rooted, Visited

LEMMA VisitRootFollows ==
  ASSUME VisitInv, VisitRoot
  PROVE  VisitInv'
<1>1. OrderInv /\ OrderInv' /\ OrderTypeOK /\ OrderTypeOK'
  BY VisitRootHolds DEF VisitInv, OrderInv
<1>2. /\ stack = <<>> /\ root \in 1..Len(batch) /\ root' = root + 1 /\ Len(batch) \in Nat
      /\ batch' = batch /\ base' = base /\ ordered' = ordered
  BY <1>1, DependenciesAreSequences DEF VisitRoot, OrderTypeOK
<1>3. /\ Tasks' = Tasks
      /\ \A i, j \in Tasks : Edge(i, j)' <=> Edge(i, j)
      /\ \A i, j \in Tasks : Reaches(i, j)' <=> Reaches(i, j)
  BY <1>1, <1>2, EdgesFixed
<1>4. Visited' = Visited /\ Visited \subseteq Tasks /\ \A i, j : ListedBefore(i, j)' <=> ListedBefore(i, j)
  BY <1>1, <1>2 DEF Visited, ListedBefore, OrderTypeOK
<1>5. Settled'
  BY <1>3, <1>4 DEF VisitInv, Settled
<1>6. \A m \in 1..root - 1 : base[m] \in Visited
  BY <1>2 DEF VisitInv, RootsVisited
<1>7. Rooted'
  <2>1. ASSUME NEW q \in 1..Len(ordered) PROVE \E r \in 1..root : RootOf(r, q)'
    <3>1. PICK r \in 1..root - 1 : RootOf(r, q)
      BY DEF VisitInv, Rooted
    <3>2. r \in 1..root /\ r \in Tasks
      BY <1>2, <3>1 DEF Tasks
    <3>3. base[r] \in Tasks /\ ordered[q] \in Tasks
      BY <1>1, <3>2 DEF OrderTypeOK
    <3>4. RootOf(r, q)'
      BY <1>2, <1>3, <3>1, <3>3 DEF RootOf
    <3>. QED BY <3>2, <3>4
  <2>. QED BY <2>1, <1>2 DEF Rooted
<1>8. CASE base[root] \in Visited
  <2>1. stack' = <<>>
    BY <1>8 DEF VisitRoot
  <2>2. Len(stack') = 0
    BY <2>1
  <2>3. RootsVisited'
    BY <1>2, <1>4, <1>6, <1>8, <2>1 DEF RootsVisited
  <2>. QED BY <1>1, <1>5, <1>7, <2>2, <2>3 DEF VisitInv, OnPath, Handled
<1>9. CASE base[root] \notin Visited
  <2>1. stack' = <<[task |-> base[root], dep |-> 1]>>
    BY <1>9 DEF VisitRoot
  <2>2. Len(stack') = 1 /\ stack'[1].task = base[root] /\ stack'[1].dep = 1 /\ stack' # <<>>
    BY <2>1
  <2>3. RootsVisited'
    BY <1>2, <1>4, <1>6, <2>2 DEF RootsVisited
  <2>4. Handled' /\ OnPath'
    BY <2>2 DEF Handled, OnPath
  <2>. QED BY <1>1, <1>5, <1>7, <2>3, <2>4 DEF VisitInv
<1>. QED BY <1>8, <1>9

\* What the loop over the dependencies does to the stack: the innermost visit moves on,
\* and a visit of the dependency may come on top of it.
LEMMA DependencyShape ==
  ASSUME OrderInv, VisitDependency
  PROVE  LET id == DependenciesOf(stack[1].task)[stack[1].dep]
             Moved(s, k) == /\ s[k].task = stack[1].task /\ s[k].dep = stack[1].dep + 1
         IN  /\ UNCHANGED <<batch, base, root, ordered>>
             /\ Len(stack) \in Nat \ {0} /\ stack[1].dep \in 1..Len(DependenciesOf(stack[1].task))
             /\ \/ /\ ~Known(id) \/ TaskWithId(id) \in Visited \cup Visiting
                   /\ Len(stack') = Len(stack) /\ Moved(stack', 1)
                   /\ \A k \in 2..Len(stack) : stack'[k] = stack[k]
                \/ /\ Known(id)
                   /\ Len(stack') = Len(stack) + 1 /\ Moved(stack', 2)
                   /\ stack'[1].task = TaskWithId(id) /\ stack'[1].dep = 1
                   /\ \A k \in 3..Len(stack) + 1 : stack'[k] = stack[k - 1]
<1>. DEFINE top == Head(stack)
            moved == [top EXCEPT !.dep = @ + 1]
            rest == <<moved>> \o Tail(stack)
            id == DependenciesOf(top.task)[top.dep]
            pushed == [task |-> TaskWithId(id), dep |-> 1]
<1>1. /\ stack \in Seq(Frame) /\ stack # <<>> /\ UNCHANGED <<batch, base, root, ordered>>
      /\ Len(batch) \in Nat /\ top.dep <= Len(DependenciesOf(top.task))
  BY DependenciesAreSequences DEF OrderInv, OrderTypeOK, VisitDependency, Frame
<1>2. top \in Frame /\ top = stack[1] /\ Len(stack) \in Nat \ {0}
  BY <1>1, TailOfStack
<1>3. moved \in Frame /\ moved.task = top.task /\ moved.dep = top.dep + 1
  BY <1>2 DEF Frame
<1>4. top.dep \in 1..Len(DependenciesOf(top.task))
  <2>1. top.dep \in Nat \ {0} /\ top.task \in Tasks
    BY <1>2 DEF Frame
  <2>2. Len(DependenciesOf(top.task)) \in Nat
    BY <2>1, DependenciesAreSequences DEF OrderInv
  <2>. QED BY <1>1, <2>1, <2>2
<1>. HIDE DEF moved
<1>5. /\ rest \in Seq(Frame) /\ Len(rest) = Len(stack)
      /\ rest[1] = moved /\ \A k \in 2..Len(stack) : rest[k] = stack[k]
  BY <1>1, <1>3, ReplaceTop
<1>. HIDE DEF rest
<1>6. CASE /\ ~Known(id) \/ TaskWithId(id) \in Visited \cup Visiting
           /\ stack' = rest
  BY <1>1, <1>2, <1>3, <1>4, <1>5, <1>6
<1>7. CASE /\ Known(id) /\ stack' = <<pushed>> \o rest
  <2>1. TaskWithId(id) \in Tasks
    BY <1>7 DEF Known, TaskWithId
  <2>2. pushed \in Frame /\ pushed.task = TaskWithId(id) /\ pushed.dep = 1
    BY <2>1 DEF Frame
  <2>. HIDE DEF pushed
  <2>3. /\ Len(stack') = Len(stack) + 1
        /\ stack'[1] = pushed /\ \A k \in 2..Len(stack) + 1 : stack'[k] = rest[k - 1]
    BY <1>5, <1>7, <2>2, PushOnStack
  <2>4. stack'[2] = moved
    <3>1. 2 \in 2..Len(stack) + 1 /\ 2 - 1 = 1
      BY <1>2
    <3>. QED BY <3>1, <2>3, <1>5
  <2>5. \A k \in 3..Len(stack) + 1 : stack'[k] = stack[k - 1]
    <3>. TAKE k \in 3..Len(stack) + 1
    <3>1. k \in 2..Len(stack) + 1 /\ k - 1 \in 2..Len(stack)
      BY <1>2
    <3>. QED BY <3>1, <2>3, <1>5
  <2>. HIDE DEF id
  <2>6. stack'[2].task = top.task /\ stack'[2].dep = top.dep + 1
        /\ stack'[1].task = TaskWithId(id) /\ stack'[1].dep = 1
    BY <2>2, <2>3, <2>4, <1>3
  <2>. QED BY <2>3, <2>5, <2>6, <1>1, <1>2, <1>4, <1>7 DEF id
<1>. QED BY <1>6, <1>7 DEF VisitDependency, rest, moved

LEMMA VisitDependencyFollows ==
  ASSUME VisitInv, VisitDependency
  PROVE  VisitInv'
<1>. DEFINE i == stack[1].task
            d == stack[1].dep
            id == DependenciesOf(i)[d]
<1>1. OrderInv /\ OrderInv' /\ OrderTypeOK /\ OrderTypeOK'
  BY VisitDependencyHolds DEF VisitInv, OrderInv
<1>2. /\ batch' = batch /\ base' = base /\ root' = root /\ ordered' = ordered
      /\ Len(stack) \in Nat \ {0} /\ d \in 1..Len(DependenciesOf(i))
  BY <1>1, DependencyShape
<1>3. /\ i \in Tasks /\ d \in Nat \ {0}
      /\ \A k \in 1..Len(stack) : stack[k].task \in Tasks /\ stack[k].dep \in Nat \ {0}
  BY <1>1, <1>2, StackIsShort
<1>4. /\ Tasks' = Tasks
      /\ \A x \in Tasks : \A m, y : Dep(x, m, y)' <=> Dep(x, m, y)
      /\ \A x, y \in Tasks : Edge(x, y)' <=> Edge(x, y)
      /\ \A x, y \in Tasks : Reaches(x, y)' <=> Reaches(x, y)
  BY <1>1, <1>2, EdgesFixed
<1>5. Visited' = Visited /\ Visited \subseteq Tasks /\ \A x, y : ListedBefore(x, y)' <=> ListedBefore(x, y)
  BY <1>1, <1>2 DEF Visited, ListedBefore, OrderTypeOK
<1>6. Settled'
  BY <1>4, <1>5 DEF VisitInv, Settled
<1>7. Rooted'
  <2>1. ASSUME NEW q \in 1..Len(ordered) PROVE \E r \in 1..root - 1 : RootOf(r, q)'
    <3>1. PICK r \in 1..root - 1 : RootOf(r, q)
      BY DEF VisitInv, Rooted
    <3>2. r \in Tasks
      BY <1>1, <3>1, DependenciesAreSequences DEF Tasks, OrderTypeOK
    <3>3. base[r] \in Tasks /\ ordered[q] \in Tasks
      BY <1>1, <3>2 DEF OrderTypeOK
    <3>4. RootOf(r, q)'
      BY <1>2, <1>4, <3>1, <3>3 DEF RootOf
    <3>. QED BY <3>4
  <2>. QED BY <2>1, <1>2 DEF Rooted
<1>8. root > 1 /\ stack[Len(stack)].task = base[root - 1] /\ \A m \in 1..root - 2 : base[m] \in Visited
  <2>1. stack # <<>>
    BY <1>2
  <2>. QED BY <2>1 DEF VisitInv, RootsVisited
\* Of the dependencies before d one only may not be handled, and there is no visit of it.
<1>9. ASSUME NEW m \in 1..d - 1, NEW j \in Tasks, Dep(i, m, j)
      PROVE  j \in Visited \/ Reaches(j, i)
  BY <1>2, <1>9 DEF VisitInv, Handled
<1>10. ASSUME NEW k \in 2..Len(stack), NEW m \in 1..stack[k].dep - 1, NEW j \in Tasks, Dep(stack[k].task, m, j)
       PROVE  j \in Visited \/ Reaches(j, stack[k].task) \/ j = stack[k - 1].task
  BY <1>2, <1>10 DEF VisitInv, Handled
<1>11. \A k \in 1..Len(stack) - 1 : Dep(stack[k + 1].task, stack[k + 1].dep - 1, stack[k].task)
  BY DEF VisitInv, OnPath
<1>. HIDE DEF i, d, id
<1>12. CASE /\ ~Known(id) \/ TaskWithId(id) \in Visited \cup Visiting
            /\ Len(stack') = Len(stack) /\ stack'[1].task = i /\ stack'[1].dep = d + 1
            /\ \A k \in 2..Len(stack) : stack'[k] = stack[k]
  <2>1. \A k \in 1..Len(stack) : stack'[k].task = stack[k].task
    BY <1>12 DEF i
  <2>2. OnPath'
    <3>1. ASSUME NEW k \in 1..Len(stack) - 1
          PROVE  Dep(stack[k + 1].task, stack[k + 1].dep - 1, stack[k].task)'
      <4>1. k + 1 \in 2..Len(stack) /\ k \in 1..Len(stack) /\ k + 1 \in 1..Len(stack)
        BY <1>2
      <4>2. stack'[k + 1] = stack[k + 1] /\ stack'[k].task = stack[k].task
        BY <4>1, <2>1, <1>12
      <4>. QED BY <4>1, <4>2, <1>3, <1>4, <1>11
    <3>. QED BY <3>1, <1>12 DEF OnPath
  <2>3. ASSUME NEW j \in Tasks, Dep(i, d, j)
        PROVE  j \in Visited \/ Reaches(j, i)
    <3>1. Known(id) /\ TaskWithId(id) = j
      BY <2>3 DEF Dep, id
    <3>2. CASE j \in Visiting
      <4>1. PICK l \in 1..Len(stack) : stack[l].task = j
        BY <3>2 DEF Visiting
      <4>2. CASE l = 1
        <5>1. Edge(j, i)
          BY <2>3, <4>1, <4>2, EdgeMeans DEF Dep, i
        <5>. QED BY <5>1, <1>1, <1>3, EdgeReaches
      <4>3. CASE l # 1
        <5>1. 1 \in 1..Len(stack) /\ 1 < l
          BY <4>3, <1>2
        <5>. QED BY <5>1, <4>1, <1>1, StackReaches DEF VisitInv, i
      <4>. QED BY <4>2, <4>3
    <3>. QED BY <3>1, <3>2, <1>12
  <2>4. Handled'
    <3>1. ASSUME NEW k \in 1..Len(stack), NEW m \in 1..stack'[k].dep - 1, NEW j \in Tasks,
                 Dep(stack'[k].task, m, j)
          PROVE  j \in Visited \/ Reaches(j, stack'[k].task) \/ (k > 1 /\ j = stack'[k - 1].task)
      <4>1. CASE k = 1
        <5>1. m \in 1..d - 1 \/ m = d
          BY <4>1, <1>3, <1>12
        <5>. QED BY <5>1, <4>1, <3>1, <1>9, <1>12, <2>3
      <4>2. CASE k # 1
        <5>1. k \in 2..Len(stack) /\ k - 1 \in 1..Len(stack) /\ stack'[k] = stack[k] /\ k > 1
          BY <4>2, <1>2, <1>12
        <5>2. stack'[k - 1].task = stack[k - 1].task
          BY <5>1, <2>1
        <5>. QED BY <5>1, <5>2, <3>1, <1>10
      <4>. QED BY <4>1, <4>2
    <3>. QED BY <3>1, <2>1, <1>3, <1>4, <1>5, <1>12 DEF Handled
  <2>5. RootsVisited'
    <3>1. stack' # <<>> /\ stack'[Len(stack')].task = stack[Len(stack)].task
      BY <2>1, <1>2, <1>12
    <3>. QED BY <3>1, <1>2, <1>5, <1>8 DEF RootsVisited
  <2>. QED BY <2>2, <2>4, <2>5, <1>1, <1>6, <1>7 DEF VisitInv
<1>13. CASE /\ Known(id) /\ Len(stack') = Len(stack) + 1
            /\ stack'[2].task = i /\ stack'[2].dep = d + 1
            /\ stack'[1].task = TaskWithId(id) /\ stack'[1].dep = 1
            /\ \A k \in 3..Len(stack) + 1 : stack'[k] = stack[k - 1]
  <2>1. \A k \in 2..Len(stack) + 1 : stack'[k].task = stack[k - 1].task
    BY <1>2, <1>13 DEF i
  <2>2. Dep(i, d, TaskWithId(id))
    BY <1>2, <1>13 DEF Dep, id
  <2>3. OnPath'
    <3>1. ASSUME NEW k \in 1..Len(stack)
          PROVE  Dep(stack[k + 1].task, stack[k + 1].dep - 1, stack[k].task)'
      <4>1. CASE k = 1
        <5>1. stack'[k + 1].task = i /\ stack'[k + 1].dep - 1 = d /\ stack'[k].task = TaskWithId(id)
          BY <4>1, <1>3, <1>13
        <5>. QED BY <5>1, <2>2, <1>3, <1>4
      <4>2. CASE k # 1
        <5>1. /\ k + 1 \in 3..Len(stack) + 1 /\ k \in 2..Len(stack) + 1 /\ (k + 1) - 1 = k
              /\ k - 1 \in 1..Len(stack) - 1 /\ (k - 1) + 1 = k
          BY <4>2, <1>2
        <5>2. stack'[k + 1] = stack[k] /\ stack'[k].task = stack[k - 1].task
          BY <5>1, <2>1, <1>13
        <5>3. Dep(stack[k].task, stack[k].dep - 1, stack[k - 1].task)
          BY <5>1, <1>11
        <5>. QED BY <5>2, <5>3, <1>3, <1>4
      <4>. QED BY <4>1, <4>2
    <3>2. Len(stack') - 1 = Len(stack)
      BY <1>2, <1>13
    <3>. QED BY <3>1, <3>2 DEF OnPath
  <2>4. Handled'
    <3>1. ASSUME NEW k \in 1..Len(stack) + 1, NEW m \in 1..stack'[k].dep - 1, NEW j \in Tasks,
                 Dep(stack'[k].task, m, j)
          PROVE  j \in Visited \/ Reaches(j, stack'[k].task) \/ (k > 1 /\ j = stack'[k - 1].task)
      <4>1. k # 1
        BY <1>13
      <4>2. CASE k = 2
        <5>1. m \in 1..d - 1 \/ m = d
          BY <4>2, <1>3, <1>13
        <5>2. m = d => j = stack'[1].task
          BY <4>2, <3>1, <2>2, <1>13 DEF Dep
        <5>. QED BY <5>1, <5>2, <4>2, <3>1, <1>9, <1>13
      <4>3. CASE k # 1 /\ k # 2
        <5>1. /\ k \in 3..Len(stack) + 1 /\ k - 1 \in 2..Len(stack) /\ k > 1
              /\ k - 1 \in 2..Len(stack) + 1
          BY <4>3, <1>2
        <5>2. stack'[k] = stack[k - 1] /\ stack'[k - 1].task = stack[(k - 1) - 1].task
          BY <5>1, <2>1, <1>13
        <5>. QED BY <5>1, <5>2, <3>1, <1>10
      <4>. QED BY <4>1, <4>2, <4>3
    <3>2. \A k \in 1..Len(stack) + 1 : stack'[k].task \in Tasks
      <4>1. Len(stack') = Len(stack) + 1
        BY <1>13
      <4>2. \A k \in 1..Len(stack) + 1 : k = 1 \/ (k \in 2..Len(stack) + 1 /\ k - 1 \in 1..Len(stack))
        BY <1>2
      <4>3. TaskWithId(id) \in Tasks
        BY <1>13 DEF Known, TaskWithId
      <4>. QED BY <4>2, <4>3, <2>1, <1>3, <1>13
    <3>. QED BY <3>1, <3>2, <1>3, <1>4, <1>5, <1>13 DEF Handled
  <2>5. RootsVisited'
    <3>1. stack' # <<>> /\ stack'[Len(stack')].task = stack[Len(stack)].task
      <4>1. Len(stack') \in 2..Len(stack) + 1 /\ Len(stack') - 1 = Len(stack)
        BY <1>2, <1>13
      <4>. QED BY <4>1, <2>1
    <3>. QED BY <3>1, <1>2, <1>5, <1>8 DEF RootsVisited
  <2>. QED BY <2>3, <2>4, <2>5, <1>1, <1>6, <1>7 DEF VisitInv
<1>. QED BY <1>1, <1>12, <1>13, DependencyShape DEF i, d, id

LEMMA LeaveFollows ==
  ASSUME VisitInv, Leave
  PROVE  VisitInv'
<1>0. PICK i, n : i = stack[1].task /\ n = Len(ordered)
  OBVIOUS
<1>1. OrderInv /\ OrderInv' /\ OrderTypeOK /\ OrderTypeOK'
  BY LeaveHolds DEF VisitInv, OrderInv
<1>2. /\ Len(stack) \in Nat /\ Len(stack') \in Nat
      /\ \A k \in 1..Len(stack) : stack[k].task \in Tasks /\ stack[k].dep \in Nat \ {0}
  <2>1. Len(stack) \in Nat /\ \A k \in 1..Len(stack) : stack[k].task \in Tasks /\ stack[k].dep \in Nat \ {0}
    BY <1>1, StackIsShort
  <2>2. Len(stack') \in Nat
    BY <1>1 DEF OrderTypeOK
  <2>. QED BY <2>1, <2>2
<1>3. /\ batch' = batch /\ base' = base /\ root' = root /\ stack # <<>>
      /\ stack' = Tail(stack) /\ stack \in Seq(Frame) /\ Head(stack) = stack[1]
      /\ Len(stack') = Len(stack) - 1 /\ Len(stack) # 0
      /\ \A k \in 1..Len(stack) - 1 : stack'[k] = stack[k + 1]
  <2>1. stack \in Seq(Frame) /\ stack # <<>> /\ UNCHANGED <<batch, base, root>> /\ stack' = Tail(stack)
    BY <1>1 DEF OrderTypeOK, Leave, Frame
  <2>2. /\ Len(Tail(stack)) = Len(stack) - 1 /\ Len(stack) \in Nat \ {0} /\ Head(stack) = stack[1]
        /\ \A k \in 1..Len(stack) - 1 : Tail(stack)[k] = stack[k + 1]
    BY <2>1, TailOfStack
  <2>. QED BY <2>1, <2>2
<1>4. /\ stack[1].dep > Len(DependenciesOf(i)) /\ i \in Tasks /\ stack[1].dep \in Nat \ {0}
      /\ Len(DependenciesOf(i)) \in Nat
  BY <1>0, <1>1, <1>2, <1>3, DependenciesAreSequences DEF Leave
<1>5. /\ ordered' = Append(ordered, i) /\ ordered \in Seq(Tasks)
  BY <1>0, <1>1, <1>3 DEF Leave, OrderTypeOK
<1>6. /\ Len(ordered') = n + 1 /\ n \in Nat /\ ordered'[n + 1] = i
      /\ \A k \in 1..n : ordered'[k] = ordered[k] /\ ordered[k] \in Tasks
  BY <1>0, <1>4, <1>5
<1>7. /\ Tasks' = Tasks
      /\ \A x \in Tasks : \A m, y : Dep(x, m, y)' <=> Dep(x, m, y)
      /\ \A x, y \in Tasks : Edge(x, y)' <=> Edge(x, y)
      /\ \A x, y \in Tasks : Reaches(x, y)' <=> Reaches(x, y)
  BY <1>1, <1>3, EdgesFixed
<1>8. Visited' = Visited \cup {i} /\ Visited \subseteq Tasks
      /\ \A j : j \in Visited <=> \E p \in 1..n : ordered[p] = j
  BY <1>0, <1>6 DEF Visited
<1>9. OnPath'
  <2>1. ASSUME NEW k \in 1..Len(stack) - 2
        PROVE  Dep(stack[k + 1].task, stack[k + 1].dep - 1, stack[k].task)'
    <3>1. /\ k \in 1..Len(stack) - 1 /\ k + 1 \in 1..Len(stack) - 1 /\ k + 1 \in 1..Len(stack)
          /\ (k + 1) + 1 \in 1..Len(stack)
      BY <1>2, <1>3
    <3>2. stack'[k + 1] = stack[(k + 1) + 1] /\ stack'[k] = stack[k + 1]
      BY <3>1, <1>3
    <3>3. Dep(stack[(k + 1) + 1].task, stack[(k + 1) + 1].dep - 1, stack[k + 1].task)
      BY <3>1 DEF VisitInv, OnPath
    <3>. QED BY <3>1, <3>2, <3>3, <1>2, <1>7
  <2>2. Len(stack') - 1 = Len(stack) - 2
    BY <1>2, <1>3
  <2>. QED BY <2>1, <2>2 DEF OnPath
<1>10. Handled'
  <2>1. ASSUME NEW k \in 1..Len(stack) - 1, NEW m \in 1..stack'[k].dep - 1, NEW j \in Tasks,
               Dep(stack'[k].task, m, j)
        PROVE  j \in Visited \cup {i} \/ Reaches(j, stack'[k].task) \/ (k > 1 /\ j = stack'[k - 1].task)
    <3>1. /\ k + 1 \in 1..Len(stack) /\ stack'[k] = stack[k + 1]
          /\ (k + 1) - 1 = k
      BY <1>2, <1>3
    <3>2. j \in Visited \/ Reaches(j, stack'[k].task) \/ j = stack[k].task
      BY <2>1, <3>1 DEF VisitInv, Handled
    <3>3. k # 1 => k > 1 /\ stack'[k - 1] = stack[k]
      <4>. SUFFICES ASSUME k # 1 PROVE k > 1 /\ stack'[k - 1] = stack[k]
        OBVIOUS
      <4>1. k > 1 /\ k - 1 \in 1..Len(stack) - 1 /\ (k - 1) + 1 = k
        BY <1>2
      <4>. QED BY <4>1, <1>3
    <3>. QED BY <1>0, <3>2, <3>3
  <2>2. \A k \in 1..Len(stack) - 1 : stack'[k].task \in Tasks
    <3>1. \A k \in 1..Len(stack) - 1 : k + 1 \in 1..Len(stack)
      BY <1>2
    <3>. QED BY <3>1, <1>2, <1>3
  <2>. QED BY <2>1, <2>2, <1>3, <1>7, <1>8 DEF Handled
<1>11. Settled'
  <2>1. ASSUME NEW x \in Visited, NEW j \in Tasks, Edge(x, j)
        PROVE  Reaches(j, x) \/ ListedBefore(j, x)'
    <3>1. CASE Reaches(j, x)
      BY <3>1
    <3>2. CASE ListedBefore(j, x)
      <4>1. PICK p \in 1..n, q \in 1..n : p < q /\ ordered[p] = j /\ ordered[q] = x
        BY <1>0, <3>2 DEF ListedBefore
      <4>2. p \in 1..n + 1 /\ q \in 1..n + 1 /\ ordered'[p] = j /\ ordered'[q] = x
        BY <4>1, <1>6
      <4>. QED BY <4>1, <4>2, <1>6 DEF ListedBefore
    <3>. QED BY <2>1, <3>1, <3>2 DEF VisitInv, Settled
  <2>2. ASSUME NEW j \in Tasks, Edge(i, j)
        PROVE  Reaches(j, i) \/ ListedBefore(j, i)'
    <3>1. PICK m \in 1..Len(DependenciesOf(i)) : Dep(i, m, j)
      BY <2>2, EdgeMeans
    <3>2. m \in 1..stack[1].dep - 1 /\ 1 \in 1..Len(stack) /\ ~(1 > 1)
      BY <1>2, <1>3, <1>4
    <3>3. j \in Visited \/ Reaches(j, i)
      BY <1>0, <3>1, <3>2 DEF VisitInv, Handled
    <3>4. ASSUME j \in Visited PROVE ListedBefore(j, i)'
      <4>1. PICK p \in 1..n : ordered[p] = j
        BY <3>4, <1>8
      <4>2. p \in 1..n + 1 /\ n + 1 \in 1..n + 1 /\ p < n + 1 /\ ordered'[p] = j /\ ordered'[n + 1] = i
        BY <4>1, <1>6
      <4>. QED BY <4>2, <1>6 DEF ListedBefore
    <3>. QED BY <3>3, <3>4
  <2>. QED BY <2>1, <2>2, <1>4, <1>7, <1>8 DEF Settled
<1>12. root > 1 /\ stack[Len(stack)].task = base[root - 1] /\ \A m \in 1..root - 2 : base[m] \in Visited
  BY <1>3 DEF VisitInv, RootsVisited
<1>13. root \in Nat /\ root - 1 \in Tasks /\ base[root - 1] \in Tasks
  <2>1. Len(batch) \in Nat /\ root \in 1..Len(batch) + 1 /\ base \in [Tasks -> Tasks]
    BY <1>1, DependenciesAreSequences DEF OrderTypeOK
  <2>2. root \in Nat /\ root - 1 \in Tasks
    BY <2>1, <1>12 DEF Tasks
  <2>. QED BY <2>1, <2>2
<1>14. RootsVisited'
  <2>1. CASE Len(stack) = 1
    <3>1. base[root - 1] = i
      BY <2>1, <1>0, <1>12
    <3>2. \A m \in 1..root - 1 : m \in 1..root - 2 \/ m = root - 1
      BY <1>13
    <3>3. stack' = <<>>
      <4>1. stack' \in Seq(Frame) /\ Len(stack') = 0
        BY <2>1, <1>1, <1>3 DEF OrderTypeOK, Frame
      <4>. QED BY <4>1
    <3>. QED BY <3>1, <3>2, <3>3, <1>3, <1>8, <1>12 DEF RootsVisited
  <2>2. CASE Len(stack) # 1
    <3>1. /\ Len(stack) - 1 \in 1..Len(stack) - 1 /\ (Len(stack) - 1) + 1 = Len(stack)
      BY <2>2, <1>2, <1>3
    <3>2. stack'[Len(stack')] = stack[Len(stack)]
      BY <3>1, <1>3
    <3>3. stack' # <<>>
      <4>1. Len(stack') # 0
        BY <3>1, <1>2, <1>3
      <4>. QED BY <4>1
    <3>. QED BY <3>2, <3>3, <1>3, <1>8, <1>12 DEF RootsVisited
  <2>. QED BY <2>1, <2>2
<1>15. Rooted'
  <2>1. ASSUME NEW q \in 1..n PROVE \E r \in 1..root - 1 : RootOf(r, q)'
    <3>1. PICK r \in 1..root - 1 : RootOf(r, q)
      BY <1>0 DEF VisitInv, Rooted
    <3>2. r \in Tasks
      <4>1. Len(batch) \in Nat /\ root \in 1..Len(batch) + 1
        BY <1>1, DependenciesAreSequences DEF OrderTypeOK
      <4>. QED BY <4>1 DEF Tasks
    <3>3. base[r] \in Tasks
      BY <1>1, <3>2 DEF OrderTypeOK
    <3>4. ordered[q] \in Tasks /\ ordered'[q] = ordered[q]
          /\ \A p \in 1..q - 1 : ordered'[p] = ordered[p]
      BY <1>6
    <3>5. RootOf(r, q)'
      BY <3>1, <3>3, <3>4, <1>3, <1>7 DEF RootOf
    <3>. QED BY <3>5
  <2>. PICK r, q : r = root - 1 /\ q = n + 1
    OBVIOUS
  <2>2. RootOf(r, q)'
    <3>1. base[root - 1] = i \/ Reaches(base[root - 1], i)
      <4>1. CASE Len(stack) = 1
        BY <4>1, <1>0, <1>12
      <4>2. CASE Len(stack) # 1
        <5>1. 1 \in 1..Len(stack) /\ Len(stack) \in 1..Len(stack) /\ 1 < Len(stack)
          BY <4>2, <1>2, <1>3
        <5>2. Reaches(stack[Len(stack)].task, stack[1].task)
          BY <5>1, <1>1, StackReaches DEF VisitInv
        <5>. QED BY <5>2, <1>0, <1>12
      <4>. QED BY <4>1, <4>2
    <3>2. ASSUME NEW m \in 1..(root - 1) - 1 PROVE \E p \in 1..(n + 1) - 1 : ordered'[p] = base[m]
      <4>1. m \in 1..root - 2 /\ (n + 1) - 1 = n
        BY <1>6, <1>13
      <4>2. PICK p \in 1..n : ordered[p] = base[m]
        BY <4>1, <1>8, <1>12
      <4>. QED BY <4>1, <4>2, <1>6
    <3>. QED BY <3>1, <3>2, <1>3, <1>4, <1>6, <1>7, <1>13 DEF RootOf
  <2>3. \A x \in 1..n + 1 : x \in 1..n \/ x = n + 1
    BY <1>6
  <2>4. root - 1 \in 1..root - 1
    BY <1>12, <1>13
  <2>. QED BY <2>1, <2>2, <2>3, <2>4, <1>3, <1>6 DEF Rooted
<1>. QED BY <1>1, <1>9, <1>10, <1>11, <1>14, <1>15 DEF VisitInv

LEMMA VisitStutter ==
  ASSUME VisitInv, UNCHANGED orderVars
  PROVE  VisitInv'
<1>1. OrderInv /\ OrderInv' /\ OrderTypeOK /\ OrderTypeOK'
  BY OrderStutterHolds DEF VisitInv, OrderInv
<1>2. /\ batch' = batch /\ base' = base /\ root' = root /\ ordered' = ordered /\ stack' = stack
  BY DEF orderVars
<1>3. /\ Tasks' = Tasks
      /\ \A x \in Tasks : \A m, y : Dep(x, m, y)' <=> Dep(x, m, y)
      /\ \A x, y \in Tasks : Edge(x, y)' <=> Edge(x, y)
      /\ \A x, y \in Tasks : Reaches(x, y)' <=> Reaches(x, y)
  BY <1>1, <1>2, EdgesFixed
<1>4. Visited' = Visited /\ Visited \subseteq Tasks /\ \A x, y : ListedBefore(x, y)' <=> ListedBefore(x, y)
  BY <1>1, <1>2 DEF Visited, ListedBefore, OrderTypeOK
<1>5. /\ Len(stack) \in Nat /\ \A k \in 1..Len(stack) : stack[k].task \in Tasks
  BY <1>1, StackIsShort
<1>6. OnPath'
  <2>1. ASSUME NEW k \in 1..Len(stack) - 1
        PROVE  Dep(stack[k + 1].task, stack[k + 1].dep - 1, stack[k].task)'
    <3>1. k + 1 \in 1..Len(stack) /\ stack'[k + 1] = stack[k + 1] /\ stack'[k] = stack[k]
      BY <1>2, <1>5
    <3>2. Dep(stack[k + 1].task, stack[k + 1].dep - 1, stack[k].task)
      BY DEF VisitInv, OnPath
    <3>. QED BY <3>1, <3>2, <1>3, <1>5
  <2>. QED BY <2>1, <1>2 DEF OnPath
<1>7. Handled'
  BY <1>2, <1>3, <1>4, <1>5 DEF VisitInv, Handled
<1>8. Settled' /\ RootsVisited'
  BY <1>2, <1>3, <1>4 DEF VisitInv, Settled, RootsVisited
<1>9. Rooted'
  <2>1. ASSUME NEW q \in 1..Len(ordered) PROVE \E r \in 1..root - 1 : RootOf(r, q)'
    <3>1. PICK r \in 1..root - 1 : RootOf(r, q)
      BY DEF VisitInv, Rooted
    <3>2. base[r] \in Tasks /\ ordered[q] \in Tasks
      <4>1. Len(batch) \in Nat /\ root \in 1..Len(batch) + 1
        BY <1>1, DependenciesAreSequences DEF OrderTypeOK
      <4>2. r \in Tasks
        BY <4>1 DEF Tasks
      <4>. QED BY <4>2, <1>1 DEF OrderTypeOK
    <3>3. RootOf(r, q)'
      BY <1>2, <1>3, <3>1, <3>2 DEF RootOf
    <3>. QED BY <3>3
  <2>. QED BY <2>1, <1>2 DEF Rooted
<1>. QED BY <1>1, <1>6, <1>7, <1>8, <1>9 DEF VisitInv

-----------------------------------------------------------------------------
\* compareTasks never puts each of two tasks before the other.
LEMMA BeforeIsAsymmetric ==
  ASSUME OrderTypeOK, NEW i \in Tasks, NEW j \in Tasks, Before(i, j)
  PROVE  ~Before(j, i)
<1>. DEFINE a == batch[i]
            c == batch[j]
<1>1. /\ a.priority \in Nat /\ a.created \in Int /\ a.deadline \in Int \cup {None}
      /\ c.priority \in Nat /\ c.created \in Int /\ c.deadline \in Int \cup {None}
      /\ i \in Int /\ j \in Int
  <2>1. batch \in Batches /\ i \in 1..Len(batch) /\ j \in 1..Len(batch) /\ Len(batch) \in Nat
    BY DependenciesAreSequences DEF OrderTypeOK, Tasks
  <2>2. \A k \in 1..Len(batch) : /\ batch[k].priority \in Nat /\ batch[k].created \in Int
                                 /\ batch[k].deadline \in Int \cup {None}
    BY <2>1, BatchAssumption
  <2>. QED BY <2>1, <2>2
<1>2. ASSUME NEW x \in Int \cup {None}, NEW y \in Int \cup {None}, DeadlineBefore(x, y)
      PROVE  x # y /\ ~DeadlineBefore(y, x)
  BY <1>2 DEF DeadlineBefore
<1>. HIDE DEF a, c
<1>3. \/ a.priority < c.priority
      \/ /\ a.priority = c.priority
         /\ \/ DeadlineBefore(a.deadline, c.deadline)
            \/ /\ a.deadline = c.deadline
               /\ a.created < c.created \/ (a.created = c.created /\ i < j)
  BY DEF Before, a, c
<1>4. ASSUME \/ c.priority < a.priority
             \/ /\ c.priority = a.priority
                /\ \/ DeadlineBefore(c.deadline, a.deadline)
                   \/ /\ c.deadline = a.deadline
                      /\ c.created < a.created \/ (c.created = a.created /\ j < i)
      PROVE  FALSE
  <2>1. c.priority = a.priority
    BY <1>1, <1>3, <1>4
  <2>2. ~(a.priority < c.priority) /\ ~(c.priority < a.priority)
    BY <2>1, <1>1
  <2>3. a.deadline = c.deadline
    BY <2>2, <1>1, <1>2, <1>3, <1>4
  <2>4. ~DeadlineBefore(a.deadline, c.deadline) /\ ~DeadlineBefore(c.deadline, a.deadline)
    BY <2>3, <1>1, <1>2
  <2>. QED BY <2>2, <2>4, <1>1, <1>3, <1>4
<1>. QED BY <1>4 DEF Before, a, c

\* orderTasksForScheduling keeps the order of compareTasks but for dependencies: one comes
\* before its dependent unless they lie on a cycle, and nothing else is moved forward.
THEOREM OrderIsFaithful == OrderSpec => []OrderFollowsDependencies
<1>1. VisitInv /\ [OrderNext]_orderVars => VisitInv'
  BY VisitRootFollows, VisitDependencyFollows, LeaveFollows, VisitStutter DEF OrderNext
<1>2. ASSUME VisitInv PROVE OrderFollowsDependencies
  <2>. SUFFICES ASSUME OrderDone PROVE OrderFollowsDependencies
    BY DEF OrderFollowsDependencies, DependenciesFirst, OnlyDependenciesOvertake
  <2>1. OrderInv /\ OrderTypeOK /\ Len(batch) \in Nat /\ root \in Nat /\ root > Len(batch) /\ stack = <<>>
    BY <1>2, DependenciesAreSequences DEF VisitInv, OrderInv, OrderTypeOK, OrderDone
  <2>2. root - 1 = Len(batch)
    BY <2>1 DEF OrderTypeOK
  <2>3. \A i \in Tasks : \E k \in 1..Len(ordered) : ordered[k] = i
    <3>. TAKE i \in Tasks
    <3>1. PICK k \in Tasks : base[k] = i
      BY <2>1 DEF OrderInv, Sorted
    <3>2. i \in Visited
      BY <1>2, <2>1, <2>2, <3>1 DEF VisitInv, RootsVisited, Tasks
    <3>. QED BY <3>2 DEF Visited
  <2>4. ASSUME NEW i \in Tasks PROVE Position(i) \in 1..Len(ordered) /\ ordered[Position(i)] = i
    BY <2>3 DEF Position
  <2>5. \A k, l \in 1..Len(ordered) : ordered[k] = ordered[l] => k = l
    BY <2>1 DEF OrderInv
  <2>6. Len(ordered) \in Nat
    BY <2>1 DEF OrderTypeOK
  <2>7. DependenciesFirst
    <3>. SUFFICES ASSUME NEW i \in Tasks, NEW j \in Tasks, Position(i) < Position(j), Edge(i, j), ~Reaches(j, i)
                  PROVE  FALSE
      BY DEF DependenciesFirst
    <3>1. i \in Visited
      BY <2>4 DEF Visited
    <3>2. PICK p \in 1..Len(ordered), q \in 1..Len(ordered) : p < q /\ ordered[p] = j /\ ordered[q] = i
      BY <1>2, <3>1 DEF VisitInv, Settled, ListedBefore
    <3>3. p = Position(j) /\ q = Position(i)
      BY <2>4, <2>5, <3>2
    <3>. QED BY <2>6, <3>2, <3>3
  <2>8. OnlyDependenciesOvertake
    <3>. SUFFICES ASSUME NEW i \in Tasks, NEW j \in Tasks, Position(j) < Position(i), Before(i, j)
                  PROVE  \E r \in Tasks : (r = i \/ Before(r, i)) /\ Reaches(r, j)
      BY DEF OnlyDependenciesOvertake
    <3>. DEFINE q == Position(j)
    <3>1. q \in 1..Len(ordered) /\ ordered[q] = j
      BY <2>4
    <3>. HIDE DEF q
    <3>2. PICK r \in 1..Len(batch) : RootOf(r, q)
      BY <1>2, <2>2, <3>1 DEF VisitInv, Rooted
    <3>3. PICK m \in Tasks : base[m] = i
      BY <2>1 DEF OrderInv, Sorted
    <3>4. r \in Tasks /\ base[r] \in Tasks /\ r \in Int /\ m \in Int /\ m > 0
      <4>1. r \in Tasks
        BY DEF Tasks
      <4>2. base[r] \in Tasks
        BY <2>1, <4>1 DEF OrderTypeOK
      <4>3. \A x \in Tasks : x \in Int /\ x > 0
        BY <2>1 DEF Tasks
      <4>. QED BY <4>1, <4>2, <4>3
    <3>5. ~(m < r)
      <4>. SUFFICES ASSUME m < r PROVE FALSE
        OBVIOUS
      <4>1. m \in 1..r - 1
        BY <3>4
      <4>2. PICK p \in 1..q - 1 : ordered[p] = i
        BY <4>1, <3>2, <3>3 DEF RootOf
      <4>3. p \in 1..Len(ordered) /\ p < q
        BY <2>6, <3>1
      <4>4. p = Position(i)
        BY <2>4, <2>5, <4>2, <4>3
      <4>5. Position(i) \in Int /\ q \in Int /\ q < Position(i)
        BY <2>4, <2>6, <3>1 DEF q
      <4>. QED BY <4>3, <4>4, <4>5
    <3>6. base[r] = i \/ Before(base[r], i)
      <4>1. m = r \/ r < m
        BY <3>4, <3>5
      <4>. QED BY <4>1, <2>1, <3>3, <3>4 DEF OrderInv, Sorted
    <3>7. base[r] # j
      <4>1. i # j
        <5>1. Position(i) \in Int
          BY <2>4
        <5>. QED BY <5>1
      <4>. QED BY <4>1, <3>6, <2>1, BeforeIsAsymmetric
    <3>8. Reaches(base[r], j)
      BY <3>1, <3>2, <3>7 DEF RootOf
    <3>. QED BY <3>4, <3>6, <3>8
  <2>. QED BY <2>7, <2>8 DEF OrderFollowsDependencies
<1>. QED BY VisitInvInit, <1>1, <1>2, PTL DEF OrderSpec

-----------------------------------------------------------------------------
(* Slots: what a gap offers, and that what findSlot finds is free. *)

LEMMA DaypartStartInt ==
  ASSUME NEW t \in Int, NEW d \in Daypart
  PROVE  DaypartStart(t, d) \in Int
BY DaypartAssumption DEF DaypartStart, DayOf

\* Every slot offered for a gap lies in the gap and has the length asked for.
LEMMA GapSlots ==
  ASSUME NEW gapStart \in Int, NEW gapEnd \in Int, NEW duration \in Nat,
         NEW dayparts \in SUBSET Daypart,
         NEW slot \in BuildCandidateSlots(gapStart, gapEnd, duration, dayparts)
  PROVE  /\ slot \in Interval
         /\ slot.end = slot.start + duration
         /\ gapStart <= slot.start /\ slot.end <= gapEnd
<1>1. PICK s \in {gapStart} \cup {Later(gapStart, DaypartStart(gapStart, d)) : d \in dayparts} :
        slot = SlotAt(s, duration) /\ slot.end <= gapEnd
  BY DEF BuildCandidateSlots
<1>2. s \in Int /\ gapStart <= s
  BY DaypartStartInt DEF Later
<1> QED
  BY <1>1, <1>2 DEF SlotAt, Interval

\* A gap that is long enough offers the slot at its start.
LEMMA GapOffersItsStart ==
  ASSUME NEW gapStart \in Int, NEW gapEnd \in Int, NEW duration \in Nat,
         NEW dayparts, gapStart + duration <= gapEnd
  PROVE  SlotAt(gapStart, duration) \in
           BuildCandidateSlots(gapStart, gapEnd, duration, dayparts)
BY DEF BuildCandidateSlots, SlotAt

LEMMA ClipInterval ==
  ASSUME NEW window \in Interval, NEW earliest \in Int, NEW latest \in Int
  PROVE  Clip(window, earliest, latest) \in Interval
BY DEF Clip, Interval, Later, Earlier

\* A slot that FindSlots allows lies in one of the windows, within the bounds of
\* the task, and overlaps no busy interval.
LEMMA FoundSlotIsFree ==
  ASSUME NEW windows \in SUBSET Interval, NEW busy \in SUBSET Interval,
         NEW duration \in Nat, NEW earliest \in Int, NEW latest \in Int,
         NEW dayparts \in SUBSET Daypart,
         NEW slot \in FindSlots(windows, busy, duration, earliest, latest, dayparts)
  PROVE  /\ slot \in Interval /\ slot.end = slot.start + duration
         /\ earliest <= slot.start /\ slot.end <= latest
         /\ \E window \in windows : Within(slot, window)
         /\ \A y \in busy : ~Overlaps(slot, y)
<1>1. PICK window \in windows :
        slot \in CandidatesIn(Clip(window, earliest, latest), busy, duration, dayparts)
  BY DEF FindSlots, BestSlots
<1> DEFINE clip == Clip(window, earliest, latest)
<1>2. clip \in Interval
  BY ClipInterval
<1> HIDE DEF clip
<1>3. PICK g \in GapStarts(clip, busy) :
        slot \in BuildCandidateSlots(g, clip.end, duration, dayparts)
  BY <1>1 DEF CandidatesIn, clip
<1>4. g \in Int /\ clip.end \in Int
  BY <1>2 DEF GapStarts, Interval
<1>5. slot \in Interval /\ slot.end = slot.start + duration
  BY <1>3, <1>4, GapSlots
<1>6. Within(slot, clip) /\ \A y \in busy : ~Overlaps(slot, y)
  BY <1>1 DEF CandidatesIn, FreeIn, clip
<1>7. /\ slot.start \in Int /\ slot.end \in Int
      /\ window.start \in Int /\ window.end \in Int
      /\ clip.start <= slot.start /\ slot.end <= clip.end
  BY <1>5, <1>6 DEF Within, Interval
<1>8. /\ clip.start = Later(window.start, earliest)
      /\ clip.end = Earlier(window.end, latest)
  BY DEF clip, Clip
<1>9. /\ earliest <= slot.start /\ slot.end <= latest
      /\ window.start <= slot.start /\ slot.end <= window.end
  BY <1>7, <1>8 DEF Later, Earlier
<1> QED
  BY <1>5, <1>6, <1>9 DEF Within

-----------------------------------------------------------------------------
(***************************************************************************)
(* The sweep of findSlot.  Its loop invariant is Swept: every busy block   *)
(* before index busyAt ends at or before the cursor or starts at or after  *)
(* the end of the window, unless the cursor has reached that end.  Since   *)
(* the blocks are sorted by start, those from busyAt on cannot reach into  *)
(* the gap before the cursor's next stop.                                  *)
(***************************************************************************)
Swept ==
  pc = "busy" =>
    /\ Window(windowAt).start <= cursor /\ Window(windowAt).start < WindowEnd
    /\ cursor >= WindowEnd \/ \A j \in 1..busyAt - 1 : Irrelevant(call.busy[j])

Covered ==
  \A i \in 1..Len(call.windows) : \A s \in StartsIn(i) :
    (i < windowAt \/ (i = windowAt /\ pc = "busy" /\ s < cursor)) =>
      \E c \in candidates : c.start <= s

Answered ==
  /\ pc # "done" => result = NoSlot
  /\ pc = "done" => windowAt > Len(call.windows)
  /\ pc = "done" => IF result = NoSlot THEN candidates = {}
                    ELSE result \in BestSlots(candidates, call.dayparts)

SearchInv == SearchTypeOK /\ Swept /\ CandidatesFree /\ Covered /\ Answered

\* Times between a time and the end of its day are of that day.
LEMMA SameDay ==
  ASSUME NEW a \in Int, NEW c \in Int, a <= c, c < DayOf(a) + DayLength
  PROVE  DayOf(c) = DayOf(a)
<1>. DEFINE L == DayLength
            p == a \div L
            q == c \div L
<1>1. L \in Nat \ {0}
  BY DaypartAssumption
<1>. HIDE DEF L
<1>2. p \in Int /\ L * p <= a /\ a < L * p + L
  BY <1>1
<1>3. q \in Int /\ L * q <= c /\ c < L * q + L
  BY <1>1
<1>4. c < L * p + L
  BY DEF DayOf, L
<1>. HIDE DEF p, q
<1>5. ASSUME NEW m \in Int, NEW n \in Int, n < m PROVE L * n + L <= L * m
  <2>1. L * (m - n - 1) \in Nat
    BY <1>1, <1>5
  <2>2. L * (m - n - 1) = L * m - L * n - L
    BY <1>1
  <2>. QED BY <2>1, <2>2, <1>1, <1>5
<1>6. ~(p < q) /\ ~(q < p)
  <2>1. L * p \in Int /\ L * q \in Int
    BY <1>1, <1>2, <1>3
  <2>2. p < q => FALSE
    BY <2>1, <1>1, <1>2, <1>3, <1>4, <1>5
  <2>3. q < p => FALSE
    BY <2>1, <1>1, <1>2, <1>3, <1>5
  <2>. QED BY <2>2, <2>3
<1>7. p = q
  BY <1>2, <1>3, <1>6
<1>. QED BY <1>7 DEF DayOf, p, q, L

\* A slot offered for a gap is also offered for a gap that starts between the gap's
\* start and the slot's, if it fits in: a sweep loses nothing that way.
LEMMA LaterGapOffers ==
  ASSUME NEW g \in Int, NEW c \in Int, NEW gapEnd \in Int, NEW later \in Int, NEW duration \in Nat,
         NEW dayparts \in SUBSET Daypart,
         NEW slot \in BuildCandidateSlots(g, gapEnd, duration, dayparts),
         g <= c, c <= slot.start, slot.end <= later
  PROVE  slot \in BuildCandidateSlots(c, later, duration, dayparts)
<1>. DEFINE s == slot.start
<1>1. PICK x \in {g} \cup {Later(g, DaypartStart(g, d)) : d \in dayparts} : slot = SlotAt(x, duration)
  BY DEF BuildCandidateSlots
<1>2. s = x /\ s \in Int
  BY <1>1, GapSlots DEF SlotAt, Interval
<1>. HIDE DEF s
<1>3. SUFFICES s \in {c} \cup {Later(c, DaypartStart(c, d)) : d \in dayparts}
  BY <1>1, <1>2 DEF BuildCandidateSlots
<1>4. CASE s <= c
  BY <1>2, <1>4 DEF s
<1>5. CASE ~(s <= c)
  <2>1. PICK d \in dayparts : s = Later(g, DaypartStart(g, d))
    BY <1>2, <1>5
  <2>2. s = DaypartStart(g, d)
    BY <2>1, <1>2, <1>5 DEF Later
  <2>3. DaypartFrom[d] \in 0..DayLength /\ DayLength \in Nat /\ DayOf(g) \in Int
    BY DaypartAssumption DEF DayOf
  <2>4. c < DayOf(g) + DayLength
    BY <2>2, <2>3, <1>2, <1>5 DEF DaypartStart
  <2>5. DaypartStart(c, d) = s
    BY <2>2, <2>4, SameDay DEF DaypartStart
  <2>6. Later(c, DaypartStart(c, d)) = s
    BY <2>5, <1>2, <1>5 DEF Later
  <2>. QED BY <2>6
<1>. QED BY <1>4, <1>5

-----------------------------------------------------------------------------
LEMMA WindowInterval ==
  ASSUME SearchTypeOK, NEW i \in 1..Len(call.windows)
  PROVE  Window(i) \in Interval
<1>1. call.windows[i] \in Interval /\ call.earliest \in Int /\ call.latest \in Int
  BY CallAssumption DEF SearchTypeOK
<1> QED
  BY <1>1 DEF Window, Clip, Interval, Later, Earlier

-----------------------------------------------------------------------------
(* A candidate built from a swept gap is free of every busy block. *)

\* The gap from the cursor to gapEnd lies in the window: the blocks before index
\* k are irrelevant, those from k on start at or after gapEnd.
GapSwept(k, gapEnd) ==
  /\ Window(windowAt).start <= cursor /\ gapEnd <= WindowEnd
  /\ \A j \in 1..k - 1 : Irrelevant(call.busy[j])
  /\ \A j \in k..Len(call.busy) : gapEnd <= call.busy[j].start

LEMMA SweptGapIsFree ==
  ASSUME SearchTypeOK, pc = "busy",
         NEW k \in 1..Len(call.busy) + 1, NEW gapEnd \in Int, GapSwept(k, gapEnd),
         NEW slot \in Gap(cursor, gapEnd)
  PROVE  slot \in Interval /\ slot.end = slot.start + call.duration
           /\ slot.start \in StartsIn(windowAt)
<1>1. cursor \in Int /\ windowAt \in 1..Len(call.windows)
  BY DEF SearchTypeOK
<1>2. call.duration \in Nat /\ call.dayparts \in SUBSET Daypart
  BY CallAssumption DEF SearchTypeOK
<1>3. /\ Window(windowAt).start \in Int /\ Window(windowAt).end \in Int
      /\ Window(windowAt).start <= cursor /\ gapEnd <= Window(windowAt).end
  BY <1>1, WindowInterval DEF Interval, GapSwept, WindowEnd
<1>4. slot \in Interval /\ slot.end = slot.start + call.duration
  BY <1>1, <1>2, GapSlots DEF Gap
<1>5. /\ slot.start \in Int /\ slot.end \in Int
      /\ cursor <= slot.start /\ slot.end <= gapEnd
  BY <1>1, <1>2, <1>4, GapSlots DEF Gap, Interval
<1>6. ASSUME NEW j \in 1..Len(call.busy)
      PROVE  ~Overlaps(slot, call.busy[j])
  <2>1. call.busy[j] \in Interval
    BY CallAssumption DEF SearchTypeOK
  <2>2. call.busy[j].start \in Int /\ call.busy[j].end \in Int
    BY <2>1 DEF Interval
  <2>3. \/ call.busy[j].end <= cursor
        \/ Window(windowAt).end <= call.busy[j].start
        \/ gapEnd <= call.busy[j].start
    BY <1>1, <1>3, <2>2 DEF GapSwept, Irrelevant, WindowEnd
  <2>4. call.busy[j].end <= slot.start \/ slot.end <= call.busy[j].start
    <3>1. CASE call.busy[j].end <= cursor
      BY <1>1, <1>5, <2>2, <3>1
    <3>2. CASE Window(windowAt).end <= call.busy[j].start
      BY <1>3, <1>5, <2>2, <3>2
    <3>3. CASE gapEnd <= call.busy[j].start
      BY <1>5, <2>2, <3>3
    <3> QED
      BY <2>3, <3>1, <3>2, <3>3
  <2> QED
    BY <1>5, <2>2, <2>4 DEF Overlaps
<1>7. SlotAt(slot.start, call.duration) = slot
  BY <1>4 DEF SlotAt, Interval
<1>8. Within(slot, Window(windowAt)) /\ slot.start \in Window(windowAt).start..Window(windowAt).end
  BY <1>1, <1>2, <1>3, <1>4, <1>5 DEF Within
<1>9. FreeIn(SlotAt(slot.start, call.duration), Window(windowAt), BusyOfCall)
  BY <1>6, <1>7, <1>8 DEF FreeIn, BusyOfCall
<1> QED
  BY <1>4, <1>8, <1>9 DEF StartsIn

\* The definitions over the call do not change while it is answered.
LEMMA CallFixed ==
  ASSUME call' = call
  PROVE  /\ \A i : Window(i)' = Window(i) /\ StartsIn(i)' = StartsIn(i)
         /\ FeasibleStarts' = FeasibleStarts
BY DEF Window, StartsIn, BusyOfCall, FeasibleStarts

-----------------------------------------------------------------------------
LEMMA SearchInitHolds == SearchInit => SearchInv
<1> SUFFICES ASSUME SearchInit PROVE SearchInv
  OBVIOUS
<1>1. SearchTypeOK
  BY CallAssumption DEF SearchInit, SearchTypeOK
<1> QED
  BY <1>1 DEF SearchInit, SearchInv, Swept, CandidatesFree, Covered, Answered

\* A window without room contributes no feasible start.
LEMMA SkipWindowHolds == SearchInv /\ SkipWindow => SearchInv'
<1> SUFFICES ASSUME SearchInv, SkipWindow PROVE SearchInv'
  OBVIOUS
<1>1. /\ \A i : Window(i)' = Window(i) /\ StartsIn(i)' = StartsIn(i)
      /\ FeasibleStarts' = FeasibleStarts
  BY CallFixed DEF SkipWindow
<1>3. SearchTypeOK'
  BY DEF SearchInv, SearchTypeOK, SkipWindow
<1>4. Swept' /\ CandidatesFree' /\ Answered'
  BY <1>1 DEF SearchInv, SkipWindow, Swept, CandidatesFree, Answered
<1>5. StartsIn(windowAt) = {}
  <2>1. Window(windowAt) \in Interval /\ Window(windowAt).start >= Window(windowAt).end
    BY WindowInterval DEF SearchInv, SearchTypeOK, SkipWindow
  <2>2. call.duration \in Nat \ {0}
    BY CallAssumption DEF SearchInv, SearchTypeOK
  <2>3. ASSUME NEW s \in StartsIn(windowAt) PROVE FALSE
    <3>1. s \in Int /\ Window(windowAt).start <= s /\ s + call.duration <= Window(windowAt).end
      BY <2>1, <2>2, <2>3 DEF StartsIn, FreeIn, Within, SlotAt, Interval
    <3>2. Window(windowAt).start \in Int /\ Window(windowAt).end \in Int
      BY <2>1 DEF Interval
    <3> QED
      BY <2>1, <2>2, <3>1, <3>2
  <2> QED
    BY <2>3
<1>6. Covered'
  BY <1>1, <1>5 DEF SearchInv, SearchTypeOK, SkipWindow, Covered
<1> QED
  BY <1>3, <1>4, <1>6 DEF SearchInv

LEMMA OpenWindowHolds == SearchInv /\ OpenWindow => SearchInv'
<1> SUFFICES ASSUME SearchInv, OpenWindow PROVE SearchInv'
  OBVIOUS
<1>1. /\ \A i : Window(i)' = Window(i) /\ StartsIn(i)' = StartsIn(i)
      /\ FeasibleStarts' = FeasibleStarts
  BY CallFixed DEF OpenWindow
<1>2. windowAt \in 1..Len(call.windows) /\ Window(windowAt).start \in Int
  BY WindowInterval DEF SearchInv, SearchTypeOK, OpenWindow, Interval
<1>3. SearchTypeOK'
  BY <1>2 DEF SearchInv, SearchTypeOK, OpenWindow
<1>4. Swept'
  BY <1>1, <1>2 DEF OpenWindow, Swept, WindowEnd
<1>5. CandidatesFree' /\ Answered'
  BY <1>1 DEF SearchInv, OpenWindow, CandidatesFree, Answered
<1>6. \A s \in StartsIn(windowAt) : Window(windowAt).start <= s
  BY <1>2, WindowInterval DEF SearchInv, StartsIn, Interval
<1>7. Covered'
  <2> SUFFICES ASSUME NEW i \in 1..Len(call.windows), NEW s \in StartsIn(i),
                      i < windowAt \/ (i = windowAt /\ s < cursor')
               PROVE  \E c \in candidates : c.start <= s
    BY <1>1 DEF OpenWindow, Covered
  <2>1. i < windowAt
    BY <1>2, <1>6 DEF OpenWindow, StartsIn
  <2> QED
    BY <2>1 DEF SearchInv, Covered
<1> QED
  BY <1>3, <1>4, <1>5, <1>7 DEF SearchInv

LEMMA SkipBusyHolds == SearchInv /\ SkipBusy => SearchInv'
<1> SUFFICES ASSUME SearchInv, SkipBusy PROVE SearchInv'
  OBVIOUS
<1>1. /\ \A i : Window(i)' = Window(i) /\ StartsIn(i)' = StartsIn(i)
      /\ FeasibleStarts' = FeasibleStarts
  BY CallFixed DEF SkipBusy
<1>2. SearchTypeOK'
  BY DEF SearchInv, SearchTypeOK, SkipBusy
<1>3. CandidatesFree' /\ Answered' /\ Covered'
  BY <1>1 DEF SearchInv, SkipBusy, CandidatesFree, Answered, Covered
<1>4. WindowEnd' = WindowEnd /\ \A x : Irrelevant(x)' <=> Irrelevant(x)
  BY <1>1 DEF SkipBusy, WindowEnd, Irrelevant
<1>5. busyAt \in Nat /\ Len(call.busy) \in Nat
  BY CallAssumption DEF SearchInv, SearchTypeOK
<1>6. Swept'
  <2>1. ASSUME ~(cursor >= WindowEnd), NEW j \in 1..busyAt PROVE Irrelevant(call.busy[j])
    BY <1>5, <2>1 DEF SearchInv, SearchTypeOK, Swept, SkipBusy
  <2> QED
    BY <1>1, <1>4, <1>5, <2>1 DEF SearchInv, SkipBusy, Swept
<1> QED
  BY <1>2, <1>3, <1>6 DEF SearchInv

\* The busy block at index busyAt is the next one in the way: the gap before it is
\* swept, since the blocks are sorted by start.
LEMMA SweepBusyHolds == SearchInv /\ SweepBusy => SearchInv'
<1> SUFFICES ASSUME SearchInv, SweepBusy PROVE SearchInv'
  OBVIOUS
<1> DEFINE busy == call.busy[busyAt]
           fits == cursor + call.duration <= busy.start
<1>1. /\ \A i : Window(i)' = Window(i) /\ StartsIn(i)' = StartsIn(i)
      /\ FeasibleStarts' = FeasibleStarts
  BY CallFixed DEF SweepBusy
<1>2. /\ busyAt \in 1..Len(call.busy) /\ Len(call.busy) \in Nat /\ cursor \in Int
      /\ windowAt \in 1..Len(call.windows) /\ call.duration \in Nat \ {0} /\ pc = "busy"
  BY CallAssumption DEF SearchInv, SearchTypeOK, SweepBusy
<1>3. busy \in Interval /\ busy.start <= busy.end
  BY <1>2, CallAssumption DEF SearchInv, SearchTypeOK
<1>4. busy.start \in Int /\ busy.end \in Int
  BY <1>3 DEF Interval
<1>5. Window(windowAt).start \in Int /\ Window(windowAt).end \in Int
  BY <1>2, WindowInterval DEF SearchInv, Interval
<1>6. cursor < busy.end /\ busy.start < Window(windowAt).end
  BY <1>2, <1>4, <1>5 DEF SweepBusy, Irrelevant, WindowEnd
<1>7. /\ cursor' = busy.end
      /\ busyAt' = IF busy.end >= WindowEnd THEN Len(call.busy) + 1 ELSE busyAt + 1
      /\ candidates' = candidates \cup IF fits THEN Gap(cursor, busy.start) ELSE {}
      /\ UNCHANGED <<call, windowAt, result, pc>>
  BY <1>2, <1>4, <1>6 DEF SweepBusy, Later
<1>8. /\ Window(windowAt).start <= cursor /\ Window(windowAt).start < Window(windowAt).end
      /\ cursor >= WindowEnd \/ \A j \in 1..busyAt - 1 : Irrelevant(call.busy[j])
  BY <1>2 DEF SearchInv, Swept, WindowEnd
<1>9. ASSUME fits PROVE GapSwept(busyAt, busy.start)
  <2>1. cursor < WindowEnd
    BY <1>2, <1>4, <1>5, <1>6, <1>9 DEF WindowEnd
  <2>2. \A j \in busyAt..Len(call.busy) : busy.start <= call.busy[j].start
    BY <1>2, CallAssumption DEF SearchInv, SearchTypeOK
  <2>3. \A j \in 1..busyAt - 1 : Irrelevant(call.busy[j])
    BY <2>1, <1>2, <1>5, <1>8 DEF WindowEnd
  <2>4. busy.start <= WindowEnd
    BY <1>4, <1>5, <1>6 DEF WindowEnd
  <2> QED
    BY <1>8, <2>2, <2>3, <2>4 DEF GapSwept
<1>10. \A c \in candidates' \ candidates :
         c \in Interval /\ c.end = c.start + call.duration /\ c.start \in StartsIn(windowAt)
  BY <1>2, <1>4, <1>7, <1>9, SweptGapIsFree DEF SearchInv
<1>11. SearchTypeOK'
  <2>1. busyAt' \in 1..Len(call.busy) + 1 /\ cursor' \in Int
    BY <1>2, <1>4, <1>7
  <2> QED
    BY <2>1, <1>2, <1>7, <1>10 DEF SearchInv, SearchTypeOK
<1>12. CandidatesFree'
  BY <1>1, <1>2, <1>7, <1>10 DEF SearchInv, CandidatesFree, FeasibleStarts
<1>13. Swept'
  <2>1. WindowEnd' = WindowEnd /\ Window(windowAt)' = Window(windowAt)
    BY <1>1, <1>7 DEF WindowEnd
  <2>2. \A j \in 1..busyAt : ~(busy.end >= WindowEnd) => Irrelevant(call.busy[j])'
    <3> SUFFICES ASSUME NEW j \in 1..busyAt, ~(busy.end >= WindowEnd)
                 PROVE  call.busy[j].end <= busy.end \/ call.busy[j].start >= WindowEnd
      BY <1>7, <2>1 DEF Irrelevant
    <3>1. CASE j = busyAt
      BY <3>1, <1>4
    <3>2. CASE j # busyAt
      <4>1. call.busy[j].end <= cursor \/ call.busy[j].start >= WindowEnd
        BY <3>2, <1>2, <1>4, <1>5, <1>6, <1>8 DEF Irrelevant, WindowEnd
      <4>2. call.busy[j] \in Interval
        BY <1>2, CallAssumption DEF SearchInv, SearchTypeOK
      <4> QED
        BY <4>1, <4>2, <1>2, <1>4, <1>6 DEF Interval
    <3> QED
      BY <3>1, <3>2
  <2>3. CASE busy.end >= WindowEnd
    BY <2>1, <2>3, <1>2, <1>4, <1>5, <1>6, <1>7, <1>8 DEF Swept, WindowEnd
  <2>4. CASE ~(busy.end >= WindowEnd)
    <3>1. busyAt' - 1 = busyAt
      BY <2>4, <1>2, <1>7
    <3>2. Window(windowAt).start <= cursor'
      BY <1>2, <1>4, <1>5, <1>6, <1>7, <1>8
    <3> QED
      BY <2>1, <2>2, <2>4, <3>1, <3>2, <1>7, <1>8 DEF Swept, WindowEnd
  <2> QED
    BY <2>3, <2>4
<1>14. Covered'
  <2> SUFFICES ASSUME NEW i \in 1..Len(call.windows), NEW s \in StartsIn(i),
                      i < windowAt \/ (i = windowAt /\ s < busy.end)
               PROVE  \E c \in candidates' : c.start <= s
    BY <1>1, <1>7 DEF Covered
  <2>1. CASE i < windowAt \/ (i = windowAt /\ s < cursor)
    BY <2>1, <1>2, <1>7 DEF SearchInv, Covered
  <2>2. CASE i = windowAt /\ ~(s < cursor) /\ s < busy.end
    <3>1. s \in Int /\ ~Overlaps(SlotAt(s, call.duration), busy)
      BY <2>2, <1>2, <1>5 DEF StartsIn, FreeIn, BusyOfCall
    <3>2. s + call.duration <= busy.start
      BY <3>1, <2>2, <1>2, <1>4 DEF Overlaps, SlotAt
    <3>3. fits
      BY <3>1, <3>2, <2>2, <1>2, <1>4
    <3>4. SlotAt(cursor, call.duration) \in candidates'
      BY <3>3, <1>2, <1>4, <1>7, GapOffersItsStart DEF Gap
    <3> QED
      BY <3>1, <3>4, <2>2, <1>2 DEF SlotAt
  <2> QED
    BY <2>1, <2>2
<1>15. Answered'
  BY <1>2, <1>7 DEF SearchInv, Answered
<1> QED
  BY <1>11, <1>12, <1>13, <1>14, <1>15 DEF SearchInv

\* After the last busy block the rest of the window is a swept gap.
LEMMA CloseWindowHolds == SearchInv /\ CloseWindow => SearchInv'
<1> SUFFICES ASSUME SearchInv, CloseWindow PROVE SearchInv'
  OBVIOUS
<1> DEFINE fits == cursor + call.duration <= WindowEnd
<1>1. /\ \A i : Window(i)' = Window(i) /\ StartsIn(i)' = StartsIn(i)
      /\ FeasibleStarts' = FeasibleStarts
  BY CallFixed DEF CloseWindow
<1>2. /\ Len(call.busy) \in Nat /\ busyAt = Len(call.busy) + 1 /\ cursor \in Int
      /\ windowAt \in 1..Len(call.windows) /\ call.duration \in Nat \ {0} /\ pc = "busy"
  BY CallAssumption DEF SearchInv, SearchTypeOK, CloseWindow
<1>3. WindowEnd \in Int /\ Window(windowAt).start \in Int
  BY <1>2, WindowInterval DEF SearchInv, Interval, WindowEnd
<1>4. /\ candidates' = candidates \cup IF fits THEN Gap(cursor, WindowEnd) ELSE {}
      /\ windowAt' = windowAt + 1 /\ pc' = "window" /\ UNCHANGED <<call, busyAt, cursor, result>>
  BY DEF CloseWindow
<1>5. ASSUME fits PROVE GapSwept(busyAt, WindowEnd)
  BY <1>2, <1>3, <1>5 DEF SearchInv, Swept, GapSwept
<1>6. \A c \in candidates' \ candidates :
        c \in Interval /\ c.end = c.start + call.duration /\ c.start \in StartsIn(windowAt)
  BY <1>2, <1>3, <1>4, <1>5, SweptGapIsFree DEF SearchInv
<1>7. SearchTypeOK'
  BY <1>2, <1>4, <1>6 DEF SearchInv, SearchTypeOK
<1>8. CandidatesFree'
  BY <1>1, <1>2, <1>4, <1>6 DEF SearchInv, CandidatesFree, FeasibleStarts
<1>9. Swept' /\ Answered'
  BY <1>2, <1>4 DEF SearchInv, Swept, Answered
<1>10. Covered'
  <2> SUFFICES ASSUME NEW i \in 1..Len(call.windows), NEW s \in StartsIn(i), i < windowAt + 1
               PROVE  \E c \in candidates' : c.start <= s
    BY <1>1, <1>4 DEF Covered
  <2>1. CASE i < windowAt \/ (i = windowAt /\ s < cursor)
    BY <2>1, <1>2, <1>4 DEF SearchInv, Covered
  <2>2. CASE i = windowAt /\ ~(s < cursor)
    <3>1. s \in Int /\ s + call.duration <= WindowEnd
      BY <2>2, <1>2, <1>3 DEF StartsIn, FreeIn, Within, SlotAt, WindowEnd
    <3>2. SlotAt(cursor, call.duration) \in candidates'
      BY <3>1, <2>2, <1>2, <1>3, <1>4, GapOffersItsStart DEF Gap
    <3> QED
      BY <3>1, <3>2, <2>2, <1>2 DEF SlotAt
  <2> QED
    BY <2>1, <2>2, <1>2
<1> QED
  BY <1>7, <1>8, <1>9, <1>10 DEF SearchInv

LEMMA AnswerHolds == SearchInv /\ Answer => SearchInv'
<1> SUFFICES ASSUME SearchInv, Answer PROVE SearchInv'
  OBVIOUS
<1>1. /\ \A i : Window(i)' = Window(i) /\ StartsIn(i)' = StartsIn(i)
      /\ FeasibleStarts' = FeasibleStarts
  BY CallFixed DEF Answer
<1>2. /\ windowAt > Len(call.windows) /\ pc = "window" /\ pc' = "done" /\ result = NoSlot
      /\ UNCHANGED <<call, windowAt, busyAt, cursor, candidates>>
  BY DEF SearchInv, Answer, Answered
<1>3. \/ candidates = {} /\ result' = NoSlot
      \/ result' \in BestSlots(candidates, call.dayparts)
  BY <1>2 DEF Answer
<1>4. result' \in BestSlots(candidates, call.dayparts) => result' \in Interval
  BY DEF SearchInv, SearchTypeOK, BestSlots
<1>5. SearchTypeOK'
  BY <1>2, <1>3, <1>4 DEF SearchInv, SearchTypeOK
<1>6. Answered'
  BY <1>2, <1>3, <1>4, NoSlotAssumption DEF Answered
<1>7. Swept' /\ CandidatesFree'
  BY <1>1, <1>2 DEF SearchInv, Swept, CandidatesFree
<1>8. Covered'
  BY <1>1, <1>2 DEF SearchInv, Covered
<1> QED
  BY <1>5, <1>6, <1>7, <1>8 DEF SearchInv

LEMMA SearchStutterHolds == SearchInv /\ UNCHANGED searchVars => SearchInv'
<1> SUFFICES ASSUME SearchInv, UNCHANGED searchVars PROVE SearchInv'
  OBVIOUS
<1>1. /\ \A i : Window(i)' = Window(i) /\ StartsIn(i)' = StartsIn(i)
      /\ FeasibleStarts' = FeasibleStarts
  BY CallFixed DEF searchVars
<1>2. SearchTypeOK' /\ Answered'
  BY DEF SearchInv, SearchTypeOK, Answered, searchVars
<1>3. CandidatesFree' /\ Covered'
  BY <1>1 DEF SearchInv, CandidatesFree, Covered, searchVars
<1>4. Swept'
  BY <1>1 DEF SearchInv, Swept, WindowEnd, Irrelevant, searchVars
<1> QED
  BY <1>2, <1>3, <1>4 DEF SearchInv

\* The loop invariant holds throughout the sweep.
THEOREM SearchInvariance == SearchSpec => []SearchInv
<1>1. SearchInv /\ [SearchNext]_searchVars => SearchInv'
  BY SkipWindowHolds, OpenWindowHolds, SkipBusyHolds, SweepBusyHolds,
     CloseWindowHolds, AnswerHolds, SearchStutterHolds DEF SearchNext
<1> QED
  BY SearchInitHolds, <1>1, PTL DEF SearchSpec

-----------------------------------------------------------------------------
\* The variables of the sweep stay in their ranges for every call.
THEOREM SearchTypeCorrect == SearchSpec => []SearchTypeOK
BY SearchInvariance, PTL DEF SearchInv

\* findSlot never offers a slot that leaves its window or overlaps a busy block,
\* whatever the windows, the busy blocks and the dayparts.
THEOREM SearchIsSound == SearchSpec => []CandidatesFree
BY SearchInvariance, PTL DEF SearchInv

\* findSlot passes over no feasible start: when it answers null there is none.
THEOREM SearchIsComplete == SearchSpec => []NothingMissed
<1>1. SearchInv => NothingMissed
  <2> SUFFICES ASSUME SearchInv, pc = "done", NEW s \in FeasibleStarts
               PROVE  \E c \in candidates : c.start <= s
    BY DEF NothingMissed
  <2>1. PICK i \in 1..Len(call.windows) : s \in StartsIn(i)
    BY DEF FeasibleStarts
  <2>2. i < windowAt
    BY CallAssumption DEF SearchInv, SearchTypeOK, Answered
  <2> QED
    BY <2>1, <2>2 DEF SearchInv, Covered
<1> QED
  BY SearchInvariance, <1>1, PTL

\* Without preferred dayparts the answer of findSlot is the earliest feasible slot.
THEOREM AnswerIsEarliest == SearchSpec => []EarliestFit
<1>1. SearchInv => EarliestFit
  <2> SUFFICES ASSUME SearchInv, pc = "done", call.dayparts = {}, NEW s \in FeasibleStarts
               PROVE  result # NoSlot /\ result.start <= s
    BY DEF EarliestFit
  <2>1. PICK i \in 1..Len(call.windows) : s \in StartsIn(i)
    BY DEF FeasibleStarts
  <2>2. i < windowAt
    BY CallAssumption DEF SearchInv, SearchTypeOK, Answered
  <2>3. PICK c \in candidates : c.start <= s
    BY <2>1, <2>2 DEF SearchInv, Covered
  <2>4. result # NoSlot /\ result \in BestSlots(candidates, call.dayparts)
    BY <2>3 DEF SearchInv, Answered
  <2>5. result.start <= c.start /\ result \in Interval /\ c \in Interval
    BY <2>3, <2>4 DEF SearchInv, SearchTypeOK, BestSlots, NotWorse, MatchesPreferredDaypart
  <2>6. s \in Int
    BY <2>1, WindowInterval DEF SearchInv, StartsIn, Interval
  <2> QED
    BY <2>3, <2>4, <2>5, <2>6 DEF Interval
<1> QED
  BY SearchInvariance, <1>1, PTL

-----------------------------------------------------------------------------
(***************************************************************************)
(* The sweep finds the very slots of the set definition CandidatesIn, which *)
(* builds candidates from the end of every busy block: those from the ends  *)
(* that the sweep passes over are either not free or offered again at the   *)
(* cursor's next stop, because a daypart starts only once a day.            *)
(***************************************************************************)
Offers(i) == CandidatesIn(Window(i), BusyOfCall, call.duration, call.dayparts)

CursorAtGap == pc = "busy" => cursor \in GapStarts(Window(windowAt), BusyOfCall)

OnlyOffers == \A c \in candidates : \E i \in 1..Len(call.windows) : c \in Offers(i)

AllOffers ==
  \A i \in 1..Len(call.windows) : \A slot \in Offers(i) :
    (i < windowAt \/ (i = windowAt /\ pc = "busy" /\ slot.start < cursor)) => slot \in candidates

SweepInv == SearchInv /\ CursorAtGap /\ OnlyOffers /\ AllOffers

LEMMA OffersFixed ==
  ASSUME call' = call
  PROVE  /\ \A i : Offers(i)' = Offers(i) /\ Window(i)' = Window(i)
         /\ BusyOfCall' = BusyOfCall
BY DEF Offers, Window, BusyOfCall

\* What the sweep knows of the call.
LEMMA CallTypes ==
  ASSUME SearchTypeOK
  PROVE  /\ call.duration \in Nat \ {0} /\ call.dayparts \in SUBSET Daypart
         /\ Len(call.busy) \in Nat /\ BusyOfCall \subseteq Interval
         /\ \A j \in 1..Len(call.busy) :
              /\ call.busy[j].start \in Int /\ call.busy[j].end \in Int
              /\ call.busy[j].start <= call.busy[j].end
         /\ \A i, j \in 1..Len(call.busy) : i <= j => call.busy[i].start <= call.busy[j].start
<1>1. /\ call.busy \in Seq(Interval) /\ call.duration \in Nat \ {0} /\ call.dayparts \subseteq Daypart
      /\ \A i \in 1..Len(call.busy) : call.busy[i].start <= call.busy[i].end
      /\ \A i, j \in 1..Len(call.busy) : i <= j => call.busy[i].start <= call.busy[j].start
  BY CallAssumption DEF SearchTypeOK
<1>2. \A j \in 1..Len(call.busy) : call.busy[j] \in Interval
  BY <1>1
<1>. QED BY <1>1, <1>2 DEF BusyOfCall, Interval

LEMMA OfferFacts ==
  ASSUME SearchTypeOK, NEW i \in 1..Len(call.windows), NEW slot \in Offers(i)
  PROVE  /\ slot \in Interval /\ slot.end = slot.start + call.duration
         /\ Window(i).start <= slot.start /\ slot.end <= Window(i).end
         /\ \A j \in 1..Len(call.busy) : ~Overlaps(slot, call.busy[j])
         /\ \E g \in GapStarts(Window(i), BusyOfCall) :
              slot \in BuildCandidateSlots(g, Window(i).end, call.duration, call.dayparts)
<1>1. PICK g \in GapStarts(Window(i), BusyOfCall) :
        slot \in BuildCandidateSlots(g, Window(i).end, call.duration, call.dayparts)
  BY DEF Offers, CandidatesIn
<1>2. g \in Int /\ Window(i).end \in Int /\ call.duration \in Nat /\ call.dayparts \in SUBSET Daypart
  BY WindowInterval, CallTypes DEF GapStarts, Interval
<1>3. slot \in Interval /\ slot.end = slot.start + call.duration
  BY <1>1, <1>2, GapSlots
<1>4. FreeIn(slot, Window(i), BusyOfCall)
  BY DEF Offers, CandidatesIn
<1>. QED BY <1>1, <1>3, <1>4 DEF FreeIn, Within, BusyOfCall

\* A candidate of a swept gap is an offer of the window.
LEMMA SweptGapIsOffered ==
  ASSUME SweepInv, pc = "busy",
         NEW k \in 1..Len(call.busy) + 1, NEW gapEnd \in Int, GapSwept(k, gapEnd),
         NEW slot \in Gap(cursor, gapEnd)
  PROVE  slot \in Offers(windowAt)
<1>1. SearchTypeOK /\ cursor \in GapStarts(Window(windowAt), BusyOfCall)
  BY DEF SweepInv, SearchInv, CursorAtGap
<1>2. slot \in Interval /\ slot.end = slot.start + call.duration /\ slot.start \in StartsIn(windowAt)
  BY <1>1, SweptGapIsFree
<1>3. FreeIn(slot, Window(windowAt), BusyOfCall)
  <2>1. SlotAt(slot.start, call.duration) = slot
    BY <1>2 DEF SlotAt, Interval
  <2>. QED BY <1>2, <2>1 DEF StartsIn
<1>4. /\ cursor \in Int /\ Window(windowAt).end \in Int
      /\ call.duration \in Nat /\ call.dayparts \in SUBSET Daypart
  BY <1>1, WindowInterval, CallTypes DEF SearchTypeOK, Interval
<1>5. slot \in BuildCandidateSlots(cursor, gapEnd, call.duration, call.dayparts)
  BY DEF Gap
<1>6. slot.start \in Int /\ cursor <= slot.start /\ slot.end <= Window(windowAt).end
  BY <1>2, <1>3, <1>4, <1>5, GapSlots DEF Interval, FreeIn, Within
<1>7. slot \in BuildCandidateSlots(cursor, Window(windowAt).end, call.duration, call.dayparts)
  BY <1>5, <1>6 DEF BuildCandidateSlots
<1>. QED BY <1>1, <1>3, <1>7 DEF Offers, CandidatesIn

\* An offer that lies in a swept gap is a candidate of that gap.
LEMMA OfferIsSwept ==
  ASSUME SweepInv, pc = "busy",
         NEW k \in 1..Len(call.busy) + 1, NEW gapEnd \in Int, GapSwept(k, gapEnd),
         NEW slot \in Offers(windowAt), cursor <= slot.start, slot.end <= gapEnd
  PROVE  slot \in Gap(cursor, gapEnd)
<1>1. SearchTypeOK /\ windowAt \in 1..Len(call.windows) /\ cursor \in Int
  BY DEF SweepInv, SearchInv, SearchTypeOK
<1>2. /\ slot \in Interval /\ slot.end = slot.start + call.duration
      /\ slot.end <= Window(windowAt).end
      /\ \E g \in GapStarts(Window(windowAt), BusyOfCall) :
           slot \in BuildCandidateSlots(g, Window(windowAt).end, call.duration, call.dayparts)
  BY <1>1, OfferFacts
<1>3. PICK g \in GapStarts(Window(windowAt), BusyOfCall) :
        slot \in BuildCandidateSlots(g, Window(windowAt).end, call.duration, call.dayparts)
  BY <1>2
<1>4. /\ call.duration \in Nat \ {0} /\ call.dayparts \in SUBSET Daypart
      /\ Window(windowAt).start \in Int /\ Window(windowAt).end \in Int
  BY <1>1, CallTypes, WindowInterval DEF Interval
<1>5. slot.start \in Int /\ slot.end \in Int /\ slot.start < slot.end
  BY <1>2, <1>4 DEF Interval
<1>6. g \in Int /\ g <= cursor
  <2>1. CASE g = Window(windowAt).start
    BY <2>1, <1>4 DEF GapSwept
  <2>2. CASE g # Window(windowAt).start
    <3>1. PICK j \in 1..Len(call.busy) : g = call.busy[j].end
      BY <2>2 DEF GapStarts, BusyOfCall
    <3>2. /\ call.busy[j].start \in Int /\ g \in Int /\ call.busy[j].start <= g
          /\ Len(call.busy) \in Nat
      BY <1>1, <3>1, CallTypes
    <3>3. g <= slot.start
      BY <1>3, <1>4, <3>2, GapSlots
    <3>4. j \in 1..k - 1 \/ j \in k..Len(call.busy)
      BY <3>2
    <3>5. g <= cursor \/ Window(windowAt).end <= call.busy[j].start \/ gapEnd <= call.busy[j].start
      BY <3>1, <3>4, <1>1, <1>4, <3>2 DEF GapSwept, Irrelevant, WindowEnd
    <3>6. slot.end <= Window(windowAt).end
      BY <1>2
    <3>7. ~(Window(windowAt).end <= call.busy[j].start) /\ ~(gapEnd <= call.busy[j].start)
      BY <3>2, <3>3, <3>6, <1>4, <1>5
    <3>. QED BY <3>2, <3>5, <3>7
  <2>. QED BY <2>1, <2>2
<1>. QED BY <1>1, <1>3, <1>4, <1>5, <1>6, LaterGapOffers DEF Gap

LEMMA SweepInvInit == SearchInit => SweepInv
<1>1. SearchInit => SearchInv
  BY SearchInitHolds
<1>. QED BY <1>1, CallAssumption DEF SearchInit, SweepInv, CursorAtGap, OnlyOffers, AllOffers

LEMMA SweepBusyOffers ==
  ASSUME SweepInv, SweepBusy
  PROVE  CursorAtGap' /\ OnlyOffers' /\ AllOffers'
<1>. DEFINE busy == call.busy[busyAt]
            fits == cursor + call.duration <= busy.start
<1>1. SearchTypeOK /\ pc = "busy" /\ call' = call /\ UNCHANGED <<windowAt, pc>> /\ busyAt \in 1..Len(call.busy)
  BY DEF SweepInv, SearchInv, SearchTypeOK, SweepBusy
<1>2. /\ call.duration \in Nat \ {0} /\ Len(call.busy) \in Nat
      /\ busy.start \in Int /\ busy.end \in Int /\ cursor \in Int /\ windowAt \in 1..Len(call.windows)
  BY <1>1, CallTypes DEF SearchTypeOK
<1>3. WindowEnd \in Int /\ Window(windowAt).end = WindowEnd
  BY <1>1, <1>2, WindowInterval DEF WindowEnd, Interval
<1>4. cursor < busy.end /\ busy.start < WindowEnd
  BY <1>1, <1>2, <1>3 DEF SweepBusy, Irrelevant
<1>5. /\ cursor' = busy.end
      /\ candidates' = candidates \cup IF fits THEN Gap(cursor, busy.start) ELSE {}
  BY <1>1, <1>2, <1>4 DEF SweepBusy, Later
<1>6. /\ \A i : Offers(i)' = Offers(i) /\ Window(i)' = Window(i)
      /\ BusyOfCall' = BusyOfCall
  BY <1>1, OffersFixed
<1>7. ASSUME fits PROVE GapSwept(busyAt, busy.start)
  <2>1. Window(windowAt).start <= cursor /\ (cursor >= WindowEnd \/ \A j \in 1..busyAt - 1 : Irrelevant(call.busy[j]))
    BY <1>1 DEF SweepInv, SearchInv, Swept
  <2>2. cursor < WindowEnd /\ busy.start <= WindowEnd
    BY <1>2, <1>3, <1>4, <1>7
  <2>3. ~(cursor >= WindowEnd)
    BY <2>2, <1>2, <1>3
  <2>4. \A j \in busyAt..Len(call.busy) : busy.start <= call.busy[j].start
    BY <1>1, <1>2, CallTypes
  <2>. QED BY <2>1, <2>2, <2>3, <2>4 DEF GapSwept
<1>8. busyAt \in 1..Len(call.busy) + 1
  BY <1>1, <1>2
<1>9. CursorAtGap'
  <2>1. busy.end \in GapStarts(Window(windowAt), BusyOfCall)
    BY <1>1 DEF GapStarts, BusyOfCall
  <2>2. GapStarts(Window(windowAt), BusyOfCall)' = GapStarts(Window(windowAt), BusyOfCall)
    BY <1>1, <1>6 DEF GapStarts
  <2>. QED BY <2>1, <2>2, <1>5 DEF CursorAtGap
<1>10. OnlyOffers'
  <2>1. ASSUME NEW c \in candidates' PROVE \E i \in 1..Len(call.windows) : c \in Offers(i)
    <3>1. CASE c \in candidates
      BY <3>1 DEF SweepInv, OnlyOffers
    <3>2. CASE fits /\ c \in Gap(cursor, busy.start)
      <4>1. c \in Offers(windowAt)
        BY <3>2, <1>1, <1>2, <1>7, <1>8, SweptGapIsOffered
      <4>. QED BY <4>1, <1>2
    <3>. QED BY <3>1, <3>2, <1>5
  <2>. QED BY <2>1, <1>1, <1>6 DEF OnlyOffers
<1>11. AllOffers'
  <2>. SUFFICES ASSUME NEW i \in 1..Len(call.windows), NEW slot \in Offers(i),
                       i < windowAt \/ (i = windowAt /\ slot.start < busy.end)
                PROVE  slot \in candidates'
    BY <1>1, <1>5, <1>6 DEF AllOffers
  <2>1. CASE i < windowAt \/ (i = windowAt /\ slot.start < cursor)
    BY <2>1, <1>1, <1>5 DEF SweepInv, AllOffers
  <2>2. CASE i = windowAt /\ ~(slot.start < cursor) /\ slot.start < busy.end
    <3>1. slot \in Interval /\ slot.end = slot.start + call.duration /\ ~Overlaps(slot, busy)
      BY <1>1, OfferFacts
    <3>2. slot.start \in Int /\ slot.end \in Int
      BY <3>1 DEF Interval
    <3>3. cursor <= slot.start /\ slot.end <= busy.start /\ fits
      BY <3>1, <3>2, <2>2, <1>2 DEF Overlaps
    <3>4. slot \in Gap(cursor, busy.start)
      BY <3>3, <2>2, <1>1, <1>2, <1>7, <1>8, OfferIsSwept
    <3>. QED BY <3>3, <3>4, <1>5
  <2>. QED BY <2>1, <2>2
<1>. QED BY <1>9, <1>10, <1>11

LEMMA CloseWindowOffers ==
  ASSUME SweepInv, CloseWindow
  PROVE  CursorAtGap' /\ OnlyOffers' /\ AllOffers'
<1>. DEFINE fits == cursor + call.duration <= WindowEnd
<1>1. SearchTypeOK /\ pc = "busy" /\ call' = call /\ pc' = "window" /\ windowAt' = windowAt + 1
      /\ candidates' = candidates \cup IF fits THEN Gap(cursor, WindowEnd) ELSE {}
  BY DEF SweepInv, SearchInv, CloseWindow
<1>2. /\ call.duration \in Nat \ {0} /\ Len(call.busy) \in Nat /\ busyAt = Len(call.busy) + 1
      /\ cursor \in Int /\ windowAt \in 1..Len(call.windows)
  <2>1. call.duration \in Nat \ {0} /\ Len(call.busy) \in Nat
    BY <1>1, CallTypes
  <2>2. busyAt > Len(call.busy) /\ busyAt \in 1..Len(call.busy) + 1
    BY <1>1 DEF SearchTypeOK, CloseWindow
  <2>3. windowAt \in 1..Len(call.windows) /\ cursor \in Int
    BY <1>1 DEF SearchTypeOK
  <2>. QED BY <2>1, <2>2, <2>3
<1>3. WindowEnd \in Int /\ Window(windowAt).end = WindowEnd
  BY <1>1, <1>2, WindowInterval DEF WindowEnd, Interval
<1>4. /\ \A i : Offers(i)' = Offers(i) /\ Window(i)' = Window(i)
      /\ BusyOfCall' = BusyOfCall
  BY <1>1, OffersFixed
<1>5. ASSUME fits PROVE GapSwept(busyAt, WindowEnd)
  <2>1. Window(windowAt).start <= cursor /\ (cursor >= WindowEnd \/ \A j \in 1..busyAt - 1 : Irrelevant(call.busy[j]))
    BY <1>1 DEF SweepInv, SearchInv, Swept
  <2>2. ~(cursor >= WindowEnd) /\ WindowEnd <= WindowEnd
    BY <1>2, <1>3, <1>5
  <2>3. \A j \in busyAt..Len(call.busy) : WindowEnd <= call.busy[j].start
    BY <1>2
  <2>. QED BY <2>1, <2>2, <2>3 DEF GapSwept
<1>6. busyAt \in 1..Len(call.busy) + 1
  BY <1>2
<1>7. OnlyOffers'
  <2>1. ASSUME NEW c \in candidates' PROVE \E i \in 1..Len(call.windows) : c \in Offers(i)
    <3>1. CASE c \in candidates
      BY <3>1 DEF SweepInv, OnlyOffers
    <3>2. CASE fits /\ c \in Gap(cursor, WindowEnd)
      <4>1. c \in Offers(windowAt)
        BY <3>2, <1>1, <1>3, <1>5, <1>6, SweptGapIsOffered
      <4>. QED BY <4>1, <1>2
    <3>. QED BY <3>1, <3>2, <1>1
  <2>. QED BY <2>1, <1>1, <1>4 DEF OnlyOffers
<1>8. AllOffers'
  <2>. SUFFICES ASSUME NEW i \in 1..Len(call.windows), NEW slot \in Offers(i), i < windowAt + 1
                PROVE  slot \in candidates'
    BY <1>1, <1>4 DEF AllOffers
  <2>1. CASE i < windowAt \/ (i = windowAt /\ slot.start < cursor)
    BY <2>1, <1>1 DEF SweepInv, AllOffers
  <2>2. CASE i = windowAt /\ ~(slot.start < cursor)
    <3>1. /\ slot \in Interval /\ slot.end = slot.start + call.duration
          /\ slot.end <= Window(i).end
      BY <1>1, OfferFacts
    <3>2. slot.start \in Int /\ slot.end \in Int
      BY <3>1 DEF Interval
    <3>3. cursor <= slot.start /\ slot.end <= WindowEnd /\ fits
      BY <3>1, <3>2, <2>2, <1>2, <1>3
    <3>4. slot \in Gap(cursor, WindowEnd)
      BY <3>3, <2>2, <1>1, <1>3, <1>5, <1>6, OfferIsSwept
    <3>. QED BY <3>3, <3>4, <1>1
  <2>. QED BY <2>1, <2>2, <1>2
<1>9. CursorAtGap'
  BY <1>1 DEF CursorAtGap
<1>. QED BY <1>7, <1>8, <1>9

\* The steps that collect no candidate.
LEMMA OtherOffers ==
  ASSUME SweepInv, SkipWindow \/ OpenWindow \/ SkipBusy \/ Answer \/ UNCHANGED searchVars
  PROVE  CursorAtGap' /\ OnlyOffers' /\ AllOffers'
<1>1. SearchTypeOK /\ call' = call /\ candidates' = candidates
  BY DEF SweepInv, SearchInv, SkipWindow, OpenWindow, SkipBusy, Answer, searchVars
<1>2. /\ \A i : Offers(i)' = Offers(i) /\ Window(i)' = Window(i)
      /\ BusyOfCall' = BusyOfCall
  BY <1>1, OffersFixed
<1>3. OnlyOffers'
  BY <1>1, <1>2 DEF SweepInv, OnlyOffers
<1>4. GapStarts(Window(windowAt), BusyOfCall)' = GapStarts(Window(windowAt'), BusyOfCall)
  BY <1>2 DEF GapStarts
<1>5. CASE SkipWindow
  <2>1. windowAt' = windowAt + 1 /\ pc' = "window" /\ windowAt \in 1..Len(call.windows) /\ pc = "window"
        /\ Window(windowAt).start >= Window(windowAt).end
    BY <1>1, <1>5 DEF SkipWindow, SearchTypeOK
  <2>2. Offers(windowAt) = {}
    <3>. SUFFICES ASSUME NEW slot \in Offers(windowAt) PROVE FALSE
      OBVIOUS
    <3>1. /\ slot \in Interval /\ slot.end = slot.start + call.duration
          /\ Window(windowAt).start <= slot.start /\ slot.end <= Window(windowAt).end
      BY <1>1, <2>1, OfferFacts
    <3>2. /\ call.duration \in Nat \ {0} /\ slot.start \in Int
          /\ Window(windowAt).start \in Int /\ Window(windowAt).end \in Int
      BY <1>1, <2>1, <3>1, CallTypes, WindowInterval DEF Interval
    <3>. QED BY <2>1, <3>1, <3>2
  <2>3. AllOffers'
    <3>. SUFFICES ASSUME NEW i \in 1..Len(call.windows), NEW slot \in Offers(i), i < windowAt + 1
                  PROVE  slot \in candidates
      BY <1>1, <1>2, <2>1 DEF AllOffers
    <3>1. i < windowAt
      BY <2>1, <2>2
    <3>. QED BY <3>1 DEF SweepInv, AllOffers
  <2>. QED BY <2>1, <2>3, <1>3 DEF CursorAtGap
<1>6. CASE OpenWindow
  <2>1. windowAt' = windowAt /\ pc' = "busy" /\ cursor' = Window(windowAt).start /\ windowAt \in 1..Len(call.windows)
    BY <1>1, <1>6 DEF OpenWindow, SearchTypeOK
  <2>2. CursorAtGap'
    BY <2>1, <1>4 DEF CursorAtGap, GapStarts
  <2>3. AllOffers'
    <3>. SUFFICES ASSUME NEW i \in 1..Len(call.windows), NEW slot \in Offers(i),
                         i < windowAt \/ (i = windowAt /\ slot.start < Window(windowAt).start)
                  PROVE  slot \in candidates
      BY <1>1, <1>2, <2>1 DEF AllOffers
    <3>1. i < windowAt
      <4>1. slot \in Interval /\ Window(i).start <= slot.start
        BY <1>1, OfferFacts
      <4>2. Window(i).start \in Int /\ slot.start \in Int
        BY <4>1, <1>1, WindowInterval DEF Interval
      <4>. QED BY <4>1, <4>2
    <3>. QED BY <3>1 DEF SweepInv, AllOffers
  <2>. QED BY <2>2, <2>3, <1>3
<1>7. CASE SkipBusy \/ UNCHANGED searchVars
  <2>1. UNCHANGED <<windowAt, pc, cursor>>
    BY <1>7 DEF SkipBusy, searchVars
  <2>. QED BY <2>1, <1>1, <1>2, <1>3, <1>4 DEF SweepInv, CursorAtGap, AllOffers
<1>8. CASE Answer
  <2>1. windowAt' = windowAt /\ pc = "window" /\ pc' = "done"
    BY <1>8 DEF Answer
  <2>. QED BY <2>1, <1>1, <1>2, <1>3 DEF SweepInv, CursorAtGap, AllOffers
<1>. QED BY <1>5, <1>6, <1>7, <1>8

THEOREM SweepInvariance == SearchSpec => []SweepInv
<1>1. SweepInv /\ [SearchNext]_searchVars => SweepInv'
  <2>. SUFFICES ASSUME SweepInv, [SearchNext]_searchVars PROVE SweepInv'
    OBVIOUS
  <2>1. SearchInv'
    BY SkipWindowHolds, OpenWindowHolds, SkipBusyHolds, SweepBusyHolds,
       CloseWindowHolds, AnswerHolds, SearchStutterHolds DEF SearchNext, SweepInv
  <2>. QED BY <2>1, SweepBusyOffers, CloseWindowOffers, OtherOffers DEF SearchNext, SweepInv
<1>. QED BY SweepInvInit, <1>1, PTL DEF SearchSpec

\* The loops of findSlot compute what the set definition FindSlots says, which is what
\* the model of the scheduler uses in their place: the same slot, or none.
THEOREM SweepIsFindSlots == SearchSpec => []AgreesWithFindSlots
<1>1. ASSUME SweepInv PROVE AgreesWithFindSlots
  <2>. SUFFICES ASSUME pc = "done"
                PROVE  IF result = NoSlot THEN Sweep = {} ELSE Sweep = {result}
    BY DEF AgreesWithFindSlots
  <2>1. SearchTypeOK /\ SearchInv
    BY <1>1 DEF SweepInv, SearchInv
  <2>2. windowAt > Len(call.windows) /\ Len(call.windows) \in Nat /\ windowAt \in Int
    BY <2>1, CallAssumption DEF SearchInv, SearchTypeOK, Answered
  <2>3. \A i \in 1..Len(call.windows) : i < windowAt
    BY <2>2
  <2>. DEFINE found == UNION {CandidatesIn(Clip(x, call.earliest, call.latest), BusyOfCall,
                                           call.duration, call.dayparts) : x \in WindowsOfCall}
  <2>4. found = UNION {Offers(i) : i \in 1..Len(call.windows)}
    BY DEF Offers, Window, WindowsOfCall
  <2>5. candidates = found
    <3>1. \A i \in 1..Len(call.windows) : \A slot \in Offers(i) : slot \in candidates
      BY <1>1, <2>3 DEF SweepInv, AllOffers
    <3>2. \A c \in candidates : \E i \in 1..Len(call.windows) : c \in Offers(i)
      BY <1>1 DEF SweepInv, OnlyOffers
    <3>. HIDE DEF found
    <3>. QED BY <3>1, <3>2, <2>4
  <2>6. Sweep = BestSlots(found, call.dayparts)
    BY DEF Sweep, FindSlots
  <2>. HIDE DEF found
  <2>7. \A c \in candidates : c \in Interval /\ c.end = c.start + call.duration
    BY <2>1 DEF SearchInv, SearchTypeOK, CandidatesFree
  <2>8. \A x, y \in BestSlots(candidates, call.dayparts) : x = y
    <3>. SUFFICES ASSUME NEW x \in BestSlots(candidates, call.dayparts),
                         NEW y \in BestSlots(candidates, call.dayparts)
                  PROVE  x = y
      OBVIOUS
    <3>1. /\ x \in candidates /\ y \in candidates
          /\ NotWorse(x, y, call.dayparts) /\ NotWorse(y, x, call.dayparts)
      BY DEF BestSlots
    <3>2. x.start <= y.start /\ y.start <= x.start
      BY <3>1 DEF NotWorse, MatchesPreferredDaypart
    <3>3. x \in Interval /\ y \in Interval /\ x.end = x.start + call.duration /\ y.end = y.start + call.duration
      BY <3>1, <2>7
    <3>4. x.start = y.start
      BY <3>2, <3>3 DEF Interval
    <3>. QED BY <3>3, <3>4 DEF Interval
  <2>9. CASE result = NoSlot
    <3>1. candidates = {}
      BY <2>1, <2>9 DEF SearchInv, Answered
    <3>. QED BY <3>1, <2>5, <2>6, <2>9 DEF BestSlots
  <2>10. CASE result # NoSlot
    <3>1. result \in BestSlots(candidates, call.dayparts)
      BY <2>1, <2>10 DEF SearchInv, Answered
    <3>. QED BY <3>1, <2>5, <2>6, <2>8, <2>10
  <2>. QED BY <2>9, <2>10
<1>. QED BY <1>1, SweepInvariance, PTL

-----------------------------------------------------------------------------
(* The placement. *)

\* The pieces belong to the task at next and are numbered from 1; the committed
\* new blocks belong to tasks before next.  Since no task comes twice, the blocks
\* that busyBlocks leaves out, those of the task itself, do not exist.
Owners ==
  /\ \A x \in pieces : /\ x.task = Current.id /\ x.id[1] = Current.id
                       /\ x.id[2] \in 1..Cardinality(pieces)
  /\ \A x \in blocks \ LockedBlocks :
       /\ x.id[1] = x.task
       /\ \E k \in 1..next - 1 : x.task = batch[ordered[k]].id
  /\ \A x, y \in pieces : x.id = y.id => x = y
  /\ \A x, y \in blocks \ LockedBlocks : x.id = y.id => x = y

InProgress ==
  /\ next > 1 \/ remaining # None => OrderDone
  /\ remaining # None => next <= Len(ordered)

IInv ==
  /\ OrderInv /\ TypeOK /\ InProgress
  /\ IsFiniteSet(pieces)
  /\ LockedBlocks \subseteq blocks
  /\ Owners /\ NoDoubleBooking /\ WithinLimits

-----------------------------------------------------------------------------
LEMMA OverlapIsSymmetric ==
  ASSUME NEW x, NEW y, Overlaps(x, y)
  PROVE  Overlaps(y, x)
BY DEF Overlaps

LEMMA OverlapOfSpans ==
  ASSUME NEW x, NEW y
  PROVE  Overlaps(x, Span(y)) <=> Overlaps(x, y)
BY DEF Overlaps, Span

\* The input, as typed by the assumption.
LEMMA RequestTypes ==
  ASSUME TypeOK
  PROVE  /\ batch \in Seq(Task) /\ Len(batch) \in Nat
         /\ request.range \in Interval /\ request.windows \in SUBSET Interval
         /\ request.events \in SUBSET Event /\ LockedBlocks \in SUBSET Block
         /\ \A i, j \in Tasks : batch[i].id = batch[j].id => i = j
<1>1. request \in Requests /\ batch = request.tasks /\ batch \in Batches
  BY DEF TypeOK, OrderTypeOK
<1> QED
  BY <1>1, RequestAssumption, BatchAssumption DEF LockedBlocks, Tasks

LEMMA TaskNamedIsUnique ==
  ASSUME TypeOK, NEW i \in Tasks
  PROVE  TaskNamed(batch[i].id) = batch[i]
<1>1. TaskWithId(batch[i].id) = i
  BY RequestTypes DEF TaskWithId
<1> QED
  BY <1>1 DEF TaskNamed

LEMMA EventBusyIntervals ==
  ASSUME TypeOK
  PROVE  EventBusy \in SUBSET Interval
<1> SUFFICES ASSUME NEW e \in request.events
             PROVE  [start |-> e.start - e.before, end |-> e.end + e.after] \in Interval
  BY DEF EventBusy
<1>1. e \in Event
  BY RequestTypes
<1> QED
  BY <1>1 DEF Event, Interval

LEMMA SpansAreIntervals ==
  ASSUME NEW S \in SUBSET Block
  PROVE  Spans(S) \in SUBSET Interval
BY DEF Spans, Span, Block, Interval

\* The task being placed and its bounds.
LEMMA CurrentTypes ==
  ASSUME IInv, next <= Len(ordered)
  PROVE  /\ ordered[next] \in Tasks /\ Current \in Task
         /\ EarliestOf(Current) \in Int /\ LatestOf(Current) \in Int
         /\ request.range.start <= EarliestOf(Current)
         /\ LatestOf(Current) <= request.range.end
         /\ Current.earliest # None => Current.earliest <= EarliestOf(Current)
         /\ Current.deadline # None => LatestOf(Current) <= Current.deadline
<1>1. next \in 1..Len(ordered) /\ ordered \in Seq(Tasks)
  BY DEF IInv, TypeOK, OrderTypeOK
<1>2. ordered[next] \in Tasks
  BY <1>1
<1>3. Current \in Task
  BY <1>2, RequestTypes DEF IInv, Current, Tasks
<1>4. /\ Current.earliest \in OptionalTime /\ Current.deadline \in OptionalTime
      /\ request.range.start \in Int /\ request.range.end \in Int
  BY <1>3, RequestTypes DEF IInv, Task, Interval
<1> QED
  BY <1>2, <1>3, <1>4 DEF EarliestOf, LatestOf, OptionalTime, Later, Earlier

\* A piece is not longer than what is left to place.
LEMMA PieceLengthBound ==
  ASSUME NEW t \in Task, NEW left \in Nat
  PROVE  PieceLength(t, left) \in 0..left
<1>1. /\ t.min \in OptionalLength /\ t.max \in OptionalLength /\ t.pref \in OptionalLength
      /\ t.remaining \in Nat
  BY DEF Task
<1> DEFINE minimum == Default(t.min, Earlier(DefaultMinimum, t.remaining))
           maximum == Default(t.max, t.remaining)
           duration == Earlier(Earlier(maximum, Default(t.pref, maximum)), left)
<1>2. minimum \in Nat /\ maximum \in Nat
  BY <1>1, RequestAssumption DEF Default, Earlier, OptionalLength
<1>3. Default(t.pref, maximum) \in Nat
  BY <1>1, <1>2 DEF Default, OptionalLength
<1> HIDE DEF minimum, maximum
<1>4. duration \in Nat /\ duration <= left
  BY <1>2, <1>3 DEF Earlier
<1> HIDE DEF duration
<1>5. PieceLength(t, left) = IF ~t.splittable \/ left <= minimum THEN left
                             ELSE Later(duration, minimum)
  BY DEF PieceLength, minimum, maximum, duration
<1> QED
  BY <1>2, <1>4, <1>5 DEF Later

\* A slot found for the next piece is clear of everything booked so far.
LEMMA SlotIsClear ==
  ASSUME IInv, next <= Len(ordered), remaining \in Nat,
         NEW slot \in SlotsFor(Current)
  PROVE  /\ slot \in Interval
         /\ EarliestOf(Current) <= slot.start /\ slot.end <= LatestOf(Current)
         /\ \E window \in request.windows : Within(slot, window)
         /\ \A e \in EventBusy : ~Overlaps(slot, e)
         /\ \A y \in blocks \cup pieces : ~Overlaps(slot, y)
<1> DEFINE length == PieceLength(Current, remaining)
           busy == BusyFor(Current)
<1>1. /\ EarliestOf(Current) \in Int /\ LatestOf(Current) \in Int
      /\ Current.dayparts \in SUBSET Daypart /\ ordered[next] \in Tasks
      /\ length \in Nat /\ request.windows \in SUBSET Interval
  <2>1. Current \in Task
    BY CurrentTypes
  <2>2. length \in Nat
    BY <2>1, PieceLengthBound
  <2>3. Current.dayparts \in SUBSET Daypart
    BY <2>1 DEF Task
  <2> QED
    BY <2>2, <2>3, CurrentTypes, RequestTypes DEF IInv
<1>2. busy \in SUBSET Interval
  <2>1. /\ LockedBlocks \in SUBSET Block /\ pieces \in SUBSET Block
        /\ {x \in blocks : x.task # Current.id} \in SUBSET Block
    BY RequestTypes DEF IInv, TypeOK
  <2> QED
    BY <2>1, EventBusyIntervals, SpansAreIntervals DEF IInv, BusyFor
<1>3. slot \in FindSlots(request.windows, busy, length,
                         EarliestOf(Current), LatestOf(Current), Current.dayparts)
  BY DEF SlotsFor
<1> HIDE DEF length, busy
<1>4. /\ slot \in Interval
      /\ EarliestOf(Current) <= slot.start /\ slot.end <= LatestOf(Current)
      /\ \E window \in request.windows : Within(slot, window)
      /\ \A y \in busy : ~Overlaps(slot, y)
  BY <1>1, <1>2, <1>3, FoundSlotIsFree
<1>5. ASSUME NEW y \in blocks \cup pieces PROVE Span(y) \in busy
  <2>1. CASE y \in pieces \/ y \in LockedBlocks
    BY <2>1 DEF busy, BusyFor, Spans
  <2>2. CASE y \in blocks \ LockedBlocks
    <3>1. PICK k \in 1..next - 1 : y.task = batch[ordered[k]].id
      BY <2>2 DEF IInv, Owners
    <3>2. k \in 1..Len(ordered) /\ next \in 1..Len(ordered) /\ k # next
      BY DEF IInv, TypeOK, OrderTypeOK
    <3>3. ordered[k] \in Tasks /\ ordered[k] # ordered[next]
      BY <3>2 DEF IInv, OrderInv, OrderTypeOK
    <3>4. y.task # Current.id
      BY <3>1, <3>3, <1>1, RequestTypes DEF IInv, Current
    <3> QED
      BY <2>2, <3>4 DEF busy, BusyFor, Spans
  <2> QED
    BY <1>5, <2>1, <2>2
<1>6. \A e \in EventBusy : e \in busy
  BY DEF busy, BusyFor
<1> QED
  BY <1>4, <1>5, <1>6, OverlapOfSpans

-----------------------------------------------------------------------------
LEMMA InitHolds == Init => IInv
<1> SUFFICES ASSUME Init PROVE IInv
  OBVIOUS
<1>1. OrderInv
  BY OrderInitHolds DEF Init
<1>2. TypeOK
  BY <1>1, RequestAssumption DEF Init, TypeOK, OrderInv, OrderTypeOK, LockedBlocks, OrderInit
<1>3. IsFiniteSet(pieces)
  BY FS_EmptySet DEF Init
<1> QED
  BY <1>1, <1>2, <1>3 DEF Init, IInv, InProgress, Owners, NoDoubleBooking, WithinLimits,
                          NewBlocks

\* What a step that leaves the input alone leaves alone.
LEMMA InputFixed ==
  ASSUME request' = request, batch' = batch
  PROVE  /\ LockedBlocks' = LockedBlocks /\ EventBusy' = EventBusy /\ Tasks' = Tasks
         /\ \A id : TaskNamed(id)' = TaskNamed(id)
BY DEF LockedBlocks, EventBusy, Tasks, TaskNamed, TaskWithId

\* A step that books no new block disturbs neither property of the blocks.
LEMMA FewerNewBlocks ==
  ASSUME IInv, request' = request, batch' = batch,
         NewBlocks' \subseteq NewBlocks,
         (blocks \cup pieces)' \subseteq blocks \cup pieces
  PROVE  NoDoubleBooking' /\ WithinLimits'
<1>1. NoDoubleBooking'
  BY InputFixed DEF IInv, NoDoubleBooking
<1>2. WithinLimits'
  BY InputFixed DEF IInv, WithinLimits
<1> QED
  BY <1>1, <1>2

LEMMA OrderingHolds == IInv /\ Ordering => IInv'
<1> SUFFICES ASSUME IInv, Ordering PROVE IInv'
  OBVIOUS
<1>1. /\ OrderNext /\ UNCHANGED <<request, placeVars>> /\ batch' = batch
      /\ LockedBlocks' = LockedBlocks /\ Tasks' = Tasks
  BY InputFixed DEF Ordering, OrderNext, VisitRoot, VisitDependency, Leave
<1>2. OrderInv'
  BY <1>1, OrderStepHolds DEF IInv
<1>3. ~OrderDone
  <2>1. root \in Nat /\ Len(batch) \in Nat
    BY DependenciesAreSequences DEF IInv, OrderInv, OrderTypeOK
  <2> QED
    BY <1>1, <2>1 DEF OrderNext, VisitRoot, VisitDependency, Leave, OrderDone
<1>4. next = 1 /\ remaining = None
  BY <1>3 DEF IInv, InProgress, TypeOK
<1>5. Len(ordered') \in Nat
  BY <1>2 DEF OrderInv, OrderTypeOK
<1>6. TypeOK' /\ InProgress'
  BY <1>1, <1>2, <1>4, <1>5 DEF IInv, TypeOK, InProgress, OrderInv, placeVars
<1>7. pieces = {} /\ blocks \ LockedBlocks = {}
  BY <1>4 DEF IInv, TypeOK, Owners
<1>8. Owners' /\ IsFiniteSet(pieces)' /\ (LockedBlocks \subseteq blocks)'
  BY <1>1, <1>7 DEF IInv, Owners, placeVars
<1>9. NoDoubleBooking' /\ WithinLimits'
  BY <1>1, FewerNewBlocks DEF placeVars, NewBlocks
<1> QED
  BY <1>2, <1>6, <1>8, <1>9 DEF IInv

\* The steps that only move on to the next task or take it up.
LEMMA RejectTaskHolds == IInv /\ RejectTask => IInv'
<1> SUFFICES ASSUME IInv, RejectTask PROVE IInv'
  OBVIOUS
<1>1. /\ OrderDone /\ next <= Len(ordered) /\ remaining = None /\ next' = next + 1
      /\ UNCHANGED <<orderVars, request, remaining, pieces, blocks, warnings, status>>
      /\ batch' = batch /\ ordered' = ordered
      /\ unscheduled' = unscheduled \cup
           {[task |-> Current.id, reason |-> InvalidReason(Current)]}
  BY DEF RejectTask, Between, orderVars
<1>2. OrderInv' /\ LockedBlocks' = LockedBlocks /\ Tasks' = Tasks
  BY <1>1, OrderStutterHolds, InputFixed DEF IInv
<1>3. next \in Nat /\ Len(ordered) \in Nat /\ ordered[next] \in Tasks
  BY <1>1, CurrentTypes DEF IInv, TypeOK, OrderTypeOK
<1>4. TypeOK' /\ InProgress'
  BY <1>1, <1>2, <1>3 DEF IInv, OrderInv, TypeOK, InProgress, OrderDone, orderVars, Current
<1>5. pieces = {}
  BY <1>1 DEF IInv, TypeOK
<1>6. Owners'
  BY <1>1, <1>2, <1>3, <1>5 DEF IInv, Owners
<1>7. NoDoubleBooking' /\ WithinLimits'
  BY <1>1, <1>2, FewerNewBlocks DEF NewBlocks
<1> QED
  BY <1>1, <1>2, <1>4, <1>6, <1>7 DEF IInv

LEMMA StartTaskHolds == IInv /\ StartTask => IInv'
<1> SUFFICES ASSUME IInv, StartTask PROVE IInv'
  OBVIOUS
<1>1. /\ OrderDone /\ next <= Len(ordered) /\ remaining = None
      /\ remaining' = Current.remaining
      /\ UNCHANGED <<orderVars, request, next, pieces, blocks, unscheduled, warnings, status>>
      /\ batch' = batch /\ ordered' = ordered
  BY DEF StartTask, Between, orderVars
<1>2. OrderInv' /\ LockedBlocks' = LockedBlocks /\ Tasks' = Tasks
  BY <1>1, OrderStutterHolds, InputFixed DEF IInv
<1>3. Current.remaining \in Nat
  BY <1>1, CurrentTypes DEF Task
<1>4. TypeOK' /\ InProgress'
  BY <1>1, <1>2, <1>3 DEF IInv, OrderInv, TypeOK, InProgress, OrderDone, orderVars
<1>5. pieces = {}
  BY <1>1 DEF IInv, TypeOK
<1>6. Owners'
  BY <1>1, <1>2, <1>5 DEF IInv, Owners
<1>7. NoDoubleBooking' /\ WithinLimits'
  BY <1>1, <1>2, FewerNewBlocks DEF NewBlocks
<1> QED
  BY <1>1, <1>2, <1>4, <1>6, <1>7 DEF IInv

\* The step that books: the new piece is clear of what is booked, lies within the
\* limits of its task, and takes the next number.
LEMMA PlacePieceHolds == IInv /\ PlacePiece => IInv'
<1> SUFFICES ASSUME IInv, PlacePiece PROVE IInv'
  OBVIOUS
<1>1. /\ OrderDone /\ next <= Len(ordered) /\ remaining \in Nat /\ remaining > 0
      /\ remaining' = remaining - PieceLength(Current, remaining)
      /\ UNCHANGED <<orderVars, request, next, blocks, unscheduled, warnings, status>>
      /\ batch' = batch /\ ordered' = ordered
  BY DEF IInv, TypeOK, PlacePiece, Placing, orderVars
<1>2. PICK slot \in SlotsFor(Current) : pieces' = pieces \cup {TimeBlock(Current, slot)}
  BY DEF PlacePiece
<1> DEFINE new == TimeBlock(Current, slot)
<1>3. /\ OrderInv' /\ LockedBlocks' = LockedBlocks /\ EventBusy' = EventBusy
      /\ Tasks' = Tasks /\ Current' = Current
      /\ \A id : TaskNamed(id)' = TaskNamed(id)
  BY <1>1, OrderStutterHolds, InputFixed DEF IInv, Current
<1>4. /\ Current \in Task /\ ordered[next] \in Tasks
      /\ slot \in Interval /\ Cardinality(pieces) \in Nat
  BY <1>1, <1>2, CurrentTypes, SlotIsClear, FS_CardinalityType DEF IInv
<1>5. /\ new.start = slot.start /\ new.end = slot.end /\ new.task = Current.id
      /\ new.id[1] = Current.id /\ new.id[2] = Cardinality(pieces) + 1 /\ new \in Block
  BY <1>4 DEF TimeBlock, Block, Task, Interval
<1> HIDE DEF new
<1>6. /\ \A e \in EventBusy : ~Overlaps(new, e)
      /\ \A y \in blocks \cup pieces : ~Overlaps(new, y) /\ ~Overlaps(y, new)
  BY <1>1, <1>2, <1>5, SlotIsClear, OverlapIsSymmetric DEF Overlaps
<1>7. new \notin pieces
  BY <1>4, <1>5 DEF IInv, Owners
<1>8. IsFiniteSet(pieces)' /\ Cardinality(pieces)' = Cardinality(pieces) + 1
  BY <1>2, <1>7, FS_AddElement DEF IInv, new
<1>9. TypeOK' /\ InProgress'
  <2>1. PieceLength(Current, remaining) \in 0..remaining
    BY <1>1, <1>4, PieceLengthBound
  <2>2. remaining' \in Nat
    BY <2>1, <1>1
  <2> QED
    BY <2>2, <1>1, <1>2, <1>3, <1>5, RequestAssumption
       DEF IInv, OrderInv, TypeOK, InProgress, OrderDone, orderVars, new
<1>10. Owners'
  <2>1. \A x \in pieces' : /\ x.task = Current.id /\ x.id[1] = Current.id
                           /\ x.id[2] \in 1..Cardinality(pieces) + 1
    BY <1>2, <1>4, <1>5 DEF IInv, Owners, new
  <2>2. \A x \in pieces : x.id # new.id
    BY <1>4, <1>5 DEF IInv, Owners
  <2>3. \A x, y \in pieces' : x.id = y.id => x = y
    BY <2>2, <1>2 DEF IInv, Owners, new
  <2> QED
    BY <2>1, <2>3, <1>1, <1>3, <1>8 DEF IInv, Owners
<1>11. /\ NewBlocks' = NewBlocks \cup {new}
       /\ (blocks \cup pieces)' = blocks \cup pieces \cup {new}
  BY <1>1, <1>2, <1>3 DEF NewBlocks, new
<1>12. NoDoubleBooking'
  <2> SUFFICES ASSUME NEW x \in NewBlocks'
               PROVE  /\ \A e \in EventBusy : ~Overlaps(x, e)
                      /\ \A y \in (blocks \cup pieces)' \ {x} : ~Overlaps(x, y)
    BY <1>3 DEF NoDoubleBooking
  <2>1. CASE x = new
    BY <2>1, <1>6, <1>11
  <2>2. CASE x \in NewBlocks
    <3>1. x \in blocks \cup pieces
      BY <2>2 DEF NewBlocks
    <3> QED
      BY <2>2, <3>1, <1>6, <1>11 DEF IInv, NoDoubleBooking
  <2> QED
    BY <2>1, <2>2, <1>11
<1>13. WithinLimits'
  <2>1. TaskNamed(new.task) = Current
    BY <1>4, <1>5, TaskNamedIsUnique DEF IInv, Current
  <2>2. /\ \E window \in request.windows : Within(new, window)
        /\ EarliestOf(Current) <= new.start /\ new.end <= LatestOf(Current)
        /\ new.start \in Int /\ new.end \in Int
    BY <1>1, <1>2, <1>5, SlotIsClear DEF Within, Block
  <2>3. /\ request.range.start \in Int /\ request.range.end \in Int
        /\ Current.earliest \in OptionalTime /\ Current.deadline \in OptionalTime
    BY <1>4, RequestTypes DEF IInv, Task, Interval
  <2>4. /\ Within(new, request.range)
        /\ Current.earliest # None => Current.earliest <= new.start
        /\ Current.deadline # None => new.end <= Current.deadline
    BY <2>2, <2>3, <1>1, CurrentTypes DEF Within, OptionalTime
  <2> QED
    BY <2>1, <2>2, <2>4, <1>1, <1>3, <1>11 DEF IInv, WithinLimits
<1> QED
  BY <1>1, <1>3, <1>8, <1>9, <1>10, <1>12, <1>13 DEF IInv

\* The pieces of a task become blocks; its position is now before next.
LEMMA CommitTaskHolds == IInv /\ CommitTask => IInv'
<1> SUFFICES ASSUME IInv, CommitTask PROVE IInv'
  OBVIOUS
<1>1. /\ OrderDone /\ next <= Len(ordered) /\ remaining = 0
      /\ blocks' = blocks \cup pieces
      /\ remaining' = None /\ pieces' = {} /\ next' = next + 1
      /\ UNCHANGED <<orderVars, request, unscheduled, warnings, status>>
      /\ batch' = batch /\ ordered' = ordered
  BY DEF CommitTask, Placing, orderVars
<1>2. OrderInv' /\ LockedBlocks' = LockedBlocks /\ Tasks' = Tasks
  BY <1>1, OrderStutterHolds, InputFixed DEF IInv
<1>3. next \in Nat \ {0} /\ Len(ordered) \in Nat /\ ordered[next] \in Tasks
  BY <1>1, CurrentTypes DEF IInv, TypeOK, OrderTypeOK
<1>4. TypeOK' /\ InProgress'
  BY <1>1, <1>2, <1>3 DEF IInv, OrderInv, TypeOK, InProgress, OrderDone, orderVars
<1>5. IsFiniteSet(pieces)'
  BY <1>1, FS_EmptySet
<1>6. \A x \in blocks \ LockedBlocks, y \in pieces : x.id # y.id
  <2> SUFFICES ASSUME NEW x \in blocks \ LockedBlocks, NEW y \in pieces PROVE x.id # y.id
    OBVIOUS
  <2>1. PICK k \in 1..next - 1 : x.task = batch[ordered[k]].id
    BY DEF IInv, Owners
  <2>2. ordered[k] \in Tasks /\ ordered[k] # ordered[next]
    BY <1>1, <1>3 DEF IInv, OrderInv, OrderTypeOK
  <2>3. x.task # Current.id
    BY <2>1, <2>2, <1>3, RequestTypes DEF IInv, Current
  <2> QED
    BY <2>3 DEF IInv, Owners
<1>7. Owners'
  <2>1. blocks' \ LockedBlocks' \subseteq (blocks \ LockedBlocks) \cup pieces
    BY <1>1, <1>2
  <2>2. \A x \in pieces : x.id[1] = x.task /\ x.task = batch[ordered[next]].id
    BY DEF IInv, Owners, Current
  <2>3. \A x \in blocks \ LockedBlocks :
          x.id[1] = x.task /\ \E k \in 1..next - 1 : x.task = batch[ordered[k]].id
    BY DEF IInv, Owners
  <2>4. next \in 1..next /\ 1..next - 1 \subseteq 1..next /\ (next + 1) - 1 = next
    BY <1>3
  <2>5. \A x \in blocks' \ LockedBlocks' :
          x.id[1] = x.task /\ \E k \in 1..next : x.task = batch[ordered[k]].id
    BY <2>1, <2>2, <2>3, <2>4
  <2>6. \A x, y \in blocks' \ LockedBlocks' : x.id = y.id => x = y
    BY <2>1, <1>6 DEF IInv, Owners
  <2> QED
    BY <2>4, <2>5, <2>6, <1>1 DEF Owners
<1>8. NoDoubleBooking' /\ WithinLimits'
  BY <1>1, <1>2, FewerNewBlocks DEF NewBlocks
<1> QED
  BY <1>1, <1>2, <1>4, <1>5, <1>7, <1>8 DEF IInv

\* Giving a task up forgets its pieces.
LEMMA FailTaskHolds == IInv /\ FailTask => IInv'
<1> SUFFICES ASSUME IInv, FailTask PROVE IInv'
  OBVIOUS
<1>1. /\ OrderDone /\ next <= Len(ordered)
      /\ remaining' = None /\ pieces' = {} /\ next' = next + 1
      /\ UNCHANGED <<orderVars, request, blocks, status>>
      /\ batch' = batch /\ ordered' = ordered
      /\ \A u \in unscheduled' \ unscheduled : u.task = Current.id
  BY DEF FailTask, Placing, orderVars
<1>2. OrderInv' /\ LockedBlocks' = LockedBlocks /\ Tasks' = Tasks
  BY <1>1, OrderStutterHolds, InputFixed DEF IInv
<1>3. next \in Nat \ {0} /\ Len(ordered) \in Nat /\ ordered[next] \in Tasks
  BY <1>1, CurrentTypes DEF IInv, TypeOK, OrderTypeOK
<1>4. TypeOK' /\ InProgress'
  BY <1>1, <1>2, <1>3
     DEF IInv, OrderInv, TypeOK, InProgress, OrderDone, orderVars, Current
<1>5. IsFiniteSet(pieces)'
  BY <1>1, FS_EmptySet
<1>6. Owners'
  BY <1>1, <1>2, <1>3 DEF IInv, Owners
<1>7. NoDoubleBooking' /\ WithinLimits'
  BY <1>1, <1>2, FewerNewBlocks DEF NewBlocks
<1> QED
  BY <1>1, <1>2, <1>4, <1>5, <1>6, <1>7 DEF IInv

\* Returning, and not moving, change neither the input nor the blocks.
LEMMA BlocksUntouched ==
  ASSUME IInv,
         UNCHANGED <<orderVars, request, next, remaining, pieces, blocks, unscheduled>>,
         status' \in {"PLANNING", "PROPOSED", "FAILED"}
  PROVE  IInv'
<1>1. batch' = batch /\ ordered' = ordered /\ Current' = Current
  BY DEF orderVars, Current
<1>2. OrderInv' /\ LockedBlocks' = LockedBlocks /\ Tasks' = Tasks
  BY <1>1, OrderStutterHolds, InputFixed DEF IInv
<1>3. TypeOK' /\ InProgress'
  BY <1>1, <1>2 DEF IInv, OrderInv, TypeOK, InProgress, OrderDone, orderVars
<1>4. Owners' /\ IsFiniteSet(pieces)'
  BY <1>1, <1>2 DEF IInv, Owners
<1>5. NoDoubleBooking' /\ WithinLimits'
  BY <1>1, <1>2, FewerNewBlocks DEF NewBlocks
<1> QED
  BY <1>1, <1>2, <1>3, <1>4, <1>5 DEF IInv

THEOREM Invariance == Spec => []IInv
<1>1. IInv /\ Return => IInv'
  BY BlocksUntouched DEF Return
<1>2. IInv /\ UNCHANGED vars => IInv'
  <2> SUFFICES ASSUME IInv, UNCHANGED vars PROVE IInv'
    OBVIOUS
  <2> QED
    BY BlocksUntouched DEF vars, placeVars, IInv, TypeOK
<1>3. IInv /\ [Next]_vars => IInv'
  BY <1>1, <1>2, OrderingHolds, RejectTaskHolds, StartTaskHolds, PlacePieceHolds,
     CommitTaskHolds, FailTaskHolds DEF Next
<1> QED
  BY InitHolds, <1>3, PTL DEF Spec

-----------------------------------------------------------------------------
\* createSchedule sorts by orderTasksForScheduling and by nothing else: the ordering is
\* complete before the first task is placed, and never touched again.
LEMMA OrderingIsUndisturbed == Spec => OrderSpec
<1>1. Init => OrderInit
  BY DEF Init
<1>2. ASSUME [Next]_vars PROVE [OrderNext]_orderVars
  <2>1. CASE Ordering
    BY <2>1 DEF Ordering
  <2>2. CASE UNCHANGED orderVars
    BY <2>2
  <2>3. ASSUME ~Ordering PROVE UNCHANGED orderVars
    BY <1>2, <2>3 DEF Next, RejectTask, StartTask, PlacePiece, CommitTask, FailTask, Return, vars
  <2>. QED BY <2>1, <2>2, <2>3
<1>. QED BY <1>1, <1>2, PTL DEF Spec, OrderSpec

\* The tasks that createSchedule places, for every batch: each of them once ...
THEOREM EveryTaskIsPlacedOnce == Spec => []EveryTaskOnce
BY OrderingIsUndisturbed, OrderIsPermutation, PTL

\* ... in the order of compareTasks, but dependencies first, and nothing but dependencies.
THEOREM PlacedInOrder == Spec => []OrderFollowsDependencies
BY OrderingIsUndisturbed, OrderIsFaithful, PTL

-----------------------------------------------------------------------------
\* createSchedule keeps its variables in their types, for every input.
THEOREM TypeCorrect == Spec => []TypeOK
BY Invariance, PTL DEF IInv

\* No block that createSchedule makes overlaps a blocking event, a locked block or
\* another block, for any tasks, events, locked blocks, windows and dayparts.
THEOREM NeverDoubleBooks == Spec => []NoDoubleBooking
BY Invariance, PTL DEF IInv

\* Every block that createSchedule makes lies in one working window, in the
\* planning range, and between its task's earliest start and deadline.
THEOREM StaysWithinLimits == Spec => []WithinLimits
BY Invariance, PTL DEF IInv

\* Block ids are unique in a plan when no task of the batch has a locked block.
THEOREM BlockIdsAreUnique == Spec => []UniqueBlockIds
<1>1. IInv => UniqueBlockIds
  <2> SUFFICES ASSUME IInv, \A x \in LockedBlocks, i \in Tasks : x.task # batch[i].id,
                      NEW x \in blocks \cup pieces, NEW y \in blocks \cup pieces,
                      x.id = y.id
               PROVE  x = y
    BY DEF UniqueBlockIds
  <2>1. /\ \A z \in LockedBlocks : z.id[1] = z.task
        /\ \A v, z \in LockedBlocks : v.id = z.id => v = z
    BY RequestAssumption DEF IInv, TypeOK, LockedBlocks
  <2>2. ASSUME NEW z \in blocks \ LockedBlocks
        PROVE  /\ \E k \in 1..next - 1 : z.id[1] = batch[ordered[k]].id /\ ordered[k] \in Tasks
    <3>1. PICK k \in 1..next - 1 : z.task = batch[ordered[k]].id /\ z.id[1] = z.task
      BY <2>2 DEF IInv, Owners
    <3>2. k \in 1..Len(ordered)
      BY DEF IInv, TypeOK, OrderTypeOK
    <3> QED
      BY <3>1, <3>2 DEF IInv, OrderInv, OrderTypeOK
  <2>3. ASSUME NEW z \in pieces
        PROVE  /\ z.id[1] = batch[ordered[next]].id /\ ordered[next] \in Tasks
               /\ \A k \in 1..next - 1 : ordered[k] # ordered[next]
    <3>1. next \in 1..Len(ordered)
      BY <2>3 DEF IInv, InProgress, TypeOK, OrderTypeOK
    <3>2. z.id[1] = Current.id
      BY <2>3 DEF IInv, Owners
    <3>3. ordered[next] \in Tasks
      BY <3>1 DEF IInv, OrderInv, OrderTypeOK
    <3>4. \A k \in 1..next - 1 : k \in 1..Len(ordered) /\ k # next
      BY <3>1 DEF IInv, TypeOK, OrderTypeOK
    <3> QED
      BY <3>1, <3>2, <3>3, <3>4 DEF IInv, OrderInv, Current
  <2>4. CASE x \in LockedBlocks /\ y \in LockedBlocks
    BY <2>1, <2>4
  <2>5. CASE x \in LockedBlocks /\ y \notin LockedBlocks
    BY <2>1, <2>2, <2>3, <2>5
  <2>6. CASE x \notin LockedBlocks /\ y \in LockedBlocks
    BY <2>1, <2>2, <2>3, <2>6
  <2>7. CASE x \in blocks \ LockedBlocks /\ y \in blocks \ LockedBlocks
    BY <2>7 DEF IInv, Owners
  <2>8. CASE x \in pieces /\ y \in pieces
    BY <2>8 DEF IInv, Owners
  <2>9. CASE x \in blocks \ LockedBlocks /\ y \in pieces
    BY <2>2, <2>3, <2>9, RequestTypes DEF IInv
  <2>10. CASE x \in pieces /\ y \in blocks \ LockedBlocks
    BY <2>2, <2>3, <2>10, RequestTypes DEF IInv
  <2> QED
    BY <2>4, <2>5, <2>6, <2>7, <2>8, <2>9, <2>10
<1> QED
  BY Invariance, <1>1, PTL

-----------------------------------------------------------------------------
(***************************************************************************)
(* The promise.  First the total length of blocks, which PlanContract sums *)
(* over a set: it is the number of units of time that the blocks take.     *)
(***************************************************************************)

Length(b) == b.end - b.start
Timed(S) == IsFiniteSet(S) /\ \A b \in S : Length(b) \in Nat

\* The sum over the blocks of a set, as PlanContract writes it.
Total(S) == MapThenSumSet(LAMBDA b : b.end - b.start, S)

\* The units of time that blocks take, each with its block.
UnitsOf(b) == {b} \X (1..Length(b))
Units(S) == UNION {UnitsOf(b) : b \in S}

Sums(f, S) ==
  f = [s \in SUBSET S |-> IF s = {} THEN 0
                          ELSE Length(CHOOSE x \in s : TRUE) + f[s \ {CHOOSE x \in s : TRUE}]]

LEMMA TotalIsSum ==
  ASSUME NEW S
  PROVE  Total(S) = (CHOOSE f : Sums(f, S))[S]
BY Zenon DEF Total, MapThenSumSet, MapThenFoldSet, Sums, Length

LEMMA UnitsOfBlock ==
  ASSUME NEW b, Length(b) \in Nat
  PROVE  IsFiniteSet(UnitsOf(b)) /\ Cardinality(UnitsOf(b)) = Length(b)
<1>. DEFINE n == Length(b)
<1>1. IsFiniteSet({b}) /\ Cardinality({b}) = 1
  BY FS_Singleton
<1>2. n \in Nat
  OBVIOUS
<1>. HIDE DEF n
<1>3. IsFiniteSet(1..n) /\ Cardinality(1..n) = n
  BY <1>2, FS_Interval
<1>4. IsFiniteSet({b} \X (1..n)) /\ Cardinality({b} \X (1..n)) = 1 * n
  <2>. DEFINE B == {b}
              N == 1..n
  <2>1. IsFiniteSet(B) /\ Cardinality(B) = 1 /\ IsFiniteSet(N) /\ Cardinality(N) = n
    BY <1>1, <1>3
  <2>. HIDE DEF B, N
  <2>2. IsFiniteSet(B \X N) /\ Cardinality(B \X N) = Cardinality(B) * Cardinality(N)
    BY <2>1, FS_Product
  <2>3. IsFiniteSet(B \X N) /\ Cardinality(B \X N) = 1 * n
    BY <2>1, <2>2
  <2>. QED BY <2>3 DEF B, N
<1>. QED BY <1>2, <1>4 DEF UnitsOf, n

LEMMA UnitsFinite ==
  ASSUME NEW S, Timed(S)
  PROVE  IsFiniteSet(Units(S)) /\ Cardinality(Units(S)) \in Nat
<1>1. IsFiniteSet({UnitsOf(b) : b \in S})
  <2>. DEFINE f == [b \in S |-> UnitsOf(b)]
              T == {UnitsOf(b) : b \in S}
  <2>1. f \in Surjection(S, T)
    BY DEF Surjection
  <2>. HIDE DEF f, T
  <2>2. IsFiniteSet(T)
    BY <2>1, FS_Surjection DEF Timed
  <2>. QED BY <2>2 DEF T
<1>2. \A U \in {UnitsOf(b) : b \in S} : IsFiniteSet(U)
  BY UnitsOfBlock DEF Timed
<1>3. IsFiniteSet(Units(S))
  BY <1>1, <1>2, FS_UNION DEF Units
<1>. QED BY <1>3, FS_CardinalityType

LEMMA UnitsAdd ==
  ASSUME NEW S, Timed(S), NEW x, x \notin S, Length(x) \in Nat
  PROVE  /\ Timed(S \cup {x})
         /\ Cardinality(Units(S \cup {x})) = Cardinality(Units(S)) + Length(x)
<1>1. Timed(S \cup {x})
  BY FS_AddElement DEF Timed
<1>2. Units(S \cup {x}) = Units(S) \cup UnitsOf(x)
  BY DEF Units
<1>3. Units(S) \cap UnitsOf(x) = {}
  BY DEF Units, UnitsOf
<1>4. /\ IsFiniteSet(Units(S)) /\ Cardinality(Units(S)) \in Nat
      /\ IsFiniteSet(UnitsOf(x)) /\ Cardinality(UnitsOf(x)) = Length(x)
  BY UnitsFinite, UnitsOfBlock
<1>5. Cardinality(Units(S) \cup UnitsOf(x)) =
        Cardinality(Units(S)) + Cardinality(UnitsOf(x)) - Cardinality(Units(S) \cap UnitsOf(x))
  BY <1>4, FS_Union
<1>6. Cardinality(Units(S) \cap UnitsOf(x)) = 0
  BY <1>3, FS_EmptySet
<1>7. Cardinality(Units(S) \cup UnitsOf(x)) = Cardinality(Units(S)) + Length(x)
  <2>. DEFINE c == Cardinality(Units(S))
              l == Length(x)
              z == Cardinality(Units(S) \cap UnitsOf(x))
              u == Cardinality(Units(S) \cup UnitsOf(x))
  <2>1. c \in Nat /\ l \in Nat /\ z = 0 /\ u = c + l - z
    BY <1>4, <1>5, <1>6
  <2>. HIDE DEF c, l, z, u
  <2>2. u = c + l
    BY <2>1
  <2>. QED BY <2>2 DEF c, l, u
<1>. QED BY <1>1, <1>2, <1>7

LEMMA UnitsSum ==
  ASSUME NEW S, Timed(S)
  PROVE  Sums([s \in SUBSET S |-> Cardinality(Units(s))], S)
<1>. DEFINE h == [s \in SUBSET S |-> Cardinality(Units(s))]
<1>1. ASSUME NEW s \in SUBSET S
      PROVE  h[s] = IF s = {} THEN 0
                    ELSE Length(CHOOSE x \in s : TRUE) + h[s \ {CHOOSE x \in s : TRUE}]
  <2>1. CASE s = {}
    <3>1. Units(s) = {}
      BY <2>1 DEF Units
    <3>. QED BY <3>1, <2>1, FS_EmptySet
  <2>2. CASE s # {}
    <3>. DEFINE x == CHOOSE y \in s : TRUE
                r == s \ {x}
    <3>1. x \in s
      BY <2>2
    <3>. HIDE DEF x
    <3>2. /\ r \cup {x} = s /\ x \notin r /\ r \in SUBSET S
      BY <3>1
    <3>. HIDE DEF r
    <3>3. Timed(r) /\ Length(x) \in Nat
      BY <3>1, <3>2, FS_Subset DEF Timed
    <3>4. Cardinality(Units(r \cup {x})) = Cardinality(Units(r)) + Length(x)
      BY <3>2, <3>3, UnitsAdd
    <3>5. Cardinality(Units(r)) \in Nat
      BY <3>3, UnitsFinite
    <3>6. h[s] = Cardinality(Units(s)) /\ h[r] = Cardinality(Units(r))
      BY <3>2
    <3>7. Cardinality(Units(s)) = Cardinality(Units(r)) + Length(x)
      BY <3>2, <3>4
    <3>. HIDE DEF h
    <3>8. h[s] = Length(x) + h[r]
      <4>. DEFINE c == Cardinality(Units(r))
                  l == Length(x)
      <4>1. c \in Nat /\ l \in Nat /\ h[s] = c + l /\ h[r] = c
        BY <3>3, <3>5, <3>6, <3>7
      <4>. HIDE DEF c, l
      <4>2. h[s] = l + h[r]
        BY <4>1
      <4>. QED BY <4>2 DEF l
    <3>. QED BY <2>2, <3>8 DEF r, x
  <2>. QED BY <2>1, <2>2
<1>. QED BY <1>1 DEF Sums

\* The recursion has one solution on the finite subsets.
LEMMA SumsUnique ==
  ASSUME NEW S, IsFiniteSet(S), NEW f, NEW g, Sums(f, S), Sums(g, S)
  PROVE  f[S] = g[S]
<1>. DEFINE A == {s \in SUBSET S : f[s] # g[s]}
<1>. SUFFICES ASSUME A # {} PROVE FALSE
  OBVIOUS
<1>1. IsWellFoundedOn(StrictSubsetOrdering(S), SUBSET S)
  BY FS_StrictSubsetOrderingWellFounded, FS_FiniteSubsetsOfFinite
<1>2. PICK s \in A : \A t \in A : <<t, s>> \notin StrictSubsetOrdering(S)
  <2>1. A \subseteq SUBSET S
    OBVIOUS
  <2>. HIDE DEF A
  <2>. QED BY <1>1, <2>1, WFMin
<1>. DEFINE x == CHOOSE y \in s : TRUE
<1>3. CASE s = {}
  BY <1>2, <1>3 DEF Sums
<1>4. CASE s # {}
  <2>1. x \in s
    BY <1>4
  <2>2. f[s] = Length(x) + f[s \ {x}] /\ g[s] = Length(x) + g[s \ {x}]
    BY <1>2, <1>4, Zenon DEF Sums
  <2>. HIDE DEF x
  <2>3. <<s \ {x}, s>> \in StrictSubsetOrdering(S)
    BY <1>2, <2>1 DEF StrictSubsetOrdering
  <2>4. s \ {x} \notin A
    <3>. HIDE DEF A
    <3>. QED BY <1>2, <2>3
  <2>5. f[s \ {x}] = g[s \ {x}]
    BY <1>2, <2>4
  <2>. QED BY <1>2, <2>2, <2>5
<1>. QED BY <1>3, <1>4

LEMMA TotalIsUnits ==
  ASSUME NEW S, Timed(S)
  PROVE  Total(S) = Cardinality(Units(S)) /\ Total(S) \in Nat
<1>. DEFINE h == [s \in SUBSET S |-> Cardinality(Units(s))]
            F == CHOOSE f : Sums(f, S)
<1>1. Sums(h, S)
  BY UnitsSum
<1>. HIDE DEF h
<1>2. Sums(F, S)
  BY <1>1
<1>3. F[S] = h[S]
  <2>. HIDE DEF F
  <2>. QED BY <1>1, <1>2, SumsUnique DEF Timed
<1>4. h[S] = Cardinality(Units(S))
  BY DEF h
<1>. QED BY <1>3, <1>4, TotalIsSum, UnitsFinite

LEMMA NoBlocksTotal == Total({}) = 0 /\ Timed({})
<1>1. Timed({}) /\ Units({}) = {}
  BY FS_EmptySet DEF Timed, Units
<1>. QED BY <1>1, TotalIsUnits, FS_EmptySet

LEMMA TotalOfMore ==
  ASSUME NEW S, Timed(S), NEW x, x \notin S, Length(x) \in Nat
  PROVE  /\ Timed(S \cup {x})
         /\ Total(S \cup {x}) = Total(S) + Length(x)
BY UnitsAdd, TotalIsUnits

-----------------------------------------------------------------------------
(* What findSlot finds: a slot when one fits, and the earliest one. *)

\* A slot at this start is free in the part of some window that a task may use.
FitsAt(s, windows, busy, duration, earliest, latest) ==
  \E w \in windows : FreeIn(SlotAt(s, duration), Clip(w, earliest, latest), busy)

LEMMA LeastNat ==
  ASSUME NEW A \in SUBSET Nat, A # {}
  PROVE  \E m \in A : \A k \in A : m <= k
<1>. DEFINE R == {p \in Nat \X Nat : p[1] < p[2]}
<1>1. IsWellFoundedOn(R, Nat)
  BY NatLessThanWellFounded DEF OpToRel
<1>. HIDE DEF R
<1>2. PICK m \in A : \A y \in A : <<y, m>> \notin R
  BY <1>1, WFMin
<1>3. ASSUME NEW k \in A PROVE m <= k
  <2>1. k < m => <<k, m>> \in R
    BY DEF R
  <2>2. ~(k < m) /\ k \in Nat /\ m \in Nat
    BY <1>2, <2>1
  <2>. QED BY <2>2
<1>. QED BY <1>3

\* Integers that are bounded below have a least one.
LEMMA LeastInteger ==
  ASSUME NEW A \in SUBSET Int, A # {}, NEW low \in Int, \A a \in A : low <= a
  PROVE  \E m \in A : \A a \in A : m <= a
<1>. DEFINE B == {n \in Nat : low + n \in A}
<1>1. \A a \in A : a - low \in B
  BY DEF B
<1>2. PICK n \in B : \A k \in B : n <= k
  <2>1. B \in SUBSET Nat /\ B # {}
    BY <1>1
  <2>. HIDE DEF B
  <2>. QED BY <2>1, LeastNat
<1>3. \A a \in A : low + n <= a
  BY <1>1, <1>2
<1>. QED BY <1>2, <1>3

LEMMA GreatestInteger ==
  ASSUME NEW A \in SUBSET Int, A # {}, NEW high \in Int, \A a \in A : a <= high
  PROVE  \E m \in A : \A a \in A : a <= m
<1>. DEFINE B == {b \in Int : -b \in A}
<1>1. ASSUME NEW a \in A PROVE -a \in B /\ -a \in Int
  <2>1. a \in Int /\ -a \in Int /\ -(-a) = a
    OBVIOUS
  <2>. QED BY <2>1
<1>2. ASSUME NEW b \in B PROVE -high <= b
  <2>1. b \in Int /\ -b \in A /\ -b <= high
    OBVIOUS
  <2>. QED BY <2>1
<1>3. B \in SUBSET Int /\ B # {}
  BY <1>1
<1>. HIDE DEF B
<1>4. PICK m \in B : \A b \in B : m <= b
  BY <1>2, <1>3, LeastInteger, -high \in Int
<1>5. -m \in A /\ m \in Int
  BY DEF B
<1>6. ASSUME NEW a \in A PROVE a <= -m
  <2>1. m <= -a /\ a \in Int
    BY <1>1, <1>4
  <2>. QED BY <2>1, <1>5
<1>. QED BY <1>5, <1>6

\* When a slot fits, the sweep has a candidate that starts no later: the one at the
\* start of the gap the slot lies in.
LEMMA FittingGap ==
  ASSUME NEW window \in Interval, NEW busy \in SUBSET Interval, NEW duration \in Nat,
         NEW dayparts, NEW s \in Int, FreeIn(SlotAt(s, duration), window, busy)
  PROVE  \E g \in Int : g <= s /\ SlotAt(g, duration) \in CandidatesIn(window, busy, duration, dayparts)
<1>. DEFINE G == {g \in GapStarts(window, busy) : g <= s}
<1>1. /\ window.start \in Int /\ window.end \in Int
      /\ window.start <= s /\ s + duration <= window.end
  BY DEF FreeIn, Within, SlotAt, Interval
<1>2. G \in SUBSET Int /\ G # {}
  BY <1>1 DEF GapStarts, Interval
<1>3. PICK g \in G : \A c \in G : c <= g
  <2>. \A c \in G : c <= s
    OBVIOUS
  <2>. HIDE DEF G
  <2>. QED BY <1>2, GreatestInteger
<1>4. g \in Int /\ g <= s /\ window.start <= g /\ g + duration <= window.end
  <2>1. window.start \in G
    BY <1>1 DEF GapStarts
  <2>2. g \in Int /\ g <= s /\ window.start <= g
    BY <1>2, <1>3, <2>1
  <2>. QED BY <1>1, <2>2
<1>5. SlotAt(g, duration) \in BuildCandidateSlots(g, window.end, duration, dayparts)
  BY <1>1, <1>4, GapOffersItsStart
<1>6. ASSUME NEW b \in busy PROVE ~Overlaps(SlotAt(g, duration), b)
  <2>1. b.start \in Int /\ b.end \in Int /\ ~(s < b.end /\ b.start < s + duration)
    BY DEF FreeIn, Overlaps, SlotAt, Interval
  <2>2. b.end <= s => b.end <= g
    BY <1>3 DEF GapStarts
  <2>. QED BY <2>1, <2>2, <1>4 DEF Overlaps, SlotAt
<1>7. FreeIn(SlotAt(g, duration), window, busy)
  BY <1>4, <1>6 DEF FreeIn, Within, SlotAt
<1>. QED BY <1>3, <1>4, <1>5, <1>7 DEF CandidatesIn

Candidates(windows, busy, duration, earliest, latest, dayparts) ==
  UNION {CandidatesIn(Clip(w, earliest, latest), busy, duration, dayparts) : w \in windows}

\* A candidate is a slot of the length asked for, and is free.
LEMMA CandidateFits ==
  ASSUME NEW windows \in SUBSET Interval, NEW busy \in SUBSET Interval,
         NEW duration \in Nat, NEW earliest \in Int, NEW latest \in Int,
         NEW dayparts \in SUBSET Daypart,
         NEW slot \in Candidates(windows, busy, duration, earliest, latest, dayparts)
  PROVE  /\ slot.start \in Int /\ slot = SlotAt(slot.start, duration)
         /\ earliest <= slot.start
         /\ FitsAt(slot.start, windows, busy, duration, earliest, latest)
<1>1. PICK w \in windows :
        slot \in CandidatesIn(Clip(w, earliest, latest), busy, duration, dayparts)
  BY DEF Candidates
<1>. DEFINE clip == Clip(w, earliest, latest)
<1>2. clip \in Interval
  BY ClipInterval
<1>3. PICK g \in GapStarts(clip, busy) :
        slot \in BuildCandidateSlots(g, clip.end, duration, dayparts)
  BY <1>1 DEF CandidatesIn
<1>4. FreeIn(slot, clip, busy)
  BY <1>1 DEF CandidatesIn
<1>5. earliest <= clip.start /\ clip.start \in Int /\ w.start \in Int
  BY <1>2 DEF Clip, Later, Interval
<1>. HIDE DEF clip
<1>6. g \in Int /\ clip.end \in Int
  BY <1>2, <1>3 DEF GapStarts, Interval
<1>7. slot \in Interval /\ slot.end = slot.start + duration
  BY <1>3, <1>6, GapSlots
<1>8. slot = SlotAt(slot.start, duration) /\ slot.start \in Int
  BY <1>7 DEF SlotAt, Interval
<1>9. earliest <= slot.start
  BY <1>4, <1>5, <1>8 DEF FreeIn, Within
<1>. QED BY <1>4, <1>8, <1>9 DEF FitsAt, clip

LEMMA FittingCandidate ==
  ASSUME NEW windows \in SUBSET Interval, NEW busy \in SUBSET Interval,
         NEW duration \in Nat, NEW earliest \in Int, NEW latest \in Int, NEW dayparts,
         NEW s \in Int, FitsAt(s, windows, busy, duration, earliest, latest)
  PROVE  \E g \in Int : /\ g <= s
           /\ SlotAt(g, duration) \in Candidates(windows, busy, duration, earliest, latest, dayparts)
<1>1. PICK w \in windows : FreeIn(SlotAt(s, duration), Clip(w, earliest, latest), busy)
  BY DEF FitsAt
<1>2. Clip(w, earliest, latest) \in Interval
  BY ClipInterval
<1>. QED BY <1>1, <1>2, FittingGap DEF Candidates

\* Of candidates there is always a best one.
LEMMA SomeCandidateIsBest ==
  ASSUME NEW C, C # {}, NEW low \in Int, NEW dayparts,
         \A c \in C : c.start \in Int /\ low <= c.start
  PROVE  BestSlots(C, dayparts) # {}
<1>. DEFINE P == {c \in C : MatchesPreferredDaypart(c, dayparts)}
            D == IF P = {} THEN C ELSE P
            A == {c.start : c \in D}
<1>1. PICK m \in A : \A a \in A : m <= a
  <2>1. A \in SUBSET Int /\ A # {} /\ \A a \in A : low <= a
    OBVIOUS
  <2>. HIDE DEF A
  <2>. QED BY <2>1, LeastInteger
<1>2. PICK c \in D : c.start = m
  OBVIOUS
<1>3. ASSUME NEW b \in C PROVE NotWorse(c, b, dayparts)
  <2>1. c \in C /\ b.start \in Int /\ c.start \in Int
    BY <1>2
  <2>2. b \in D => c.start <= b.start
    BY <1>1, <1>2
  <2>3. CASE P = {}
    <3>1. ~MatchesPreferredDaypart(c, dayparts) /\ ~MatchesPreferredDaypart(b, dayparts)
      BY <2>1, <2>3
    <3>2. c.start <= b.start
      BY <2>2, <2>3
    <3>3. MatchesPreferredDaypart(c, dayparts) = MatchesPreferredDaypart(b, dayparts)
      BY <3>1 DEF MatchesPreferredDaypart
    <3>. QED BY <3>2, <3>3, Zenon DEF NotWorse
  <2>4. CASE P # {}
    <3>1. MatchesPreferredDaypart(c, dayparts)
      BY <1>2, <2>4
    <3>2. MatchesPreferredDaypart(b, dayparts) => c.start <= b.start
      BY <2>2, <2>4
    <3>. QED BY <3>1, <3>2 DEF NotWorse
  <2>. QED BY <2>3, <2>4
<1>. QED BY <1>2, <1>3 DEF BestSlots

\* findSlot finds a slot when there is one ...
LEMMA FindsWhatFits ==
  ASSUME NEW windows \in SUBSET Interval, NEW busy \in SUBSET Interval,
         NEW duration \in Nat, NEW earliest \in Int, NEW latest \in Int,
         NEW dayparts \in SUBSET Daypart,
         NEW s \in Int, FitsAt(s, windows, busy, duration, earliest, latest)
  PROVE  FindSlots(windows, busy, duration, earliest, latest, dayparts) # {}
<1>. DEFINE C == Candidates(windows, busy, duration, earliest, latest, dayparts)
<1>1. C # {}
  BY FittingCandidate
<1>2. \A c \in C : c.start \in Int /\ earliest <= c.start
  BY CandidateFits
<1>3. FindSlots(windows, busy, duration, earliest, latest, dayparts) = BestSlots(C, dayparts)
  BY DEF FindSlots, Candidates
<1>. HIDE DEF C
<1>4. BestSlots(C, dayparts) # {}
  BY <1>1, <1>2, SomeCandidateIsBest
<1>. QED BY <1>3, <1>4

\* ... only slots that fit, and the earliest of them when no daypart is preferred.
LEMMA FoundFits ==
  ASSUME NEW windows \in SUBSET Interval, NEW busy \in SUBSET Interval,
         NEW duration \in Nat, NEW earliest \in Int, NEW latest \in Int,
         NEW dayparts \in SUBSET Daypart,
         NEW slot \in FindSlots(windows, busy, duration, earliest, latest, dayparts)
  PROVE  /\ slot.start \in Int /\ slot = SlotAt(slot.start, duration)
         /\ FitsAt(slot.start, windows, busy, duration, earliest, latest)
<1>1. slot \in Candidates(windows, busy, duration, earliest, latest, dayparts)
  BY DEF FindSlots, BestSlots, Candidates
<1>. QED BY <1>1, CandidateFits

LEMMA FoundIsEarliest ==
  ASSUME NEW windows \in SUBSET Interval, NEW busy \in SUBSET Interval,
         NEW duration \in Nat, NEW earliest \in Int, NEW latest \in Int,
         NEW slot \in FindSlots(windows, busy, duration, earliest, latest, {}),
         NEW s \in Int, FitsAt(s, windows, busy, duration, earliest, latest)
  PROVE  slot.start <= s
<1>. DEFINE C == Candidates(windows, busy, duration, earliest, latest, {})
<1>1. PICK g \in Int : g <= s /\ SlotAt(g, duration) \in C
  BY FittingCandidate
<1>2. slot \in BestSlots(C, {})
  BY DEF FindSlots, Candidates
<1>3. slot \in C
  BY <1>2 DEF BestSlots
<1>4. slot.start \in Int
  BY <1>3, CandidateFits, {} \in SUBSET Daypart
<1>. HIDE DEF C
<1>5. NotWorse(slot, SlotAt(g, duration), {})
  BY <1>1, <1>2 DEF BestSlots
<1>6. slot.start <= g
  BY <1>5 DEF NotWorse, MatchesPreferredDaypart, SlotAt
<1>. QED BY <1>1, <1>4, <1>6

\* What fits beside more also fits beside less.
LEMMA FitsBesideLess ==
  ASSUME NEW windows, NEW busy, NEW less \in SUBSET busy, NEW duration, NEW earliest, NEW latest,
         NEW s, FitsAt(s, windows, busy, duration, earliest, latest)
  PROVE  FitsAt(s, windows, less, duration, earliest, latest)
BY DEF FitsAt, FreeIn

-----------------------------------------------------------------------------
\* The facts of the promise, step by step.  Of each task that has been handled: it is
\* left out, or it has blocks for its whole length, ...
Whole(t, own, left) ==
  /\ left <=> own = {}
  /\ own # {} => /\ Valid(t) /\ Timed(own) /\ Total(own) = t.remaining
                 /\ ~t.splittable => Cardinality(own) = 1

\* ... with no room for it when it was left out, ...
NoRoom(length, windows, busy, earliest, latest) ==
  \A s \in Int : ~FitsAt(s, windows, busy, length, earliest, latest)

\* ... and with each block as early as possible.
NoEarlier(b, windows, busy, earliest, latest) ==
  \A s \in Int : FitsAt(s, windows, busy, Length(b), earliest, latest) => b.start <= s

Earliests == [i \in Tasks |-> EarliestOf(batch[i])]
Latests == [i \in Tasks |-> LatestOf(batch[i])]
Own == [i \in Tasks |-> {b \in blocks \ LockedBlocks : b.task = batch[i].id}]
LeftTasks == {i \in Tasks : LeftOut(batch[i].id)}
Taken == EventBusy \cup Spans(blocks)
TakenSoFar == EventBusy \cup Spans(blocks \cup pieces)

BookedWhole ==
  \A k \in 1..next - 1 : Whole(batch[ordered[k]], Own[ordered[k]], ordered[k] \in LeftTasks)

NoneAhead == \A i \in LeftTasks : \E k \in 1..next - 1 : ordered[k] = i

UnderWay ==
  remaining # None =>
    /\ Valid(Current) /\ Timed(pieces)
    /\ Total(pieces) + remaining = Current.remaining
    /\ pieces # {} /\ ~Current.splittable => remaining = 0 /\ Cardinality(pieces) = 1

Solid ==
  /\ \A b \in NewBlocks : b.start < b.end
  /\ \A b \in pieces : ~b.locked

LeftForRoom ==
  \A i \in LeftTasks :
    Valid(batch[i]) /\ ~batch[i].splittable =>
      NoRoom(batch[i].remaining, request.windows, Taken, Earliests[i], Latests[i])

AsEarly ==
  /\ \A i \in Tasks : batch[i].dayparts = {} =>
       \A b \in Own[i] : NoEarlier(b, request.windows, Taken, Earliests[i], Latests[i])
  /\ \A b \in pieces : Current.dayparts = {} =>
       NoEarlier(b, request.windows, TakenSoFar, Earliests[ordered[next]], Latests[ordered[next]])

Ended == Done => OrderDone /\ next > Len(ordered)

PInv ==
  /\ IInv /\ BookedWhole /\ NoneAhead /\ UnderWay /\ Solid /\ LeftForRoom /\ AsEarly /\ Ended

-----------------------------------------------------------------------------
\* What a step leaves alone with the input.
LEMMA BoundsFixed ==
  ASSUME request' = request, batch' = batch
  PROVE  /\ Tasks' = Tasks /\ LockedBlocks' = LockedBlocks /\ EventBusy' = EventBusy
         /\ Earliests' = Earliests /\ Latests' = Latests
BY InputFixed DEF Earliests, Latests, EarliestOf, LatestOf, Tasks

LEMMA BoundsTypes ==
  ASSUME IInv, NEW i \in Tasks
  PROVE  /\ Earliests[i] \in Int /\ Latests[i] \in Int
         /\ Earliests[i] = EarliestOf(batch[i]) /\ Latests[i] = LatestOf(batch[i])
         /\ batch[i] \in Task
<1>1. batch[i] \in Task
  BY RequestTypes DEF IInv, Tasks
<1>2. /\ batch[i].earliest \in OptionalTime /\ batch[i].deadline \in OptionalTime
      /\ request.range.start \in Int /\ request.range.end \in Int
  BY <1>1, RequestTypes DEF IInv, Task, Interval
<1>3. EarliestOf(batch[i]) \in Int /\ LatestOf(batch[i]) \in Int
  BY <1>2 DEF EarliestOf, LatestOf, OptionalTime, Later, Earlier
<1>. QED BY <1>1, <1>3 DEF Earliests, Latests

\* Busy time is made of intervals, also when some of the blocks are left out.
LEMMA BusyTypes ==
  ASSUME IInv
  PROVE  /\ request.windows \in SUBSET Interval
         /\ Taken \in SUBSET Interval /\ TakenSoFar \in SUBSET Interval
         /\ BusyFor(Current) \subseteq TakenSoFar
<1>1. blocks \in SUBSET Block /\ pieces \in SUBSET Block
  BY DEF IInv, TypeOK
<1>2. blocks \cup pieces \in SUBSET Block
  BY <1>1
<1>3. Spans(blocks) \in SUBSET Interval /\ Spans(blocks \cup pieces) \in SUBSET Interval
  BY <1>1, <1>2, SpansAreIntervals
<1>4. EventBusy \in SUBSET Interval
  BY EventBusyIntervals DEF IInv
<1>5. BusyFor(Current) \subseteq TakenSoFar
  BY DEF IInv, BusyFor, TakenSoFar, Spans
<1>6. request.windows \in SUBSET Interval
  BY RequestTypes DEF IInv
<1>. QED BY <1>3, <1>4, <1>5, <1>6 DEF Taken, TakenSoFar

\* The tasks before next, and the one at it.
LEMMA Positions ==
  ASSUME IInv
  PROVE  /\ next \in Nat \ {0} /\ next - 1 \in Nat
         /\ \A k \in 1..next - 1 : k \in 1..Len(ordered) /\ ordered[k] \in Tasks
         /\ next <= Len(ordered) => \A k \in 1..next - 1 : ordered[k] # ordered[next]
<1>1. next \in 1..Len(ordered) + 1 /\ ordered \in Seq(Tasks) /\ Len(ordered) \in Nat
  BY DEF IInv, TypeOK, OrderTypeOK
<1>2. \A k \in 1..next - 1 : k \in 1..Len(ordered) /\ ordered[k] \in Tasks
  BY <1>1
<1>3. ASSUME next <= Len(ordered), NEW k \in 1..next - 1 PROVE ordered[k] # ordered[next]
  BY <1>1, <1>3 DEF IInv, OrderInv
<1>. QED BY <1>1, <1>2, <1>3

LEMMA CurrentIsNew ==
  ASSUME PInv, next <= Len(ordered)
  PROVE  /\ ordered[next] \in Tasks /\ Current = batch[ordered[next]]
         /\ ordered[next] \notin LeftTasks /\ Own[ordered[next]] = {}
<1>1. ordered[next] \in Tasks /\ Current = batch[ordered[next]]
  BY CurrentTypes DEF PInv, Current
<1>2. ordered[next] \notin LeftTasks
  BY Positions DEF PInv, NoneAhead
<1>3. Own[ordered[next]] = {}
  <2>. SUFFICES ASSUME NEW b \in blocks \ LockedBlocks, b.task = Current.id PROVE FALSE
    BY <1>1 DEF Own
  <2>1. PICK k \in 1..next - 1 : b.task = batch[ordered[k]].id
    BY DEF PInv, IInv, Owners
  <2>2. ordered[k] \in Tasks /\ ordered[k] # ordered[next]
    BY Positions DEF PInv
  <2>. QED BY <1>1, <2>1, <2>2, RequestTypes DEF PInv, IInv
<1>. QED BY <1>1, <1>2, <1>3

\* A task that has been added to those left out.
LEMMA LeftAdds ==
  ASSUME IInv, NEW i \in Tasks, batch' = batch, NEW reason,
         unscheduled' = unscheduled \cup {[task |-> batch[i].id, reason |-> reason]}
  PROVE  LeftTasks' = LeftTasks \cup {i}
<1>1. \A j \in Tasks : batch[j].id = batch[i].id => j = i
  BY RequestTypes DEF IInv
<1>2. Tasks' = Tasks
  BY DEF Tasks
<1>3. ASSUME NEW j \in Tasks PROVE LeftOut(batch[j].id)' <=> LeftOut(batch[j].id) \/ j = i
  <2>. DEFINE new == [task |-> batch[i].id, reason |-> reason]
  <2>1. unscheduled' = unscheduled \cup {new} /\ new.task = batch[i].id
    OBVIOUS
  <2>. HIDE DEF new
  <2>2. (\E u \in unscheduled' : u.task = batch[j].id) <=>
          (\E u \in unscheduled : u.task = batch[j].id) \/ batch[i].id = batch[j].id
    BY <2>1
  <2>. QED BY <1>1, <2>2 DEF LeftOut
<1>. QED BY <1>2, <1>3 DEF LeftTasks

-----------------------------------------------------------------------------
LEMMA PromiseInit == Init => PInv
<1>. SUFFICES ASSUME Init PROVE PInv
  OBVIOUS
<1>1. IInv
  BY InitHolds
<1>2. /\ unscheduled = {} /\ pieces = {} /\ blocks = LockedBlocks /\ next = 1
      /\ remaining = None /\ status = "PLANNING"
  BY DEF Init
<1>3. LeftTasks = {} /\ NewBlocks = {} /\ \A i \in Tasks : Own[i] = {}
  BY <1>2 DEF LeftTasks, LeftOut, NewBlocks, Own
<1>. QED BY <1>1, <1>2, <1>3 DEF PInv, BookedWhole, NoneAhead, UnderWay, Solid, LeftForRoom,
         AsEarly, Ended, Done

LEMMA OrderingKeepsPromise == PInv /\ Ordering => PInv'
<1>. SUFFICES ASSUME PInv, Ordering PROVE PInv'
  OBVIOUS
<1>1. IInv' /\ UNCHANGED <<request, placeVars>>
  BY OrderingHolds DEF PInv, Ordering
<1>2. ~OrderDone
  <2>1. root \in Nat /\ Len(batch) \in Nat
    BY DependenciesAreSequences DEF PInv, IInv, OrderInv, OrderTypeOK
  <2> QED
    BY <2>1 DEF Ordering, OrderNext, VisitRoot, VisitDependency, Leave, OrderDone
<1>3. next = 1 /\ remaining = None /\ pieces = {} /\ ~Done
  BY <1>2 DEF PInv, IInv, InProgress, TypeOK, Ended
<1>4. LeftTasks = {} /\ NewBlocks = {} /\ blocks = LockedBlocks
  <2>1. LeftTasks = {}
    BY <1>3 DEF PInv, NoneAhead
  <2>2. blocks = LockedBlocks
    BY <1>3 DEF PInv, IInv, Owners
  <2>. QED BY <1>3, <2>1, <2>2 DEF NewBlocks
<1>5. batch' = batch /\ LockedBlocks' = LockedBlocks /\ Tasks' = Tasks
  BY <1>1, InputFixed DEF Ordering, OrderNext, VisitRoot, VisitDependency, Leave
<1>6. LeftTasks' = {} /\ NewBlocks' = {} /\ \A i \in Tasks' : Own'[i] = {}
  <2>1. LeftTasks' = LeftTasks
    BY <1>1, <1>5 DEF placeVars, LeftTasks, LeftOut
  <2>2. NewBlocks' = {} /\ blocks' \ LockedBlocks' = {}
    BY <1>1, <1>3, <1>4, <1>5 DEF placeVars, NewBlocks
  <2>. QED BY <1>4, <2>1, <2>2 DEF Own
<1>. QED BY <1>1, <1>3, <1>6 DEF PInv, BookedWhole, NoneAhead, UnderWay, Solid, LeftForRoom,
         AsEarly, Ended, Done, placeVars

\* A task that is given up, for whichever reason, has no blocks, and its pieces are forgotten.
LEMMA LeavingOutKeepsPromise ==
  ASSUME PInv, IInv', OrderDone, next <= Len(ordered), NEW reason,
         unscheduled' = unscheduled \cup {[task |-> Current.id, reason |-> reason]},
         next' = next + 1, remaining' = None, pieces' = {},
         UNCHANGED <<orderVars, request, blocks, status>>,
         Valid(Current) /\ ~Current.splittable =>
           NoRoom(Current.remaining, request.windows, Taken, EarliestOf(Current), LatestOf(Current))
  PROVE  PInv'
<1>. DEFINE i == ordered[next]
<1>1. i \in Tasks /\ Current = batch[i] /\ i \notin LeftTasks /\ Own[i] = {}
  BY CurrentIsNew
<1>. HIDE DEF i
<1>2. batch' = batch /\ ordered' = ordered /\ request' = request /\ blocks' = blocks
  BY DEF orderVars
<1>3. LeftTasks' = LeftTasks \cup {i}
  BY <1>1, <1>2, LeftAdds DEF PInv
<1>4. /\ Tasks' = Tasks /\ LockedBlocks' = LockedBlocks /\ EventBusy' = EventBusy
      /\ Earliests' = Earliests /\ Latests' = Latests
  BY <1>2, BoundsFixed
<1>5. Own' = Own /\ Taken' = Taken
  BY <1>2, <1>4 DEF Own, Taken
<1>6. next \in Nat \ {0} /\ next' - 1 = next
  BY Positions DEF PInv
<1>7. BookedWhole'
  <2>. SUFFICES ASSUME NEW k \in 1..next
       PROVE  Whole(batch[ordered[k]], Own[ordered[k]], ordered[k] \in LeftTasks')
    BY <1>2, <1>5, <1>6 DEF BookedWhole
  <2>1. CASE k = next
    BY <2>1, <1>1, <1>3 DEF i, Whole
  <2>2. CASE k # next
    <3>1. k \in 1..next - 1 /\ ordered[k] # i
      BY <2>2, <1>6, Positions DEF PInv, i
    <3>2. Whole(batch[ordered[k]], Own[ordered[k]], ordered[k] \in LeftTasks)
      BY <3>1 DEF PInv, BookedWhole
    <3>3. (ordered[k] \in LeftTasks') = (ordered[k] \in LeftTasks)
      BY <1>3, <3>1
    <3>. QED BY <3>2, <3>3
  <2>. QED BY <2>1, <2>2
<1>8. NoneAhead'
  <2>. SUFFICES ASSUME NEW j \in LeftTasks \cup {i} PROVE \E k \in 1..next : ordered[k] = j
    BY <1>2, <1>3, <1>6 DEF NoneAhead
  <2>1. 1..next - 1 \subseteq 1..next /\ next \in 1..next
    BY <1>6
  <2>. QED BY <2>1 DEF PInv, NoneAhead, i
<1>9. UnderWay'
  BY DEF UnderWay
<1>10. Solid'
  <2>1. NewBlocks' \subseteq NewBlocks
    BY <1>2, <1>4 DEF NewBlocks
  <2>. QED BY <2>1 DEF PInv, Solid
<1>11. LeftForRoom'
  <2>. SUFFICES ASSUME NEW j \in LeftTasks \cup {i}, Valid(batch[j]), ~batch[j].splittable
       PROVE  NoRoom(batch[j].remaining, request.windows, Taken, Earliests[j], Latests[j])
    BY <1>2, <1>3, <1>4, <1>5 DEF LeftForRoom
  <2>1. CASE j = i
    <3>1. Earliests[i] = EarliestOf(Current) /\ Latests[i] = LatestOf(Current)
      BY <1>1, BoundsTypes DEF PInv
    <3>. QED BY <2>1, <3>1, <1>1
  <2>2. CASE j \in LeftTasks
    BY <2>2 DEF PInv, LeftForRoom
  <2>. QED BY <2>1, <2>2
<1>12. AsEarly'
  BY <1>2, <1>4, <1>5 DEF PInv, AsEarly
<1>13. Ended'
  BY <1>6 DEF PInv, Ended, Done
<1>. QED BY <1>7, <1>8, <1>9, <1>10, <1>11, <1>12, <1>13 DEF PInv

LEMMA RejectTaskKeepsPromise == PInv /\ RejectTask => PInv'
<1>. SUFFICES ASSUME PInv, RejectTask PROVE PInv'
  OBVIOUS
<1>1. /\ OrderDone /\ next <= Len(ordered) /\ remaining = None /\ ~Valid(Current)
      /\ next' = next + 1 /\ UNCHANGED <<orderVars, request, remaining, pieces, blocks, status>>
      /\ unscheduled' = unscheduled \cup
           {[task |-> Current.id, reason |-> InvalidReason(Current)]}
  BY DEF RejectTask, Between
<1>2. pieces' = {} /\ remaining' = None
  BY <1>1 DEF PInv, IInv, TypeOK
<1>3. IInv'
  BY RejectTaskHolds DEF PInv
<1>. HIDE DEF PInv
<1>. QED BY <1>1, <1>2, <1>3, LeavingOutKeepsPromise

LEMMA StartTaskKeepsPromise == PInv /\ StartTask => PInv'
<1>. SUFFICES ASSUME PInv, StartTask PROVE PInv'
  OBVIOUS
<1>1. /\ OrderDone /\ next <= Len(ordered) /\ remaining = None /\ Valid(Current)
      /\ remaining' = Current.remaining
      /\ UNCHANGED <<orderVars, request, next, pieces, blocks, unscheduled, status>>
      /\ batch' = batch /\ ordered' = ordered
  BY DEF StartTask, Between, orderVars
<1>2. IInv' /\ pieces = {}
  BY <1>1, StartTaskHolds DEF PInv, IInv, TypeOK
<1>3. /\ Tasks' = Tasks /\ LockedBlocks' = LockedBlocks /\ EventBusy' = EventBusy
      /\ Earliests' = Earliests /\ Latests' = Latests
  BY <1>1, BoundsFixed
<1>4. /\ Own' = Own /\ Taken' = Taken /\ NewBlocks' = NewBlocks /\ LeftTasks' = LeftTasks
      /\ Current' = Current
  BY <1>1, <1>3 DEF Own, Taken, NewBlocks, LeftTasks, LeftOut, Current
<1>5. UnderWay'
  <2>1. Current.remaining \in Nat
    BY <1>1, CurrentTypes DEF PInv, Task
  <2>2. Total({}) = 0 /\ Timed({})
    BY NoBlocksTotal
  <2>. QED BY <1>1, <1>2, <1>4, <2>1, <2>2 DEF UnderWay
<1>6. BookedWhole' /\ NoneAhead'
  BY <1>1, <1>4 DEF PInv, BookedWhole, NoneAhead
<1>7. Solid' /\ LeftForRoom'
  BY <1>1, <1>3, <1>4 DEF PInv, Solid, LeftForRoom
<1>8. AsEarly'
  BY <1>1, <1>2, <1>3, <1>4 DEF PInv, AsEarly
<1>9. Ended'
  BY <1>1 DEF PInv, Ended, Done, OrderDone, orderVars
<1>. QED BY <1>2, <1>5, <1>6, <1>7, <1>8, <1>9 DEF PInv

-----------------------------------------------------------------------------
\* More busy time leaves less room.
LEMMA NoRoomStays ==
  ASSUME NEW length, NEW windows, NEW busy, NEW more, busy \subseteq more, NEW earliest, NEW latest,
         NoRoom(length, windows, busy, earliest, latest)
  PROVE  NoRoom(length, windows, more, earliest, latest)
BY FitsBesideLess DEF NoRoom

LEMMA NoEarlierStays ==
  ASSUME NEW b, NEW windows, NEW busy, NEW more, busy \subseteq more, NEW earliest, NEW latest,
         NoEarlier(b, windows, busy, earliest, latest)
  PROVE  NoEarlier(b, windows, more, earliest, latest)
BY FitsBesideLess DEF NoEarlier

LEMMA ValidHasLength ==
  ASSUME NEW t \in Task, Valid(t)
  PROVE  t.remaining \in Nat \ {0}
<1>1. 6 \notin FailedChecks(t)
  BY DEF Valid
<1>2. ~Checks(t)[6][1]
  BY <1>1 DEF FailedChecks
<1>3. ~(t.remaining <= 0)
  BY <1>2 DEF Checks
<1>. QED BY <1>3 DEF Task

\* A piece has a length; the piece of a task that may not be split is the whole of it.
LEMMA PieceLengthPositive ==
  ASSUME NEW t \in Task, t.remaining \in Nat \ {0}, NEW left \in Nat \ {0}
  PROVE  /\ PieceLength(t, left) \in 1..left
         /\ ~t.splittable => PieceLength(t, left) = left
<1>. DEFINE minimum == Default(t.min, Earlier(DefaultMinimum, t.remaining))
            maximum == Default(t.max, t.remaining)
            duration == Earlier(Earlier(maximum, Default(t.pref, maximum)), left)
<1>1. minimum \in Nat \ {0}
  <2>1. t.min \in OptionalLength
    BY DEF Task
  <2>. QED BY <2>1, RequestAssumption DEF Default, Earlier, OptionalLength
<1>. HIDE DEF minimum, duration
<1>2. PieceLength(t, left) = IF ~t.splittable \/ left <= minimum THEN left
                             ELSE Later(duration, minimum)
  BY DEF PieceLength, minimum, duration
<1>3. PieceLength(t, left) \in 0..left
  BY PieceLengthBound
<1>4. PieceLength(t, left) # 0
  <2>1. CASE ~t.splittable \/ left <= minimum
    BY <1>2, <2>1
  <2>2. CASE ~(~t.splittable \/ left <= minimum)
    <3>1. PieceLength(t, left) = Later(duration, minimum)
      BY <1>2, <2>2
    <3>2. PieceLength(t, left) = minimum \/ (duration > minimum /\ PieceLength(t, left) = duration)
      BY <3>1 DEF Later
    <3>3. CASE PieceLength(t, left) = minimum
      BY <3>3, <1>1
    <3>4. CASE duration > minimum /\ PieceLength(t, left) = duration
      <4>1. PieceLength(t, left) \in Nat
        BY <1>3
      <4>. QED BY <3>4, <4>1, <1>1
    <3>. QED BY <3>2, <3>3, <3>4
  <2>. QED BY <2>1, <2>2
<1>. QED BY <1>2, <1>3, <1>4

\* The state of the task that is being placed.
LEMMA PlacingFacts ==
  ASSUME PInv, Placing
  PROVE  /\ next <= Len(ordered) /\ remaining \in Nat /\ Current \in Task
         /\ Valid(Current) /\ Current.remaining \in Nat \ {0}
         /\ Timed(pieces) /\ Total(pieces) \in Nat
         /\ Total(pieces) + remaining = Current.remaining
         /\ pieces # {} /\ ~Current.splittable => remaining = 0 /\ Cardinality(pieces) = 1
<1>1. next <= Len(ordered) /\ remaining \in Nat /\ remaining # None
  BY DEF Placing, PInv, IInv, TypeOK
<1>2. Current \in Task
  BY <1>1, CurrentTypes DEF PInv
<1>. QED BY <1>1, <1>2, ValidHasLength, TotalIsUnits DEF PInv, UnderWay

LEMMA PieceFacts ==
  ASSUME PInv, Placing, remaining > 0
  PROVE  /\ PieceLength(Current, remaining) \in 1..remaining
         /\ ~Current.splittable => PieceLength(Current, remaining) = remaining /\ pieces = {}
BY PlacingFacts, PieceLengthPositive

\* The slot of the next piece is the earliest there is, and when there is none, then no
\* slot of that length fits.
LEMMA SlotFacts ==
  ASSUME PInv, Placing, remaining > 0, NEW slot \in SlotsFor(Current)
  PROVE  /\ slot.start \in Int /\ slot.end = slot.start + PieceLength(Current, remaining)
         /\ Current.dayparts = {} => \A s \in Int :
              FitsAt(s, request.windows, BusyFor(Current), PieceLength(Current, remaining),
                     EarliestOf(Current), LatestOf(Current)) => slot.start <= s
<1>. DEFINE length == PieceLength(Current, remaining)
            busy == BusyFor(Current)
            early == EarliestOf(Current)
            late == LatestOf(Current)
            parts == Current.dayparts
            windows == request.windows
<1>1. /\ length \in Nat /\ busy \in SUBSET Interval /\ early \in Int /\ late \in Int
      /\ parts \in SUBSET Daypart /\ windows \in SUBSET Interval
  <2>1. length \in Nat
    BY PieceFacts, PlacingFacts
  <2>2. busy \in SUBSET Interval /\ windows \in SUBSET Interval
    BY BusyTypes DEF PInv
  <2>3. early \in Int /\ late \in Int /\ parts \in SUBSET Daypart
    BY PlacingFacts, CurrentTypes DEF PInv, Task
  <2>. QED BY <2>1, <2>2, <2>3
<1>2. slot \in FindSlots(windows, busy, length, early, late, parts)
  BY DEF SlotsFor
<1>. HIDE DEF length, busy, early, late, parts, windows
<1>3. slot.start \in Int /\ slot = SlotAt(slot.start, length)
  BY <1>1, <1>2, FoundFits
<1>4. slot.end = slot.start + length
  BY <1>3 DEF SlotAt
<1>5. parts = {} =>
        \A s \in Int : FitsAt(s, windows, busy, length, early, late) => slot.start <= s
  BY <1>1, <1>2, FoundIsEarliest
<1>. QED BY <1>3, <1>4, <1>5 DEF length, busy, early, late, parts, windows

LEMMA NoSlotFits ==
  ASSUME PInv, Placing, remaining > 0, SlotsFor(Current) = {}
  PROVE  NoRoom(PieceLength(Current, remaining), request.windows, BusyFor(Current),
                EarliestOf(Current), LatestOf(Current))
<1>. DEFINE length == PieceLength(Current, remaining)
            busy == BusyFor(Current)
            early == EarliestOf(Current)
            late == LatestOf(Current)
            parts == Current.dayparts
            windows == request.windows
<1>1. /\ length \in Nat \ {0} /\ busy \in SUBSET Interval /\ early \in Int /\ late \in Int
      /\ parts \in SUBSET Daypart /\ windows \in SUBSET Interval
  <2>1. length \in Nat \ {0}
    BY PieceFacts, PlacingFacts
  <2>2. busy \in SUBSET Interval /\ windows \in SUBSET Interval
    BY BusyTypes DEF PInv
  <2>3. early \in Int /\ late \in Int /\ parts \in SUBSET Daypart
    BY PlacingFacts, CurrentTypes DEF PInv, Task
  <2>. QED BY <2>1, <2>2, <2>3
<1>2. early >= late \/ FindSlots(windows, busy, length, early, late, parts) = {}
  BY DEF SlotsFor
<1>. HIDE DEF length, busy, early, late, parts, windows
<1>3. SUFFICES ASSUME NEW s \in Int, FitsAt(s, windows, busy, length, early, late) PROVE FALSE
  BY DEF NoRoom, length, busy, early, late, parts, windows
<1>4. CASE early >= late
  <2>1. PICK w \in windows : FreeIn(SlotAt(s, length), Clip(w, early, late), busy)
    BY <1>3 DEF FitsAt
  <2>2. w.start \in Int /\ w.end \in Int
    BY <1>1 DEF Interval
  <2>3. Later(w.start, early) <= s /\ s + length <= Earlier(w.end, late)
    BY <2>1 DEF FreeIn, Within, SlotAt, Clip
  <2>4. early <= s /\ s + length <= late
    BY <2>2, <2>3, <1>1 DEF Later, Earlier
  <2>. QED BY <2>4, <1>1, <1>4
<1>5. CASE FindSlots(windows, busy, length, early, late, parts) = {}
  BY <1>1, <1>3, <1>5, FindsWhatFits
<1>. QED BY <1>2, <1>4, <1>5

LEMMA FailTaskKeepsPromise == PInv /\ FailTask => PInv'
<1>. SUFFICES ASSUME PInv, FailTask PROVE PInv'
  OBVIOUS
<1>. DEFINE reason == FailureReason(Current, AllBusy)
<1>1. /\ OrderDone /\ next <= Len(ordered) /\ Placing /\ remaining > 0 /\ SlotsFor(Current) = {}
      /\ next' = next + 1 /\ UNCHANGED <<orderVars, request, blocks, status>>
      /\ pieces' = {} /\ remaining' = None
      /\ unscheduled' = unscheduled \cup {[task |-> Current.id, reason |-> reason]}
  BY DEF FailTask, Placing
<1>2. IInv'
  BY FailTaskHolds DEF PInv
<1>. HIDE DEF reason
<1>3. ASSUME ~Current.splittable
      PROVE  NoRoom(Current.remaining, request.windows, Taken, EarliestOf(Current), LatestOf(Current))
  <2>1. pieces = {} /\ PieceLength(Current, remaining) = remaining
    BY <1>1, <1>3, PieceFacts
  <2>2. remaining = Current.remaining
    BY <1>1, <2>1, PlacingFacts, NoBlocksTotal
  <2>3. BusyFor(Current) \subseteq Taken
    BY <2>1, BusyTypes DEF PInv, Taken, TakenSoFar
  <2>4. NoRoom(PieceLength(Current, remaining), request.windows, BusyFor(Current),
               EarliestOf(Current), LatestOf(Current))
    BY <1>1, NoSlotFits
  <2>. QED BY <2>1, <2>2, <2>3, <2>4, NoRoomStays
<1>. HIDE DEF PInv
<1>. QED BY <1>1, <1>2, <1>3, LeavingOutKeepsPromise

LEMMA PlacePieceKeepsPromise == PInv /\ PlacePiece => PInv'
<1>. SUFFICES ASSUME PInv, PlacePiece PROVE PInv'
  OBVIOUS
<1>1. /\ Placing /\ OrderDone /\ remaining > 0
      /\ remaining' = remaining - PieceLength(Current, remaining)
      /\ UNCHANGED <<orderVars, request, next, blocks, unscheduled, status>>
      /\ batch' = batch /\ ordered' = ordered
  BY DEF PlacePiece, Placing, orderVars
<1>2. PICK slot \in SlotsFor(Current) : pieces' = pieces \cup {TimeBlock(Current, slot)}
  BY DEF PlacePiece
<1>. DEFINE new == TimeBlock(Current, slot)
            length == PieceLength(Current, remaining)
<1>3. /\ IInv' /\ next <= Len(ordered) /\ remaining \in Nat /\ length \in 1..remaining
      /\ ~Current.splittable => length = remaining /\ pieces = {}
      /\ Timed(pieces) /\ Total(pieces) \in Nat
      /\ Total(pieces) + remaining = Current.remaining /\ Valid(Current)
  BY <1>1, PlacePieceHolds, PieceFacts, PlacingFacts DEF PInv
<1>4. /\ slot.start \in Int /\ slot.end = slot.start + length
      /\ Current.dayparts = {} => \A s \in Int :
           FitsAt(s, request.windows, BusyFor(Current), length,
                  EarliestOf(Current), LatestOf(Current)) => slot.start <= s
  BY <1>1, SlotFacts
<1>5. /\ new.start = slot.start /\ new.end = slot.end /\ ~new.locked
      /\ new.id[2] = Cardinality(pieces) + 1
  BY DEF TimeBlock
<1>6. new \notin pieces
  <2>1. Cardinality(pieces) \in Nat
    BY FS_CardinalityType DEF PInv, IInv
  <2>. QED BY <1>5, <2>1 DEF PInv, IInv, Owners
<1>7. /\ Tasks' = Tasks /\ LockedBlocks' = LockedBlocks /\ EventBusy' = EventBusy
      /\ Earliests' = Earliests /\ Latests' = Latests
  BY <1>1, BoundsFixed
<1>8. /\ Own' = Own /\ Taken' = Taken /\ LeftTasks' = LeftTasks /\ Current' = Current
      /\ pieces' = pieces \cup {new} /\ NewBlocks' = NewBlocks \cup {new}
      /\ TakenSoFar \subseteq TakenSoFar'
  BY <1>1, <1>2, <1>7 DEF Own, Taken, TakenSoFar, Spans, NewBlocks, LeftTasks, LeftOut, Current
<1>. HIDE DEF new
<1>9. Length(new) = length /\ new.start < new.end
  <2>1. length \in Nat \ {0}
    BY <1>3
  <2>. HIDE DEF length
  <2>. QED BY <1>4, <1>5, <2>1 DEF Length
<1>10. UnderWay'
  <2>1. /\ Timed(pieces \cup {new}) /\ Total(pieces \cup {new}) = Total(pieces) + length
    BY <1>3, <1>6, <1>9, TotalOfMore
  <2>2. Total(pieces') + remaining' = Current.remaining
    <3>. DEFINE total == Total(pieces)
                whole == Current.remaining
    <3>1. /\ total \in Nat /\ length \in Int /\ remaining \in Nat /\ total + remaining = whole
          /\ Total(pieces') = total + length /\ remaining' = remaining - length
      BY <1>1, <1>3, <1>8, <2>1
    <3>. HIDE DEF total, whole, length
    <3>2. Total(pieces') + remaining' = whole
      BY <3>1
    <3>. QED BY <3>2 DEF whole
  <2>3. ~Current.splittable => remaining' = 0 /\ Cardinality(pieces') = 1
    <3>. SUFFICES ASSUME ~Current.splittable PROVE remaining' = 0 /\ Cardinality(pieces') = 1
      OBVIOUS
    <3>1. length = remaining /\ pieces' = {new} /\ remaining \in Nat /\ remaining' = remaining - length
      BY <1>1, <1>3, <1>8
    <3>. HIDE DEF length
    <3>2. remaining' = 0
      BY <3>1
    <3>. QED BY <3>1, <3>2, FS_Singleton
  <2>. QED BY <1>3, <1>8, <2>1, <2>2, <2>3 DEF UnderWay
<1>11. BookedWhole' /\ NoneAhead'
  BY <1>1, <1>8 DEF PInv, BookedWhole, NoneAhead
<1>12. Solid' /\ LeftForRoom'
  BY <1>1, <1>5, <1>7, <1>8, <1>9 DEF PInv, Solid, LeftForRoom
<1>13. AsEarly'
  <2>1. \A i \in Tasks : batch[i].dayparts = {} =>
          \A b \in Own[i] : NoEarlier(b, request.windows, Taken, Earliests[i], Latests[i])
    BY DEF PInv, AsEarly
  <2>2. ASSUME NEW b \in pieces', Current.dayparts = {}
        PROVE  NoEarlier(b, request.windows, TakenSoFar', Earliests[ordered[next]], Latests[ordered[next]])
    <3>1. CASE b \in pieces
      <4>1. NoEarlier(b, request.windows, TakenSoFar, Earliests[ordered[next]], Latests[ordered[next]])
        BY <3>1, <2>2 DEF PInv, AsEarly
      <4>. QED BY <4>1, <1>8, NoEarlierStays
    <3>2. CASE b = new
      <4>1. /\ Earliests[ordered[next]] = EarliestOf(Current)
            /\ Latests[ordered[next]] = LatestOf(Current)
        BY <1>3, CurrentIsNew, BoundsTypes DEF PInv
      <4>2. NoEarlier(new, request.windows, BusyFor(Current), EarliestOf(Current), LatestOf(Current))
        BY <1>4, <1>5, <1>9, <2>2 DEF NoEarlier
      <4>3. BusyFor(Current) \subseteq TakenSoFar'
        BY <1>8, BusyTypes DEF PInv
      <4>. QED BY <3>2, <4>1, <4>2, <4>3, NoEarlierStays
    <3>. QED BY <1>8, <3>1, <3>2
  <2>. QED BY <2>1, <2>2, <1>1, <1>7, <1>8 DEF AsEarly
<1>14. Ended'
  BY <1>1 DEF PInv, Ended, Done, OrderDone, orderVars
<1>. QED BY <1>3, <1>10, <1>11, <1>12, <1>13, <1>14 DEF PInv

LEMMA CommitTaskKeepsPromise == PInv /\ CommitTask => PInv'
<1>. SUFFICES ASSUME PInv, CommitTask PROVE PInv'
  OBVIOUS
<1>. DEFINE i == ordered[next]
<1>1. /\ Placing /\ OrderDone /\ remaining = 0
      /\ blocks' = blocks \cup pieces /\ pieces' = {} /\ remaining' = None /\ next' = next + 1
      /\ UNCHANGED <<orderVars, request, unscheduled, status>>
      /\ batch' = batch /\ ordered' = ordered
  BY DEF CommitTask, Placing, orderVars
<1>2. /\ IInv' /\ next <= Len(ordered) /\ Valid(Current) /\ Current.remaining \in Nat \ {0}
      /\ Timed(pieces) /\ Total(pieces) = Current.remaining
      /\ pieces # {} /\ (~Current.splittable => Cardinality(pieces) = 1)
  <2>1. Total(pieces) = Current.remaining
    BY <1>1, PlacingFacts
  <2>2. pieces # {}
    BY <1>1, <2>1, PlacingFacts, NoBlocksTotal
  <2>. QED BY <1>1, <2>1, <2>2, PlacingFacts, CommitTaskHolds DEF PInv
<1>3. i \in Tasks /\ Current = batch[i] /\ i \notin LeftTasks /\ Own[i] = {}
  BY <1>2, CurrentIsNew
<1>4. /\ Tasks' = Tasks /\ LockedBlocks' = LockedBlocks /\ EventBusy' = EventBusy
      /\ Earliests' = Earliests /\ Latests' = Latests
  BY <1>1, BoundsFixed
<1>5. /\ Taken' = TakenSoFar /\ Taken \subseteq TakenSoFar /\ LeftTasks' = LeftTasks
      /\ NewBlocks' = NewBlocks
  <2>1. pieces \cap LockedBlocks = {}
    BY DEF PInv, Solid, LockedBlocks
  <2>. QED BY <1>1, <1>4, <2>1 DEF Taken, TakenSoFar, Spans, LeftTasks, LeftOut, NewBlocks
<1>6. /\ Own'[i] = pieces
      /\ \A j \in Tasks : j # i => Own'[j] = Own[j]
  <2>1. \A x \in pieces : x.task = batch[i].id /\ x \notin LockedBlocks
    BY <1>3 DEF PInv, Solid, LockedBlocks, IInv, Owners
  <2>2. \A j \in Tasks : batch[j].id = batch[i].id => j = i
    BY <1>3, RequestTypes DEF PInv, IInv
  <2>3. \A x \in blocks \ LockedBlocks : x.task # batch[i].id
    BY <1>3 DEF Own
  <2>. HIDE DEF i
  <2>4. Own' = [j \in Tasks |-> {b \in (blocks \cup pieces) \ LockedBlocks : b.task = batch[j].id}]
    BY <1>1, <1>4 DEF Own
  <2>5. Own'[i] = pieces
    BY <2>1, <2>3, <2>4, <1>3
  <2>6. ASSUME NEW j \in Tasks, j # i PROVE Own'[j] = Own[j]
    BY <2>1, <2>2, <2>4, <2>6 DEF Own
  <2>. QED BY <2>5, <2>6
<1>. HIDE DEF i
<1>7. next \in Nat \ {0} /\ next' - 1 = next
  BY <1>1, Positions DEF PInv
<1>8. BookedWhole'
  <2>. SUFFICES ASSUME NEW k \in 1..next
       PROVE  Whole(batch[ordered[k]], Own'[ordered[k]], ordered[k] \in LeftTasks)
    BY <1>1, <1>5, <1>7 DEF BookedWhole
  <2>1. CASE k = next
    BY <2>1, <1>2, <1>3, <1>6 DEF i, Whole
  <2>2. CASE k # next
    <3>1. k \in 1..next - 1 /\ ordered[k] # i /\ ordered[k] \in Tasks
      BY <2>2, <1>2, <1>7, Positions DEF PInv, i
    <3>2. Whole(batch[ordered[k]], Own[ordered[k]], ordered[k] \in LeftTasks)
      BY <3>1 DEF PInv, BookedWhole
    <3>. QED BY <3>1, <3>2, <1>6
  <2>. QED BY <2>1, <2>2
<1>9. NoneAhead'
  <2>1. 1..next - 1 \subseteq 1..next
    BY <1>7
  <2>. QED BY <1>1, <1>5, <1>7, <2>1 DEF PInv, NoneAhead
<1>10. UnderWay' /\ Solid'
  BY <1>1, <1>5 DEF PInv, UnderWay, Solid
<1>11. LeftForRoom'
  <2>. SUFFICES ASSUME NEW j \in LeftTasks, Valid(batch[j]), ~batch[j].splittable
       PROVE  NoRoom(batch[j].remaining, request.windows, TakenSoFar, Earliests[j], Latests[j])
    BY <1>1, <1>4, <1>5 DEF LeftForRoom
  <2>1. NoRoom(batch[j].remaining, request.windows, Taken, Earliests[j], Latests[j])
    BY DEF PInv, LeftForRoom
  <2>. QED BY <2>1, <1>5, NoRoomStays
<1>12. AsEarly'
  <2>. SUFFICES ASSUME NEW j \in Tasks, batch[j].dayparts = {}, NEW b \in Own'[j]
       PROVE  NoEarlier(b, request.windows, TakenSoFar, Earliests[j], Latests[j])
    BY <1>1, <1>4, <1>5 DEF AsEarly
  <2>1. CASE j = i
    BY <2>1, <1>3, <1>6 DEF PInv, AsEarly, i
  <2>2. CASE j # i
    <3>1. NoEarlier(b, request.windows, Taken, Earliests[j], Latests[j])
      BY <2>2, <1>6 DEF PInv, AsEarly
    <3>. QED BY <3>1, <1>5, NoEarlierStays
  <2>. QED BY <2>1, <2>2
<1>13. Ended'
  <2>1. next \in Nat /\ Len(ordered) \in Nat
    BY <1>7 DEF PInv, IInv, TypeOK, OrderTypeOK
  <2>. QED BY <1>1, <1>2, <2>1 DEF PInv, Ended, Done
<1>. QED BY <1>2, <1>8, <1>9, <1>10, <1>11, <1>12, <1>13 DEF PInv

\* Returning, and not moving, leave the blocks and the tasks left out alone.
LEMMA RestKeepsPromise ==
  ASSUME PInv, IInv',
         UNCHANGED <<orderVars, request, next, remaining, pieces, blocks, unscheduled>>,
         Done' => OrderDone /\ next > Len(ordered)
  PROVE  PInv'
<1>1. batch' = batch /\ ordered' = ordered /\ request' = request
  BY DEF orderVars
<1>2. /\ Tasks' = Tasks /\ LockedBlocks' = LockedBlocks /\ EventBusy' = EventBusy
      /\ Earliests' = Earliests /\ Latests' = Latests
  BY <1>1, BoundsFixed
<1>3. /\ Own' = Own /\ Taken' = Taken /\ TakenSoFar' = TakenSoFar /\ NewBlocks' = NewBlocks
      /\ LeftTasks' = LeftTasks /\ Current' = Current
  BY <1>1, <1>2 DEF Own, Taken, TakenSoFar, NewBlocks, LeftTasks, LeftOut, Current
<1>4. BookedWhole' /\ NoneAhead' /\ UnderWay'
  BY <1>1, <1>3 DEF PInv, BookedWhole, NoneAhead, UnderWay
<1>5. Solid' /\ LeftForRoom'
  BY <1>1, <1>2, <1>3 DEF PInv, Solid, LeftForRoom
<1>6. AsEarly'
  BY <1>1, <1>2, <1>3 DEF PInv, AsEarly
<1>7. Ended'
  BY <1>1 DEF Ended, OrderDone, orderVars
<1>. QED BY <1>4, <1>5, <1>6, <1>7 DEF PInv

LEMMA PromiseInvariance == Spec => []PInv
<1>1. PInv /\ Return => PInv'
  <2>. SUFFICES ASSUME PInv, Return PROVE PInv'
    OBVIOUS
  <2>1. IInv'
    BY BlocksUntouched DEF PInv, Return
  <2>. QED BY <2>1, RestKeepsPromise DEF Return
<1>2. PInv /\ UNCHANGED vars => PInv'
  <2>. SUFFICES ASSUME PInv, UNCHANGED vars PROVE PInv'
    OBVIOUS
  <2>1. IInv'
    BY BlocksUntouched DEF PInv, vars, placeVars, IInv, TypeOK
  <2>2. Done' => OrderDone /\ next > Len(ordered)
    BY DEF PInv, Ended, Done, vars, placeVars
  <2>. QED BY <2>1, <2>2, RestKeepsPromise DEF vars, placeVars
<1>3. PInv /\ [Next]_vars => PInv'
  BY <1>1, <1>2, OrderingKeepsPromise, RejectTaskKeepsPromise, StartTaskKeepsPromise,
     PlacePieceKeepsPromise, CommitTaskKeepsPromise, FailTaskKeepsPromise DEF Next
<1>. QED BY PromiseInit, <1>3, PTL DEF Spec

-----------------------------------------------------------------------------
(* The refinement. *)

\* The operators of the contract mean what they mean here.
LEMMA SameSlots ==
  ASSUME NEW windows, NEW busy, NEW duration, NEW earliest, NEW latest
  PROVE  Abstract!FindSlots(windows, busy, duration, earliest, latest, {}) =
           FindSlots(windows, busy, duration, earliest, latest, {})
BY Zenon DEF FindSlots, BestSlots, CandidatesIn, BuildCandidateSlots, SlotAt, GapStarts, FreeIn,
  NotWorse, MatchesPreferredDaypart, DaypartStart, DaypartEnd, DayOf, Clip, Later, Earlier,
  Within, Overlaps, Abstract!FindSlots, Abstract!BestSlots, Abstract!CandidatesIn,
  Abstract!BuildCandidateSlots, Abstract!SlotAt, Abstract!GapStarts, Abstract!FreeIn,
  Abstract!NotWorse, Abstract!MatchesPreferredDaypart, Abstract!DaypartStart,
  Abstract!DaypartEnd, Abstract!DayOf, Abstract!Clip, Abstract!Later, Abstract!Earlier,
  Abstract!Within, Abstract!Overlaps

LEMMA SameTotal ==
  ASSUME NEW S
  PROVE  /\ Abstract!MapThenSumSet(LAMBDA b : b.end - b.start, S) = Total(S)
         /\ Abstract!Cardinality(S) = Cardinality(S)
<1>1. Abstract!MapThenSumSet(LAMBDA b : b.end - b.start, S) = Total(S)
  BY Zenon DEF Total, MapThenSumSet, MapThenFoldSet, Abstract!MapThenSumSet, Abstract!MapThenFoldSet
<1>2. Abstract!Cardinality(S) = Cardinality(S)
  BY Zenon DEF Cardinality, Abstract!Cardinality
<1>. QED BY <1>1, <1>2

\* What is asked for, task by task.
LEMMA AskedTasks ==
  ASSUME IInv, NEW t \in Asked.tasks
  PROVE  \E i \in Tasks :
           /\ t.id = batch[i].id /\ t.length = batch[i].remaining
           /\ t.splittable = batch[i].splittable /\ t.valid = Valid(batch[i])
           /\ t.earliest = Earliests[i] /\ t.latest = Latests[i]
           /\ t.dayparts = batch[i].dayparts
<1>. DEFINE For(i) == [id |-> batch[i].id, length |-> batch[i].remaining,
               splittable |-> batch[i].splittable, valid |-> Valid(batch[i]),
               earliest |-> EarliestOf(batch[i]), latest |-> LatestOf(batch[i]),
               dayparts |-> batch[i].dayparts]
<1>1. Asked.tasks = {For(i) : i \in Tasks}
  BY DEF Asked
<1>2. PICK i \in Tasks : t = For(i)
  BY <1>1
<1>. QED BY <1>2 DEF Earliests, Latests

\* The tasks of a state in which nothing is left to handle: each has been handled.
LEMMA AllHandled ==
  ASSUME IInv, OrderDone, next > Len(ordered), NEW i \in Tasks
  PROVE  \E k \in 1..next - 1 : ordered[k] = i
<1>1. Len(batch) \in Nat /\ root \in Nat /\ root > Len(batch) /\ Visiting = {}
  BY DependenciesAreSequences DEF IInv, OrderInv, OrderTypeOK, OrderDone, Visiting
<1>2. PICK k \in Tasks : base[k] = i
  BY DEF IInv, OrderInv, Sorted
<1>3. i \in Visited
  BY <1>1, <1>2 DEF IInv, OrderInv, Tasks
<1>4. next - 1 = Len(ordered)
  BY DEF IInv, TypeOK, OrderTypeOK
<1>. QED BY <1>3, <1>4 DEF Visited

\* The plan that is returned meets the contract.
LEMMA ContractIsMet ==
  ASSUME PInv, OrderDone, next > Len(ordered), NEW plan,
         plan = [blocks |-> blocks, left |-> {u.task : u \in unscheduled},
                 status |-> IF unscheduled = {} THEN "PROPOSED" ELSE "FAILED"]
  PROVE  Abstract!Meets(Asked, plan)
<1>1. /\ plan.blocks = blocks /\ plan.left = {u.task : u \in unscheduled}
      /\ plan.status = IF unscheduled = {} THEN "PROPOSED" ELSE "FAILED"
  OBVIOUS
<1>2. /\ Asked.windows = request.windows /\ Asked.busy = EventBusy /\ Asked.kept = LockedBlocks
  BY DEF Asked
<1>3. IInv /\ pieces = {}
  <2>1. remaining = None
    BY DEF PInv, IInv, InProgress, TypeOK, OrderTypeOK
  <2>. QED BY <2>1 DEF PInv, IInv, TypeOK
<1>4. Abstract!NewIn(Asked, plan) = blocks \ LockedBlocks
  BY <1>1, <1>2 DEF Abstract!NewIn
<1>5. ASSUME NEW t, NEW i \in Tasks, t.id = batch[i].id
      PROVE  Abstract!BlocksFor(Asked, plan, t) = Own[i] /\ (t.id \in plan.left <=> i \in LeftTasks)
  BY <1>1, <1>4, <1>5 DEF Abstract!BlocksFor, Own, LeftTasks, LeftOut
<1>6. ASSUME NEW i \in Tasks PROVE Whole(batch[i], Own[i], i \in LeftTasks)
  BY <1>3, AllHandled DEF PInv, BookedWhole
<1>7. ASSUME NEW t, NEW length
      PROVE  Abstract!FreeSlots(Asked, plan, length, t) =
               FindSlots(request.windows, Taken, length, t.earliest, t.latest, {})
  <2>1. Asked.busy \cup {Abstract!SpanOf(b) : b \in plan.blocks} = Taken
    BY <1>1, <1>2 DEF Abstract!SpanOf, Taken, Spans, Span
  <2>. DEFINE busy == Asked.busy \cup {Abstract!SpanOf(b) : b \in plan.blocks}
  <2>2. Abstract!FreeSlots(Asked, plan, length, t) =
          Abstract!FindSlots(Asked.windows, busy, length, t.earliest, t.latest, {})
    BY Zenon DEF Abstract!FreeSlots
  <2>. HIDE DEF busy
  <2>3. Abstract!FreeSlots(Asked, plan, length, t) =
          FindSlots(Asked.windows, busy, length, t.earliest, t.latest, {})
    BY <2>2, SameSlots
  <2>. QED BY <1>2, <2>1, <2>3, Zenon DEF busy
<1>8. Abstract!KeepsLocked(Asked, plan)
  BY <1>1, <1>2, <1>3 DEF Abstract!KeepsLocked, IInv
<1>9. Abstract!EveryBlockAllowed(Asked, plan)
  <2>. SUFFICES ASSUME NEW b \in blocks \ LockedBlocks
       PROVE  /\ \E t \in Asked.tasks : /\ t.id = b.task /\ t.valid
                                        /\ t.earliest <= b.start /\ b.end <= t.latest
              /\ \E window \in request.windows : Within(b, window)
              /\ \A x \in EventBusy : ~Overlaps(b, x)
              /\ \A c \in blocks \ {b} : ~Overlaps(b, c)
    BY <1>1, <1>2, <1>4 DEF Abstract!EveryBlockAllowed, Abstract!Within, Abstract!Overlaps,
                            Within, Overlaps
  <2>1. b \in NewBlocks
    BY DEF NewBlocks
  <2>2. PICK k \in 1..next - 1 : b.task = batch[ordered[k]].id
    BY <1>3 DEF IInv, Owners
  <2>. DEFINE i == ordered[k]
  <2>3. i \in Tasks
    BY <1>3, Positions
  <2>. HIDE DEF i
  <2>4. b \in Own[i] /\ TaskNamed(b.task) = batch[i]
    BY <2>2, <2>3, <1>3, TaskNamedIsUnique DEF Own, i, IInv
  <2>5. Valid(batch[i])
    BY <1>6, <2>3, <2>4 DEF Whole
  <2>6. /\ \E window \in request.windows : Within(b, window)
        /\ Within(b, request.range)
        /\ batch[i].earliest # None => batch[i].earliest <= b.start
        /\ batch[i].deadline # None => b.end <= batch[i].deadline
    BY <1>3, <2>1, <2>4 DEF IInv, WithinLimits
  <2>7. EarliestOf(batch[i]) <= b.start /\ b.end <= LatestOf(batch[i])
    BY <2>6 DEF EarliestOf, LatestOf, Later, Earlier, Within
  <2>8. \E t \in Asked.tasks : /\ t.id = b.task /\ t.valid
                               /\ t.earliest <= b.start /\ b.end <= t.latest
    <3>. DEFINE t == [id |-> batch[i].id, length |-> batch[i].remaining,
               splittable |-> batch[i].splittable, valid |-> Valid(batch[i]),
               earliest |-> EarliestOf(batch[i]), latest |-> LatestOf(batch[i]),
               dayparts |-> batch[i].dayparts]
    <3>1. t \in Asked.tasks
      BY <2>3 DEF Asked
    <3>2. t.id = b.task /\ t.valid /\ t.earliest <= b.start /\ b.end <= t.latest
      BY <2>2, <2>5, <2>7 DEF i
    <3>. HIDE DEF t
    <3>. QED BY <3>1, <3>2
  <2>. QED BY <1>3, <2>1, <2>6, <2>8 DEF IInv, NoDoubleBooking
<1>10. Abstract!WholeOrLeftOut(Asked, plan)
  <2>. SUFFICES ASSUME NEW t \in Asked.tasks, NEW own, own = Abstract!BlocksFor(Asked, plan, t)
       PROVE  /\ t.id \in plan.left <=> own = {}
              /\ own # {} => /\ Abstract!MapThenSumSet(LAMBDA b : b.end - b.start, own) = t.length
                             /\ ~t.splittable => Abstract!Cardinality(own) = 1
    BY Zenon DEF Abstract!WholeOrLeftOut
  <2>1. PICK i \in Tasks : t.id = batch[i].id /\ t.length = batch[i].remaining
                           /\ t.splittable = batch[i].splittable
    BY <1>3, AskedTasks
  <2>2. own = Own[i] /\ (t.id \in plan.left <=> i \in LeftTasks)
    BY <1>5, <2>1
  <2>3. Whole(batch[i], own, i \in LeftTasks)
    BY <1>6, <2>2
  <2>4. /\ Abstract!MapThenSumSet(LAMBDA b : b.end - b.start, own) = Total(own)
        /\ Abstract!Cardinality(own) = Cardinality(own)
    BY SameTotal
  <2>. QED BY <2>1, <2>2, <2>3, <2>4, Zenon DEF Whole
<1>11. ASSUME NEW i \in Tasks, NEW length \in Nat,
              NEW slot \in FindSlots(request.windows, Taken, length, Earliests[i], Latests[i], {})
       PROVE  /\ slot.start \in Int /\ slot.end = slot.start + length
              /\ FitsAt(slot.start, request.windows, Taken, length, Earliests[i], Latests[i])
              /\ \A y \in Taken : ~Overlaps(slot, y)
  <2>1. /\ request.windows \in SUBSET Interval /\ Taken \in SUBSET Interval
        /\ Earliests[i] \in Int /\ Latests[i] \in Int /\ {} \in SUBSET Daypart
    BY <1>3, BusyTypes, BoundsTypes
  <2>2. /\ slot.start \in Int /\ slot = SlotAt(slot.start, length)
        /\ FitsAt(slot.start, request.windows, Taken, length, Earliests[i], Latests[i])
    BY <1>11, <2>1, FoundFits
  <2>3. \A y \in Taken : ~Overlaps(slot, y)
    BY <1>11, <2>1, FoundSlotIsFree
  <2>. QED BY <2>2, <2>3 DEF SlotAt
<1>12. Abstract!LeftOutWithReason(Asked, plan)
  <2>. SUFFICES ASSUME NEW t \in Asked.tasks, t.id \in plan.left, t.valid, ~t.splittable,
                       NEW slot \in Abstract!FreeSlots(Asked, plan, t.length, t)
       PROVE  FALSE
    BY Zenon DEF Abstract!LeftOutWithReason
  <2>1. PICK i \in Tasks :
          /\ t.id = batch[i].id /\ t.length = batch[i].remaining
          /\ t.splittable = batch[i].splittable /\ t.valid = Valid(batch[i])
          /\ t.earliest = Earliests[i] /\ t.latest = Latests[i]
    BY <1>3, AskedTasks
  <2>2. i \in LeftTasks
    BY <1>5, <2>1
  <2>3. NoRoom(batch[i].remaining, request.windows, Taken, Earliests[i], Latests[i])
    BY <2>1, <2>2 DEF PInv, LeftForRoom
  <2>4. batch[i].remaining \in Nat
    BY <1>3, BoundsTypes DEF Task
  <2>5. slot \in FindSlots(request.windows, Taken, batch[i].remaining, Earliests[i], Latests[i], {})
    BY <1>7, <2>1
  <2>. QED BY <1>11, <2>3, <2>4, <2>5 DEF NoRoom
<1>13. Abstract!NoSlotEarlier(Asked, plan)
  <2>. SUFFICES ASSUME NEW t \in Asked.tasks, t.dayparts = {},
                       NEW b \in Abstract!BlocksFor(Asked, plan, t),
                       NEW slot \in Abstract!FreeSlots(Asked, plan, b.end - b.start, t)
       PROVE  b.start < slot.start
    BY Zenon DEF Abstract!NoSlotEarlier
  <2>1. PICK i \in Tasks :
          /\ t.id = batch[i].id /\ t.dayparts = batch[i].dayparts
          /\ t.earliest = Earliests[i] /\ t.latest = Latests[i]
    BY <1>3, AskedTasks
  <2>2. b \in Own[i]
    BY <1>5, <2>1
  <2>3. NoEarlier(b, request.windows, Taken, Earliests[i], Latests[i])
    BY <2>1, <2>2 DEF PInv, AsEarly
  <2>4. b \in blocks /\ b \in NewBlocks
    BY <2>1, <2>2 DEF Own, NewBlocks
  <2>5. b.start \in Int /\ b.end \in Int /\ b.start < b.end
    BY <1>3, <2>4 DEF IInv, TypeOK, Block, PInv, Solid
  <2>6. Length(b) \in Nat /\ Length(b) = b.end - b.start
    BY <2>5 DEF Length
  <2>7. slot \in FindSlots(request.windows, Taken, Length(b), Earliests[i], Latests[i], {})
    BY <1>7, <2>1, <2>6
  <2>8. /\ slot.start \in Int /\ slot.end = slot.start + Length(b)
        /\ FitsAt(slot.start, request.windows, Taken, Length(b), Earliests[i], Latests[i])
        /\ \A y \in Taken : ~Overlaps(slot, y)
    BY <1>11, <2>6, <2>7
  <2>9. b.start <= slot.start
    BY <2>3, <2>8 DEF NoEarlier
  <2>10. ~Overlaps(slot, b)
    <3>1. Span(b) \in Taken
      BY <2>4 DEF Taken, Spans
    <3>. QED BY <3>1, <2>8, OverlapOfSpans
  <2>11. slot.start # b.start
    BY <2>5, <2>6, <2>8, <2>10 DEF Overlaps
  <2>. QED BY <2>5, <2>8, <2>9, <2>11
<1>14. Abstract!HonestStatus(plan)
  <2>1. plan.left = {} <=> unscheduled = {}
    BY <1>1
  <2>. QED BY <1>1, <2>1 DEF Abstract!HonestStatus
<1>. QED BY <1>8, <1>9, <1>10, <1>12, <1>13, <1>14 DEF Abstract!Meets

\* createSchedule keeps its promise, whatever it is asked: one step returns a plan, and the
\* plan meets the contract; the others are steps of which the caller sees nothing.
THEOREM PromiseIsKept == Spec => KeepsItsPromise
<1>1. Init => Abstract!Init
  BY DEF Init, Abstract!Init, Returned, Done
<1>2. PInv /\ [Next]_vars => [Abstract!Answer]_<<Asked, Returned>>
  <2>. SUFFICES ASSUME PInv, [Next]_vars PROVE [Abstract!Answer]_<<Asked, Returned>>
    OBVIOUS
  <2>1. request' = request /\ batch' = batch
    BY DEF Next, Ordering, OrderNext, VisitRoot, VisitDependency, Leave, RejectTask, StartTask,
           PlacePiece, CommitTask, FailTask, Return, vars, orderVars
  <2>2. Asked' = Asked
    <3>1. /\ LockedBlocks' = LockedBlocks /\ EventBusy' = EventBusy /\ Tasks' = Tasks
          /\ request.range' = request.range /\ request.windows' = request.windows
      BY <2>1, InputFixed
    <3>. QED BY <2>1, <3>1 DEF Asked, EarliestOf, LatestOf
  <2>3. CASE Return
    <3>. DEFINE plan == [blocks |-> blocks, left |-> {u.task : u \in unscheduled},
                         status |-> IF unscheduled = {} THEN "PROPOSED" ELSE "FAILED"]
    <3>1. Returned = Unplanned
      BY <2>3 DEF Return, Returned, Done
    <3>2. Returned' = plan
      BY <2>3 DEF Return, Returned, Done
    <3>3. Abstract!Meets(Asked, plan)
      BY <2>3, ContractIsMet DEF Return
    <3>4. plan # Unplanned
      <4>1. plan.status # "PLANNING"
        OBVIOUS
      <4>. QED BY <4>1 DEF Unplanned
    <3>. HIDE DEF plan
    <3>. QED BY <2>2, <3>1, <3>2, <3>3, <3>4 DEF Abstract!Answer
  <2>4. CASE ~Return
    <3>1. status' = status
      BY <2>4 DEF Next, Ordering, RejectTask, StartTask, PlacePiece, CommitTask, FailTask,
                  vars, placeVars
    <3>2. Done => UNCHANGED <<blocks, unscheduled>>
      <4>. SUFFICES ASSUME Done PROVE UNCHANGED <<blocks, unscheduled>>
        OBVIOUS
      <4>1. OrderDone /\ ~(next <= Len(ordered))
        BY DEF PInv, Ended, IInv, TypeOK, OrderTypeOK
      <4>2. UNCHANGED vars \/ Ordering
        BY <2>4, <4>1 DEF Next, RejectTask, StartTask, PlacePiece, CommitTask, FailTask,
                          Between, Placing
      <4>. QED BY <4>2 DEF vars, Ordering, placeVars
    <3>3. Returned' = Returned
      BY <3>1, <3>2 DEF Returned, Done, Unplanned
    <3>. QED BY <2>2, <3>3
  <2>. QED BY <2>3, <2>4
<1>. QED BY <1>1, <1>2, PromiseInvariance, PTL DEF Spec, KeepsItsPromise, Abstract!Spec
=============================================================================
