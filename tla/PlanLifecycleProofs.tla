------------------------- MODULE PlanLifecycleProofs -------------------------
(***************************************************************************)
(* What the requests on plans, blocks and events preserve, for any plans,  *)
(* tasks, ranges, events and number of requests: settled blocks stay,      *)
(* blocks overlap only where they were moved by hand, and a write-back     *)
(* leaves its blocks clear.  Of createSchedule only its contract is used.  *)
(***************************************************************************)
EXTENDS PlanLifecycle, TLAPS

\* No block is empty.
Lengths == \A p \in Planned : \A b \in plans[p].blocks : b.start < b.end

IInv == TypeOK /\ Lengths /\ OverlapOnlyByHand

-----------------------------------------------------------------------------
(* Blocks and plans. *)

\* What a request that does not move a block leaves of it.
SamePlace(b, c) == c.id = b.id /\ c.start = b.start /\ c.end = b.end

LEMMA BlockKept ==
  ASSUME NEW b \in Block
  PROVE  /\ \A s \in {"PROPOSED", "ACCEPTED", "LOCKED", "COMPLETED", "MISSED"} :
              [b EXCEPT !.status = s] \in Block /\ SamePlace(b, [b EXCEPT !.status = s])
         /\ \A l \in BOOLEAN : /\ [b EXCEPT !.locked = l] \in Block /\ SamePlace(b, [b EXCEPT !.locked = l])
                               /\ [b EXCEPT !.locked = l].locked = l
         /\ b.start \in Int /\ b.end \in Int
BY DEF Block, SamePlace

LEMMA ActionKeepsPlace ==
  ASSUME NEW b \in Block, NEW action \in {"lock", "unlock", "complete", "missed"}
  PROVE  ApplyBlockAction(b, action) \in Block /\ SamePlace(b, ApplyBlockAction(b, action))
<1>1. CASE action = "lock"
  <2>. DEFINE c == [b EXCEPT !.locked = TRUE]
  <2>1. c \in Block /\ SamePlace(b, c)
    BY BlockKept
  <2>2. ApplyBlockAction(b, action) = [c EXCEPT !.status = "LOCKED"]
    BY <1>1, Zenon DEF ApplyBlockAction
  <2>. HIDE DEF c
  <2>3. [c EXCEPT !.status = "LOCKED"] \in Block /\ SamePlace(c, [c EXCEPT !.status = "LOCKED"])
    BY <2>1, BlockKept
  <2>. QED BY <2>1, <2>2, <2>3 DEF SamePlace
<1>2. CASE action = "unlock"
  <2>. DEFINE c == [b EXCEPT !.locked = FALSE]
  <2>1. c \in Block /\ SamePlace(b, c)
    BY BlockKept
  <2>2. ApplyBlockAction(b, action) = [c EXCEPT !.status = "ACCEPTED"]
    BY <1>2 DEF ApplyBlockAction
  <2>. HIDE DEF c
  <2>3. [c EXCEPT !.status = "ACCEPTED"] \in Block /\ SamePlace(c, [c EXCEPT !.status = "ACCEPTED"])
    BY <2>1, BlockKept
  <2>. QED BY <2>1, <2>2, <2>3 DEF SamePlace
<1>3. CASE action = "complete"
  BY <1>3, BlockKept DEF ApplyBlockAction
<1>4. CASE action = "missed"
  BY <1>4, BlockKept DEF ApplyBlockAction
<1>. QED BY <1>1, <1>2, <1>3, <1>4

LEMMA PlanParts ==
  ASSUME NEW plan \in Plan
  PROVE  /\ \A blocks \in SUBSET Block :
              WithBlocks(plan, blocks) \in Plan /\ WithBlocks(plan, blocks).blocks = blocks
         /\ \A s \in {"PROPOSED", "FAILED", "ACCEPTED", "REJECTED"} :
              WithStatus(plan, s) \in Plan /\ WithStatus(plan, s).blocks = plan.blocks
         /\ plan.blocks \in SUBSET Block
BY DEF Plan, WithBlocks, WithStatus

\* What the contract of createSchedule says of a plan that is made around blocks to keep.
LEMMA MadePlan ==
  ASSUME NEW p \in PlanId, NEW batch \in SUBSET Task, NEW kept \in SUBSET Block,
         NEW plan \in PlansFor(p, batch, kept)
  PROVE  /\ plan \in Plan /\ kept \subseteq plan.blocks
         /\ \A b \in plan.blocks \ kept :
              b.start < b.end /\ \A c \in plan.blocks \ {b} : ~Overlaps(b, c)
<1>. DEFINE asked == Asked(p, batch, kept)
<1>1. PICK booked \in SUBSET batch : \E at \in Placements(p, booked) :
        plan = [status |-> IF booked = batch THEN "PROPOSED" ELSE "FAILED",
                blocks |-> kept \cup {NewBlock(id, at[id]) : id \in DOMAIN at},
                left |-> batch \ booked]
  BY DEF PlansFor
<1>2. PICK at \in Placements(p, booked) :
        plan = [status |-> IF booked = batch THEN "PROPOSED" ELSE "FAILED",
                blocks |-> kept \cup {NewBlock(id, at[id]) : id \in DOMAIN at},
                left |-> batch \ booked]
  BY <1>1
<1>3. Meets(asked, plan)
  BY DEF PlansFor
<1>4. at \in [{id \in BlockId : id[1] \in booked} -> FreeStarts(p)]
  BY DEF Placements
<1>5. \A id \in DOMAIN at : NewBlock(id, at[id]) \in Block /\ NewBlock(id, at[id]).start < NewBlock(id, at[id]).end
  <2>. TAKE id \in DOMAIN at
  <2>1. id \in BlockId /\ id[1] \in Task /\ at[id] \in FreeStarts(p)
    BY <1>4 DEF BlockId
  <2>2. at[id] \in Int
    BY <2>1, LifecycleAssumption DEF FreeStarts, Interval
  <2>. QED BY <2>1, <2>2 DEF NewBlock, Block
<1>6. plan.blocks = kept \cup {NewBlock(id, at[id]) : id \in DOMAIN at}
  BY <1>2
<1>7. plan \in Plan
  <2>1. kept \cup {NewBlock(id, at[id]) : id \in DOMAIN at} \in SUBSET Block
    BY <1>5
  <2>2. batch \ booked \in SUBSET Task
    OBVIOUS
  <2>. QED BY <1>2, <2>1, <2>2 DEF Plan
<1>8. kept \subseteq plan.blocks
  BY <1>6
<1>9. ASSUME NEW b \in plan.blocks \ kept
      PROVE  b.start < b.end /\ \A c \in plan.blocks \ {b} : ~Overlaps(b, c)
  <2>1. b.start < b.end
    BY <1>5, <1>6
  <2>2. EveryBlockAllowed(asked, plan) /\ asked.kept = kept
    BY <1>3 DEF Meets, Asked
  <2>3. b \in NewIn(asked, plan)
    BY <2>2 DEF NewIn
  <2>. HIDE DEF asked
  <2>. QED BY <2>1, <2>2, <2>3 DEF EveryBlockAllowed
<1>. QED BY <1>7, <1>8, <1>9

\* What replanning keeps: settled blocks, where they are.
LEMMA PreservedBlocks ==
  ASSUME TypeOK, NEW p \in Planned
  PROVE  /\ plans[p] \in Plan /\ p \in PlanId /\ Preserved(p) \in SUBSET Block
         /\ \A c \in Preserved(p) : \E b \in plans[p].blocks :
              SamePlace(b, c) /\ c = IF b.status = "COMPLETED" THEN [b EXCEPT !.locked = TRUE] ELSE b
         /\ \A b \in plans[p].blocks :
              b.locked \/ b.status = "COMPLETED" => \E c \in Preserved(p) : SamePlace(b, c)
<1>1. plans[p] \in Plan /\ p \in PlanId /\ plans[p].blocks \in SUBSET Block
  BY PlanParts DEF TypeOK, Planned
<1>2. ASSUME NEW b \in plans[p].blocks
      PROVE  LET c == IF b.status = "COMPLETED" THEN [b EXCEPT !.locked = TRUE] ELSE b
             IN  c \in Block /\ SamePlace(b, c)
  BY <1>1, BlockKept DEF SamePlace
<1>. QED BY <1>1, <1>2 DEF Preserved

-----------------------------------------------------------------------------
(* Blocks of a plan that overlap were moved. *)

\* The blocks of plan p, where mv says which were moved by hand.
Placed(p, blocks, mv) ==
  /\ \A b \in blocks : b.start < b.end
  /\ \A x, y \in blocks :
       (x # y /\ Overlaps(x, y)) => <<p, x.id>> \in mv \/ <<p, y.id>> \in mv

AllPlaced == \A p \in Planned : Placed(p, plans[p].blocks, moved)

LEMMA PlacedPlans == AllPlaced <=> Lengths /\ OverlapOnlyByHand
BY DEF AllPlaced, Placed, Lengths, OverlapOnlyByHand

LEMMA PlacedPlansNext == AllPlaced' <=> Lengths' /\ OverlapOnlyByHand'
BY DEF AllPlaced, Placed, Lengths, OverlapOnlyByHand

\* Blocks that stay in their place, whatever else becomes of them, or are dropped.
LEMMA StayPlaced ==
  ASSUME NEW p, NEW old \in SUBSET Block, NEW mv, Placed(p, old, mv),
         NEW f, \A b \in old : f[b] \in Block /\ SamePlace(b, f[b]),
         NEW blocks \in SUBSET {f[b] : b \in old},
         NEW mv2, \A c \in blocks : <<p, c.id>> \in mv => <<p, c.id>> \in mv2
  PROVE  blocks \in SUBSET Block /\ Placed(p, blocks, mv2)
<1>1. \A c \in blocks : \E b \in old : c = f[b] /\ SamePlace(b, c)
  OBVIOUS
<1>2. \A c \in blocks : c \in Block /\ c.start < c.end
  BY <1>1 DEF Placed, SamePlace
<1>3. ASSUME NEW x \in blocks, NEW y \in blocks, x # y, Overlaps(x, y)
      PROVE  <<p, x.id>> \in mv2 \/ <<p, y.id>> \in mv2
  <2>1. PICK b \in old : x = f[b] /\ SamePlace(b, x)
    BY <1>1
  <2>2. PICK c \in old : y = f[c] /\ SamePlace(c, y)
    BY <1>1
  <2>3. b # c /\ Overlaps(b, c)
    BY <1>3, <2>1, <2>2 DEF SamePlace, Overlaps
  <2>4. <<p, b.id>> \in mv \/ <<p, c.id>> \in mv
    BY <2>3 DEF Placed
  <2>. QED BY <2>1, <2>2, <2>4 DEF SamePlace
<1>. QED BY <1>2, <1>3 DEF Placed

\* A step that changes one plan.
LEMMA OnePlan ==
  ASSUME TypeOK, AllPlaced, NEW p \in PlanId, NEW plan \in Plan,
         plans' = [plans EXCEPT ![p] = plan],
         \A q \in PlanId \ {p}, id \in BlockId : <<q, id>> \in moved => <<q, id>> \in moved',
         Placed(p, plan.blocks, moved')
  PROVE  plans' \in [PlanId -> Plan \cup {NoPlan}] /\ AllPlaced'
<1>1. plans \in [PlanId -> Plan \cup {NoPlan}] /\ moved \subseteq PlanId \X BlockId
  BY DEF TypeOK
<1>2. plans' \in [PlanId -> Plan \cup {NoPlan}]
  BY <1>1
<1>3. ASSUME NEW q \in Planned'
      PROVE  Placed(q, plans'[q].blocks, moved')
  <2>1. CASE q = p
    BY <1>1, <2>1
  <2>2. CASE q # p
    <3>1. q \in Planned /\ q \in PlanId /\ plans'[q] = plans[q]
      BY <1>1, <2>2 DEF Planned
    <3>2. Placed(q, plans[q].blocks, moved)
      BY <3>1 DEF AllPlaced
    <3>3. \A id : <<q, id>> \in moved => <<q, id>> \in moved'
      BY <1>1, <2>2, <3>1
    <3>. QED BY <3>1, <3>2, <3>3 DEF Placed
  <2>. QED BY <2>1, <2>2
<1>. QED BY <1>2, <1>3 DEF AllPlaced

\* A request on a block replaces it in every plan that holds it: f makes the new
\* block, and mv says which are moved by hand then.
Replacement(id, f, mv) ==
  /\ \A b \in Block : b.start < b.end => f[b] \in Block /\ f[b].id = b.id /\ f[b].start < f[b].end
  /\ moved \subseteq mv
  /\ \A p \in Planned : \A b \in plans[p].blocks :
       b.id = id => <<p, id>> \in mv \/ SamePlace(b, f[b])

LEMMA BlocksReplaced ==
  ASSUME TypeOK, AllPlaced, NEW id \in BlockId, NEW f, NEW mv, Replacement(id, f, mv),
         NEW q \in Planned
  PROVE  /\ {IF b.id = id THEN f[b] ELSE b : b \in plans[q].blocks} \in SUBSET Block
         /\ Placed(q, {IF b.id = id THEN f[b] ELSE b : b \in plans[q].blocks}, mv)
<1>. DEFINE g(b) == IF b.id = id THEN f[b] ELSE b
<1>1. plans[q].blocks \in SUBSET Block
  BY PlanParts DEF TypeOK, Planned
<1>2. Placed(q, plans[q].blocks, moved)
  BY DEF AllPlaced
<1>3. \A b \in plans[q].blocks : /\ g(b) \in Block /\ g(b).id = b.id /\ g(b).start < g(b).end
                                 /\ <<q, b.id>> \in mv \/ SamePlace(b, g(b))
  BY <1>1, <1>2 DEF Placed, SamePlace, Replacement
<1>4. ASSUME NEW b \in plans[q].blocks, NEW c \in plans[q].blocks, g(b) # g(c), Overlaps(g(b), g(c))
      PROVE  <<q, b.id>> \in mv \/ <<q, c.id>> \in mv
  <2>1. CASE SamePlace(b, g(b)) /\ SamePlace(c, g(c))
    <3>1. b # c /\ Overlaps(b, c)
      BY <1>4, <2>1 DEF SamePlace, Overlaps
    <3>. QED BY <1>2, <3>1 DEF Placed, Replacement
  <2>. QED BY <1>3, <2>1
<1>. HIDE DEF g
<1>. DEFINE new == {g(b) : b \in plans[q].blocks}
<1>5. ASSUME NEW x \in new, NEW y \in new, x # y, Overlaps(x, y)
      PROVE  <<q, x.id>> \in mv \/ <<q, y.id>> \in mv
  <2>1. PICK b \in plans[q].blocks : x = g(b)
    OBVIOUS
  <2>2. PICK c \in plans[q].blocks : y = g(c)
    OBVIOUS
  <2>3. <<q, b.id>> \in mv \/ <<q, c.id>> \in mv
    BY <1>4, <1>5, <2>1, <2>2
  <2>. QED BY <1>3, <2>1, <2>2, <2>3
<1>6. new \in SUBSET Block /\ \A x \in new : x.start < x.end
  BY <1>3
<1>7. new \in SUBSET Block /\ Placed(q, new, mv)
  BY <1>5, <1>6 DEF Placed
<1>. QED BY <1>7 DEF g

-----------------------------------------------------------------------------
(* The requests, one by one. *)

LEMMA CreateKeeps ==
  ASSUME IInv, NEW p \in PlanId, Create(p)
  PROVE  IInv'
<1>1. PICK plan \in PlansFor(p, tasks, {}) : plans' = [plans EXCEPT ![p] = plan]
  BY DEF Create
<1>2. /\ plan \in Plan
      /\ \A b \in plan.blocks : b.start < b.end /\ \A c \in plan.blocks \ {b} : ~Overlaps(b, c)
  <2>1. tasks \in SUBSET Task /\ {} \in SUBSET Block
    BY DEF IInv, TypeOK
  <2>2. plan \in Plan /\ \A b \in plan.blocks \ {} :
          b.start < b.end /\ \A c \in plan.blocks \ {b} : ~Overlaps(b, c)
    BY <2>1, MadePlan
  <2>. QED BY <2>2
<1>3. Placed(p, plan.blocks, moved')
  BY <1>2 DEF Placed
<1>4. AllPlaced
  BY PlacedPlans DEF IInv
<1>5. \A q \in PlanId \ {p}, id \in BlockId : <<q, id>> \in moved => <<q, id>> \in moved'
  BY DEF Create
<1>6. plans' \in [PlanId -> Plan \cup {NoPlan}] /\ AllPlaced'
  BY <1>1, <1>2, <1>3, <1>4, <1>5, OnePlan DEF IInv
<1>7. TypeOK'
  BY <1>6 DEF IInv, TypeOK, Create
<1>. QED BY <1>6, <1>7, PlacedPlansNext DEF IInv

LEMMA AcceptKeeps ==
  ASSUME IInv, NEW p \in PlanId, Accept(p)
  PROVE  IInv'
<1>. DEFINE accept(b) == IF b.locked THEN b ELSE [b EXCEPT !.status = "ACCEPTED"]
            f == [b \in Block |-> accept(b)]
            plan == WithBlocks(WithStatus(plans[p], "ACCEPTED"), Accepted(plans[p].blocks))
<1>1. /\ p \in Planned /\ plans[p] \in Plan /\ plans[p].blocks \in SUBSET Block
      /\ AllPlaced /\ Placed(p, plans[p].blocks, moved)
  BY PlanParts, PlacedPlans DEF IInv, TypeOK, Accept, Planned, AllPlaced
<1>2. \A b \in Block : f[b] = accept(b) /\ f[b] \in Block /\ SamePlace(b, f[b])
  BY BlockKept DEF SamePlace
<1>3. Accepted(plans[p].blocks) = {f[b] : b \in plans[p].blocks}
  BY <1>1, <1>2 DEF Accepted
<1>. HIDE DEF f
<1>4. /\ Accepted(plans[p].blocks) \in SUBSET Block
      /\ Placed(p, Accepted(plans[p].blocks), moved)
  <2>1. \A b \in plans[p].blocks : f[b] \in Block /\ SamePlace(b, f[b])
    BY <1>1, <1>2
  <2>2. Accepted(plans[p].blocks) \in SUBSET {f[b] : b \in plans[p].blocks}
    BY <1>3
  <2>. QED BY <1>1, <2>1, <2>2, StayPlaced, Zenon
<1>5. plan \in Plan /\ plan.blocks = Accepted(plans[p].blocks)
  BY <1>1, <1>4, PlanParts
<1>6. plans' = [plans EXCEPT ![p] = plan] /\ moved' = moved
  BY DEF Accept
<1>. HIDE DEF plan
<1>7. plans' \in [PlanId -> Plan \cup {NoPlan}] /\ AllPlaced'
  BY <1>1, <1>4, <1>5, <1>6, OnePlan DEF IInv
<1>8. TypeOK'
  BY <1>7 DEF IInv, TypeOK, Accept
<1>. QED BY <1>7, <1>8, PlacedPlansNext DEF IInv

LEMMA RejectKeeps ==
  ASSUME IInv, NEW p \in PlanId, Reject(p)
  PROVE  IInv'
<1>. DEFINE plan == WithStatus(plans[p], "REJECTED")
<1>1. /\ plan \in Plan /\ plan.blocks = plans[p].blocks
      /\ AllPlaced /\ Placed(p, plans[p].blocks, moved)
  BY PlanParts, PlacedPlans DEF IInv, TypeOK, Reject, Planned, AllPlaced
<1>2. plans' = [plans EXCEPT ![p] = plan] /\ moved' = moved
  BY DEF Reject
<1>. HIDE DEF plan
<1>3. plans' \in [PlanId -> Plan \cup {NoPlan}] /\ AllPlaced'
  BY <1>1, <1>2, OnePlan DEF IInv
<1>4. TypeOK'
  BY <1>3 DEF IInv, TypeOK, Reject
<1>. QED BY <1>3, <1>4, PlacedPlansNext DEF IInv

LEMMA ReplanKeeps ==
  ASSUME IInv, NEW p \in PlanId, Replan(p)
  PROVE  IInv'
<1>. DEFINE settle(b) == IF b.status = "COMPLETED" THEN [b EXCEPT !.locked = TRUE] ELSE b
            f == [b \in Block |-> settle(b)]
<1>1. /\ p \in Planned /\ plans[p].blocks \in SUBSET Block
      /\ AllPlaced /\ Placed(p, plans[p].blocks, moved)
  BY PlanParts, PlacedPlans DEF IInv, TypeOK, Replan, Planned, AllPlaced
<1>2. PICK plan \in PlansFor(p, Batch(p), Preserved(p)) : plans' = [plans EXCEPT ![p] = plan]
  BY DEF Replan
<1>3. Batch(p) \in SUBSET Task /\ Preserved(p) \in SUBSET Block
  BY <1>1, PreservedBlocks DEF IInv, TypeOK, Batch
<1>4. /\ plan \in Plan /\ Preserved(p) \subseteq plan.blocks
      /\ \A b \in plan.blocks \ Preserved(p) :
           b.start < b.end /\ \A c \in plan.blocks \ {b} : ~Overlaps(b, c)
  BY <1>3, MadePlan
<1>5. /\ moved' \subseteq moved
      /\ \A m \in moved : m[1] # p \/ (\E b \in Preserved(p) : b.id = m[2]) => m \in moved'
  BY DEF Replan
<1>6. Placed(p, Preserved(p), moved')
  <2>1. \A b \in Block : f[b] = settle(b) /\ f[b] \in Block /\ SamePlace(b, f[b])
    BY BlockKept DEF SamePlace
  <2>2. Preserved(p) \in SUBSET {f[b] : b \in plans[p].blocks}
    BY <1>1, <2>1 DEF Preserved
  <2>3. \A c \in Preserved(p) : <<p, c.id>> \in moved => <<p, c.id>> \in moved'
    BY <1>5
  <2>. HIDE DEF f
  <2>4. \A b \in plans[p].blocks : f[b] \in Block /\ SamePlace(b, f[b])
    BY <1>1, <2>1
  <2>. QED BY <1>1, <2>2, <2>3, <2>4, StayPlaced, Zenon
<1>7. Placed(p, plan.blocks, moved')
  <2>1. ASSUME NEW x \in plan.blocks, NEW y \in plan.blocks, x # y, Overlaps(x, y)
        PROVE  x \in Preserved(p) /\ y \in Preserved(p)
    <3>1. Overlaps(y, x)
      BY <2>1 DEF Overlaps
    <3>. QED BY <1>4, <2>1, <3>1
  <2>. QED BY <1>4, <1>6, <2>1 DEF Placed
<1>8. \A q \in PlanId \ {p}, id \in BlockId : <<q, id>> \in moved => <<q, id>> \in moved'
  BY <1>5
<1>9. plans' \in [PlanId -> Plan \cup {NoPlan}] /\ AllPlaced'
  BY <1>1, <1>2, <1>4, <1>7, <1>8, OnePlan DEF IInv
<1>10. TypeOK'
  BY <1>5, <1>9 DEF IInv, TypeOK, Replan
<1>. QED BY <1>9, <1>10, PlacedPlansNext DEF IInv

LEMMA BlockActionKeeps ==
  ASSUME IInv, NEW id \in BlockId, NEW action \in {"lock", "unlock", "complete", "missed"},
         BlockAction(id, action)
  PROVE  IInv'
<1>. DEFINE f == [b \in Block |-> ApplyBlockAction(b, action)]
            new(q) == {IF b.id = id THEN f[b] ELSE b : b \in plans[q].blocks}
<1>1. \A q \in Planned : plans[q] \in Plan /\ plans[q].blocks \in SUBSET Block
  BY PlanParts DEF IInv, TypeOK, Planned
<1>2. \A b \in Block : f[b] = ApplyBlockAction(b, action) /\ f[b] \in Block /\ SamePlace(b, f[b])
  BY ActionKeepsPlace
<1>3. plans' = [q \in PlanId |->
                  IF q \notin Planned THEN NoPlan
                  ELSE WithBlocks(plans[q], {IF b.id = id THEN ApplyBlockAction(b, action) ELSE b :
                                               b \in plans[q].blocks})]
  BY DEF BlockAction, UpdateBlocks
<1>4. \A q \in Planned : plans'[q] = WithBlocks(plans[q], new(q))
  <2>1. \A q \in Planned : new(q) = {IF b.id = id THEN ApplyBlockAction(b, action) ELSE b :
                                      b \in plans[q].blocks}
    BY <1>1, <1>2
  <2>. QED BY <1>3, <2>1 DEF Planned
<1>5. ASSUME NEW q \in Planned
      PROVE  new(q) \in SUBSET Block /\ Placed(q, new(q), moved)
  <2>1. \A b \in Block : b.start < b.end =>
          f[b] \in Block /\ f[b].id = b.id /\ f[b].start < f[b].end
    BY <1>2 DEF SamePlace
  <2>2. \A p \in Planned : \A b \in plans[p].blocks :
          b.id = id => <<p, id>> \in moved \/ SamePlace(b, f[b])
    BY <1>1, <1>2
  <2>3. TypeOK /\ AllPlaced
    BY PlacedPlans DEF IInv
  <2>. HIDE DEF f
  <2>4. Replacement(id, f, moved)
    BY <2>1, <2>2 DEF Replacement
  <2>. QED BY <2>3, <2>4, BlocksReplaced
<1>. HIDE DEF new
<1>6. ASSUME NEW q \in Planned
      PROVE  plans'[q] \in Plan /\ plans'[q].blocks = new(q)
  <2>1. WithBlocks(plans[q], new(q)) \in Plan /\ WithBlocks(plans[q], new(q)).blocks = new(q)
    BY <1>1, <1>5, PlanParts
  <2>. QED BY <1>4, <2>1
<1>7. plans' \in [PlanId -> Plan \cup {NoPlan}] /\ Planned' \subseteq Planned
  BY <1>3, <1>6 DEF Planned
<1>8. AllPlaced'
  BY <1>5, <1>6, <1>7 DEF AllPlaced, BlockAction
<1>9. TypeOK'
  BY <1>7, LifecycleAssumption DEF IInv, TypeOK, BlockAction, Edit
<1>. QED BY <1>8, <1>9, PlacedPlansNext DEF IInv

\* A patch leaves a block its identity.
LEMMA PatchedBlock ==
  ASSUME NEW b \in Block, NEW to \in MoveTargets, NEW ends
  PROVE  Patched(b, to, ends) \in Block /\ Patched(b, to, ends).id = b.id
<1>1. to.start \in Int /\ to.end \in Int
  BY LifecycleAssumption DEF Interval
<1>. QED BY <1>1 DEF Patched, Block

LEMMA MoveKeeps ==
  ASSUME IInv, NEW id \in BlockId, NEW to \in MoveTargets,
         NEW ends \in SUBSET {"start", "end"}, Move(id, to, ends)
  PROVE  IInv'
<1>. DEFINE f == [b \in Block |-> IF Patched(b, to, ends).start < Patched(b, to, ends).end
                                  THEN Patched(b, to, ends) ELSE b]
            new(q) == {IF b.id = id THEN f[b] ELSE b : b \in plans[q].blocks}
<1>. PICK mv : mv = moved \cup {<<p, id>> : p \in {q \in Planned : HoldsBlock(q, id)}}
  OBVIOUS
<1>1. \A q \in Planned : plans[q] \in Plan /\ plans[q].blocks \in SUBSET Block
  BY PlanParts DEF IInv, TypeOK, Planned
<1>2. \A b \in Block : b.start < b.end =>
         f[b] \in Block /\ f[b].id = b.id /\ f[b].start < f[b].end
  BY PatchedBlock
<1>13. \A q \in Planned : \A b \in plans[q].blocks : b.id = id => f[b] = Patched(b, to, ends)
  BY <1>1 DEF Move
<1>3. plans' = [q \in PlanId |->
                  IF q \notin Planned THEN NoPlan
                  ELSE WithBlocks(plans[q],
                         {IF b.id = id THEN Patched(b, to, ends) ELSE b :
                            b \in plans[q].blocks})]
  BY DEF Move, UpdateBlocks
<1>4. \A q \in Planned : plans'[q] = WithBlocks(plans[q], new(q))
  <2>1. \A q \in Planned :
          new(q) = {IF b.id = id THEN Patched(b, to, ends) ELSE b : b \in plans[q].blocks}
    <3>. HIDE DEF f
    <3>. QED BY <1>13
  <2>. QED BY <1>3, <2>1 DEF Planned
<1>5. ASSUME NEW q \in Planned
      PROVE  new(q) \in SUBSET Block /\ Placed(q, new(q), mv)
  <2>1. \A p \in Planned : \A b \in plans[p].blocks :
          b.id = id => <<p, id>> \in mv \/ SamePlace(b, f[b])
    BY DEF HoldsBlock
  <2>2. TypeOK /\ AllPlaced /\ moved \subseteq mv
    BY PlacedPlans DEF IInv
  <2>3. \A b \in Block : b.start < b.end =>
          f[b] \in Block /\ f[b].id = b.id /\ f[b].start < f[b].end
    BY <1>2
  <2>. HIDE DEF f
  <2>4. Replacement(id, f, mv)
    BY <2>1, <2>2, <2>3 DEF Replacement
  <2>5. /\ {IF b.id = id THEN f[b] ELSE b : b \in plans[q].blocks} \in SUBSET Block
        /\ Placed(q, {IF b.id = id THEN f[b] ELSE b : b \in plans[q].blocks}, mv)
    <3>1. ASSUME NEW g, Replacement(id, g, mv)
          PROVE  /\ {IF b.id = id THEN g[b] ELSE b : b \in plans[q].blocks} \in SUBSET Block
                 /\ Placed(q, {IF b.id = id THEN g[b] ELSE b : b \in plans[q].blocks}, mv)
      BY <2>2, <3>1, BlocksReplaced
    <3>. QED BY <2>4, <3>1
  <2>. QED BY <2>5
<1>. HIDE DEF new
<1>6. ASSUME NEW q \in Planned
      PROVE  plans'[q] \in Plan /\ plans'[q].blocks = new(q)
  <2>1. WithBlocks(plans[q], new(q)) \in Plan /\ WithBlocks(plans[q], new(q)).blocks = new(q)
    BY <1>1, <1>5, PlanParts
  <2>. QED BY <1>4, <2>1
<1>7. plans' \in [PlanId -> Plan \cup {NoPlan}] /\ Planned' \subseteq Planned
  BY <1>3, <1>6 DEF Planned
<1>8. moved' = mv
  BY DEF Move
<1>9. AllPlaced'
  BY <1>5, <1>6, <1>7, <1>8 DEF AllPlaced
<1>10. mv \subseteq PlanId \X BlockId
  BY DEF IInv, TypeOK, Planned
<1>11. TypeOK'
  BY <1>7, <1>8, <1>10, LifecycleAssumption DEF IInv, TypeOK, Move, Edit
<1>. QED BY <1>9, <1>11, PlacedPlansNext DEF IInv

\* The requests on events and tasks leave the plans alone.
LEMMA WriteBackKeeps ==
  ASSUME IInv, NEW p \in PlanId, NEW c \in Calendar, WriteBack(p, c)
  PROVE  IInv'
<1>1. p \in Planned /\ UNCHANGED <<tasks, plans, moved, edits>>
  BY DEF WriteBack
<1>2. PICK last \in SUBSET WritebackEvents(p, c) :
         events' = (events \ Replaced(WritebackEvents(p, c))) \cup last
  BY DEF WriteBack, LastOfEachId
<1>3. \A e \in last : e.start < e.end
  BY <1>1, <1>2 DEF IInv, Lengths, WritebackEvents
<1>4. \A e \in events' : e.start < e.end
  BY <1>2, <1>3 DEF IInv, TypeOK
<1>. QED BY <1>1, <1>4 DEF IInv, TypeOK, Lengths, OverlapOnlyByHand, Planned

LEMMA EditsKeep ==
  ASSUME IInv,
         \/ \E e \in OtherEvents : PutEvent(e)
         \/ \E e \in events : RemoveEvent(e)
         \/ \E t \in Task : RemoveTask(t) \/ AddTask(t)
  PROVE  IInv'
<1>1. plans' = plans /\ moved' = moved /\ tasks' \subseteq Task /\ edits' \in 0..MaxEdits
  BY LifecycleAssumption DEF PutEvent, RemoveEvent, RemoveTask, AddTask, Edit, IInv, TypeOK
<1>2. \A e \in events' : e.start < e.end
  BY LifecycleAssumption DEF PutEvent, RemoveEvent, RemoveTask, AddTask, IInv, TypeOK
<1>. QED BY <1>1, <1>2 DEF IInv, TypeOK, Lengths, OverlapOnlyByHand, Planned

\* The invariant is inductive.
THEOREM Inductive == Spec => []IInv
<1>1. Init => IInv
  BY LifecycleAssumption DEF Init, IInv, TypeOK, Lengths, OverlapOnlyByHand, Planned
<1>2. IInv /\ [Next]_vars => IInv'
  <2>. SUFFICES ASSUME IInv, [Next]_vars PROVE IInv'
    OBVIOUS
  <2>1. CASE UNCHANGED vars
    BY <2>1 DEF vars, IInv, TypeOK, Lengths, OverlapOnlyByHand, Planned
  <2>2. CASE \E p \in PlanId : Create(p) \/ Accept(p) \/ Reject(p) \/ Replan(p)
    BY <2>2, CreateKeeps, AcceptKeeps, RejectKeeps, ReplanKeeps
  <2>3. CASE \E p \in PlanId, c \in Calendar : WriteBack(p, c)
    BY <2>3, WriteBackKeeps
  <2>4. CASE \E id \in BlockId : \/ \E action \in {"lock", "unlock", "complete", "missed"} :
                                      BlockAction(id, action)
                                 \/ \E to \in MoveTargets : \E ends \in SUBSET {"start", "end"} \ {{}} :
                                      Move(id, to, ends)
    BY <2>4, BlockActionKeeps, MoveKeeps
  <2>5. CASE \/ \E e \in OtherEvents : PutEvent(e)
             \/ \E e \in events : RemoveEvent(e)
             \/ \E t \in Task : RemoveTask(t) \/ AddTask(t)
    BY <2>5, EditsKeep
  <2>. QED BY <2>1, <2>2, <2>3, <2>4, <2>5 DEF Next
<1>. QED BY <1>1, <1>2, PTL DEF Spec

\* Plans, blocks and events are what the store may hold.
THEOREM TypeCorrect == Spec => []TypeOK
BY Inductive, PTL DEF IInv

\* Blocks of a plan overlap only where one of them was moved by hand since the plan
\* was made, after any number of replans around settled blocks.
THEOREM OverlapsAreByHand == Spec => []OverlapOnlyByHand
BY Inductive, PTL DEF IInv

-----------------------------------------------------------------------------
(* What a step may never do. *)

Settled(b) == b.locked \/ b.status = "COMPLETED"
SettledStay(p) ==
  \A b \in plans[p].blocks : Settled(b) => \E c \in plans'[p].blocks : SamePlace(b, c)

\* A plan that is replanned keeps its settled blocks; the others are not touched.
LEMMA ReplanSettled ==
  ASSUME TypeOK, NEW q \in PlanId, Replan(q), NEW p \in Planned
  PROVE  SettledStay(p)
<1>1. q \in Planned /\ plans \in [PlanId -> Plan \cup {NoPlan}]
  BY DEF Replan, TypeOK
<1>2. PICK plan \in PlansFor(q, Batch(q), Preserved(q)) : plans' = [plans EXCEPT ![q] = plan]
  BY DEF Replan
<1>3. Batch(q) \in SUBSET Task /\ Preserved(q) \in SUBSET Block
  BY <1>1, PreservedBlocks DEF TypeOK, Batch
<1>4. Preserved(q) \subseteq plan.blocks
  BY <1>3, MadePlan
<1>5. CASE p = q
  <2>1. plans'[p] = plan
    BY <1>1, <1>2, <1>5
  <2>2. \A b \in plans[p].blocks : Settled(b) => \E c \in Preserved(p) : SamePlace(b, c)
    BY PreservedBlocks DEF Settled
  <2>. QED BY <1>4, <1>5, <2>1, <2>2 DEF SettledStay
<1>6. CASE p # q
  BY <1>1, <1>2, <1>6 DEF SettledStay, SamePlace, Planned
<1>. QED BY <1>5, <1>6

\* A request on a block does not move it while it is settled.
LEMMA BlockRequestSettled ==
  ASSUME TypeOK, NEW id \in BlockId, NEW p \in Planned,
         \/ \E action \in {"lock", "unlock", "complete", "missed"} : BlockAction(id, action)
         \/ \E to \in MoveTargets : \E ends \in SUBSET {"start", "end"} \ {{}} :
              Move(id, to, ends)
  PROVE  SettledStay(p)
<1>1. p \in PlanId /\ plans[p] \in Plan /\ plans[p].blocks \in SUBSET Block
  BY PlanParts DEF TypeOK, Planned
<1>2. ASSUME NEW action \in {"lock", "unlock", "complete", "missed"}, BlockAction(id, action)
      PROVE  SettledStay(p)
  <2>. DEFINE new(b) == IF b.id = id THEN ApplyBlockAction(b, action) ELSE b
  <2>1. plans'[p] = WithBlocks(plans[p], {new(b) : b \in plans[p].blocks})
    BY <1>1, <1>2 DEF BlockAction, UpdateBlocks
  <2>2. \A b \in plans[p].blocks : new(b) \in Block /\ SamePlace(b, new(b))
    BY <1>1, ActionKeepsPlace DEF SamePlace
  <2>. HIDE DEF new
  <2>3. {new(b) : b \in plans[p].blocks} \in SUBSET Block
    BY <2>2
  <2>4. WithBlocks(plans[p], {new(b) : b \in plans[p].blocks}).blocks = {new(b) : b \in plans[p].blocks}
    BY <1>1, <2>3, PlanParts
  <2>. QED BY <2>1, <2>2, <2>4 DEF SettledStay
<1>3. ASSUME NEW to \in MoveTargets, NEW ends \in SUBSET {"start", "end"}, Move(id, to, ends)
      PROVE  SettledStay(p)
  <2>. DEFINE new(b) == IF b.id = id THEN Patched(b, to, ends) ELSE b
  <2>1. plans'[p] = WithBlocks(plans[p], {new(b) : b \in plans[p].blocks})
    BY <1>1, <1>3 DEF Move, UpdateBlocks
  <2>2. \A b \in plans[p].blocks : new(b) \in Block
    BY <1>1, PatchedBlock
  <2>3. \A b \in plans[p].blocks : Settled(b) => new(b) = b
    BY <1>3 DEF Move, Movable, Settled
  <2>. HIDE DEF new
  <2>4. {new(b) : b \in plans[p].blocks} \in SUBSET Block
    BY <2>2
  <2>5. WithBlocks(plans[p], {new(b) : b \in plans[p].blocks}).blocks = {new(b) : b \in plans[p].blocks}
    BY <1>1, <2>4, PlanParts
  <2>. QED BY <2>1, <2>3, <2>5 DEF SettledStay, SamePlace
<1>. QED BY <1>2, <1>3

\* No request moves or drops a block while it is locked or completed, except one that
\* makes its plan anew.
THEOREM SettledStaysPut == Spec => SettledStays
<1>1. ASSUME TypeOK, [Next]_vars, NEW p \in Planned
      PROVE  SettledStay(p) \/ Create(p)
  <2>1. p \in PlanId /\ plans \in [PlanId -> Plan \cup {NoPlan}]
        /\ plans[p].blocks \in SUBSET Block /\ plans[p] \in Plan
    BY <1>1, PlanParts DEF TypeOK, Planned
  <2>2. CASE plans' = plans
    BY <2>2 DEF SettledStay, SamePlace
  <2>3. ASSUME NEW q \in PlanId, Create(q), q # p
        PROVE  plans'[p] = plans[p]
    BY <2>1, <2>3 DEF Create
  <2>4. ASSUME NEW q \in PlanId, Accept(q)
        PROVE  SettledStay(p)
    <3>1. CASE q # p
      BY <2>1, <2>4, <3>1 DEF Accept, SettledStay, SamePlace
    <3>2. CASE q = p
      <4>1. \A b \in plans[p].blocks :
              LET c == IF b.locked THEN b ELSE [b EXCEPT !.status = "ACCEPTED"]
              IN  c \in Block /\ SamePlace(b, c)
        BY <2>1, BlockKept DEF SamePlace
      <4>2. /\ Accepted(plans[p].blocks) \in SUBSET Block
            /\ \A b \in plans[p].blocks : \E c \in Accepted(plans[p].blocks) : SamePlace(b, c)
        BY <4>1 DEF Accepted
      <4>3. plans'[p].blocks = Accepted(plans[p].blocks)
        <5>1. plans'[p] = WithBlocks(WithStatus(plans[p], "ACCEPTED"), Accepted(plans[p].blocks))
          BY <2>1, <2>4, <3>2 DEF Accept
        <5>2. WithStatus(plans[p], "ACCEPTED") \in Plan
          BY <2>1, PlanParts
        <5>3. WithBlocks(WithStatus(plans[p], "ACCEPTED"), Accepted(plans[p].blocks)).blocks
                = Accepted(plans[p].blocks)
          BY <4>2, <5>2, PlanParts
        <5>. QED BY <5>1, <5>3
      <4>. QED BY <4>2, <4>3 DEF SettledStay
    <3>. QED BY <3>1, <3>2
  <2>5. ASSUME NEW q \in PlanId, Reject(q)
        PROVE  SettledStay(p)
    <3>1. plans'[p] = IF p = q THEN WithStatus(plans[p], "REJECTED") ELSE plans[p]
      BY <2>1, <2>5 DEF Reject
    <3>2. plans'[p].blocks = plans[p].blocks
      BY <2>1, <3>1, PlanParts
    <3>. QED BY <3>2 DEF SettledStay, SamePlace
  <2>6. ASSUME NEW q \in PlanId, Create(q)
        PROVE  SettledStay(p) \/ Create(p)
    BY <2>3, <2>6 DEF SettledStay, SamePlace
  <2>7. CASE \/ \E q \in PlanId, c \in Calendar : WriteBack(q, c)
             \/ \E e \in OtherEvents : PutEvent(e)
             \/ \E e \in events : RemoveEvent(e)
             \/ \E t \in Task : RemoveTask(t) \/ AddTask(t)
             \/ UNCHANGED vars
    BY <2>2, <2>7 DEF WriteBack, PutEvent, RemoveEvent, RemoveTask, AddTask, vars
  <2>. QED BY <1>1, <2>4, <2>5, <2>6, <2>7, ReplanSettled, BlockRequestSettled DEF Next
<1>2. TypeOK /\ [Next]_vars =>
        [\A p \in Planned :
           \/ \A b \in plans[p].blocks : (b.locked \/ b.status = "COMPLETED") =>
                \E c \in plans'[p].blocks : c.id = b.id /\ SpanOf(c) = SpanOf(b)
           \/ Create(p)]_vars
  BY <1>1 DEF SettledStay, Settled, SamePlace, SpanOf
<1>. QED BY <1>2, TypeCorrect, PTL DEF Spec, SettledStays

\* After a write-back the plan's blocks have their events, but for those that share an
\* id, and are clear of the calendar's others.
THEOREM WriteBackIsClear == Spec => WrittenIsClear
<1>. DEFINE Clear(p, c) ==
       LET wanted == WritebackEvents(p, c)
       IN  /\ \A w \in wanted :
                /\ (\A v \in wanted : v.id = w.id => v = w) => w \in events'
                /\ \E e \in wanted : {f \in events' : f.id = w.id} = {e}
           /\ \A e \in events' \ wanted : e.calendar = c =>
                \A w \in wanted : ~Overlaps(e, w)
<1>1. ASSUME NEW p \in PlanId, NEW c \in Calendar, WriteBack(p, c)
      PROVE  Clear(p, c)
  <2>. DEFINE wanted == WritebackEvents(p, c)
  <2>1. Conflicts(wanted, c) = {}
    BY <1>1 DEF WriteBack
  <2>2. PICK last \in LastOfEachId(p, wanted) : events' = (events \ Replaced(wanted)) \cup last
    BY <1>1 DEF WriteBack
  <2>3. last \subseteq wanted /\ \A w \in wanted : \E e \in last : {f \in last : f.id = w.id} = {e}
    BY <2>2 DEF LastOfEachId
  <2>4. ASSUME NEW w \in wanted
        PROVE  /\ (\A v \in wanted : v.id = w.id => v = w) => w \in events'
               /\ \E e \in wanted : {f \in events' : f.id = w.id} = {e}
    <3>1. PICK e \in last : {f \in last : f.id = w.id} = {e}
      BY <2>3
    <3>2. {f \in events' : f.id = w.id} = {e}
      BY <2>2, <3>1 DEF Replaced
    <3>. QED BY <2>3, <3>1, <3>2
  <2>5. ASSUME NEW e \in events' \ wanted, e.calendar = c, NEW w \in wanted
        PROVE  ~Overlaps(e, w)
    <3>1. e \in events \ Replaced(wanted)
      BY <2>2, <2>3, <2>5
    <3>. QED BY <2>1, <2>5, <3>1 DEF Conflicts, Overlaps
  <2>. QED BY <2>4, <2>5
<1>2. [Next]_vars =>
        [\A p \in PlanId, c \in Calendar : WriteBack(p, c) => Clear(p, c)]_vars
  BY <1>1
<1>. QED BY <1>2, PTL DEF Spec, WrittenIsClear
=============================================================================
