------------------------------ MODULE Simplify ------------------------------
(* The generalization of a line or ring (internal/minigen/simplify): the     *)
(* point of the smallest triangle with its neighbours is removed until every *)
(* triangle left exceeds the tolerance.  The points are a doubly linked      *)
(* list; a queue holds an area of every removable one, and also the areas    *)
(* points had before a neighbour went, told by an older version.  Areas and  *)
(* the tolerance are doubled.                                                *)
EXTENDS Integers, FiniteSets, Sequences

CONSTANT Input      \* records [points, closed, tolerance]

ASSUME InputAssumption ==
  \A input \in Input : /\ input.points \in Seq(Int \X Int)
                       /\ input.closed \in BOOLEAN
                       /\ input.tolerance \in Int

VARIABLES input,    \* the arguments of simplify
          nodes,    \* of each index: its neighbours, whether it is alive, its version
          queue,    \* the items of the heap
          running   \* whether the loop has not ended

simplifyVars == <<input, nodes, queue, running>>

None == 0     \* no neighbour: before the first or after the last point of a line

n == Len(input.points)
Indices == 1..n
minKeep == IF input.closed THEN 3 ELSE 2

triangleArea(a, b, c) ==
  LET area == (b[1] - a[1]) * (c[2] - a[2]) - (c[1] - a[1]) * (b[2] - a[2])
  IN  IF area < 0 THEN -area ELSE area

AreaAt(prev, i, next) == triangleArea(input.points[prev], input.points[i], input.points[next])

removable(node) == node.prev # None /\ node.next # None

Alive == {i \in Indices : nodes[i].alive}

-----------------------------------------------------------------------------

LinkedNodes(in) ==
  LET last == Len(in.points)
  IN  [i \in 1..last |->
         [prev |-> IF i > 1 THEN i - 1 ELSE IF in.closed THEN last ELSE None,
          next |-> IF i < last THEN i + 1 ELSE IF in.closed THEN 1 ELSE None,
          alive |-> TRUE, version |-> 0]]

Item(i, node) == [idx |-> i, area |-> AreaAt(node.prev, i, node.next), version |-> node.version]

\* Few points, or no tolerance, are left as they are.
Untouched == n <= minKeep \/ input.tolerance <= 0

SimplifyInit ==
  /\ input \in Input
  /\ nodes = LinkedNodes(input)
  /\ queue = IF Untouched THEN {} ELSE {Item(i, nodes[i]) : i \in {i \in Indices : removable(nodes[i])}}
  /\ running = ~Untouched

\* Any of the items of the smallest area: how the heap breaks ties is its own affair.
Popped(item) ==
  /\ running
  /\ Cardinality(Alive) > minKeep
  /\ item \in queue
  /\ \A other \in queue : item.area <= other.area

IsCurrent(item) == nodes[item.idx].alive /\ item.version = nodes[item.idx].version

Skip ==
  \E item \in queue :
    /\ Popped(item)
    /\ ~IsCurrent(item)
    /\ queue' = queue \ {item}
    /\ UNCHANGED <<input, nodes, running>>

Stop ==
  \E item \in queue :
    /\ Popped(item)
    /\ IsCurrent(item)
    /\ item.area > input.tolerance
    /\ queue' = queue \ {item}
    /\ running' = FALSE
    /\ UNCHANGED <<input, nodes>>

\* The list without i.
Unlinked(i) ==
  [k \in Indices |->
     [nodes[k] EXCEPT !.alive = @ /\ k # i,
                      !.prev = IF k = nodes[i].next THEN nodes[i].prev ELSE @,
                      !.next = IF k = nodes[i].prev THEN nodes[i].next ELSE @]]

\* Fault: only the point before the removed one is measured again.
Remeasured_Before(i, unlinked) == {k \in {nodes[i].prev} \ {None} : removable(unlinked[k])}

\* The neighbours of i, of which a line's ends have no area.
Remeasured(i, unlinked) == {k \in {nodes[i].prev, nodes[i].next} \ {None} : removable(unlinked[k])}

RemovePoint ==
  \E item \in queue :
    LET i == item.idx
        unlinked == Unlinked(i)
        again == Remeasured(i, unlinked)
        nodesNext == [k \in Indices |->
                        [unlinked[k] EXCEPT !.version = IF k \in again THEN @ + 1 ELSE @]]
    IN  /\ Popped(item)
        /\ IsCurrent(item)
        /\ item.area <= input.tolerance
        /\ nodes' = nodesNext
        /\ queue' = (queue \ {item}) \cup {Item(k, nodesNext[k]) : k \in again}
        /\ UNCHANGED <<input, running>>

\* The loop condition fails.
Exhaust ==
  /\ running
  /\ queue = {} \/ Cardinality(Alive) <= minKeep
  /\ running' = FALSE
  /\ UNCHANGED <<input, nodes, queue>>

SimplifyNext == Skip \/ Stop \/ RemovePoint \/ Exhaust

SimplifySpec == SimplifyInit /\ [][SimplifyNext]_simplifyVars

-----------------------------------------------------------------------------
(* The list and the queue with its stale items do what is promised: always   *)
(* a point of the smallest triangle goes, by its neighbours of that time.    *)
Generalization == INSTANCE Generalization WITH kept <- Alive

ImplementsGeneralization == Generalization!Spec
=============================================================================
