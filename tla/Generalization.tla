--------------------------- MODULE Generalization ---------------------------
(* What simplify promises: of the points kept, one whose triangle with its   *)
(* neighbours is the smallest goes, until the smallest exceeds the tolerance *)
(* or no more may go.  The ends of a line stay.                              *)
EXTENDS Integers, FiniteSets, Sequences

CONSTANT Input      \* records [points, closed, tolerance]

VARIABLES input, kept, running

Fewest == IF input.closed THEN 3 ELSE 2

\* j is the point kept next after i, on a ring the first one after the last.
After(i, j) ==
  \/ i < j /\ \A k \in kept : k <= i \/ j <= k
  \/ input.closed /\ j <= i /\ \A k \in kept : j <= k /\ k <= i

\* Twice the triangle of three points.
Triangle(a, b, c) ==
  LET area == (b[1] - a[1]) * (c[2] - a[2]) - (c[1] - a[1]) * (b[2] - a[2])
  IN  IF area < 0 THEN -area ELSE area

\* i makes a triangle of that area with its neighbours.
Spans(i, area) ==
  \E before, after \in kept :
    /\ After(before, i)
    /\ After(i, after)
    /\ area = Triangle(input.points[before], input.points[i], input.points[after])

Init ==
  /\ input \in Input
  /\ kept = 1..Len(input.points)
  /\ running = (Len(input.points) > Fewest /\ input.tolerance > 0)

Drop ==
  /\ running
  /\ Cardinality(kept) > Fewest
  /\ \E i \in kept, area \in 0..input.tolerance :
       /\ Spans(i, area)
       /\ \A other \in kept, less \in 0..(area - 1) : ~Spans(other, less)
       /\ kept' = kept \ {i}
  /\ UNCHANGED <<input, running>>

End ==
  /\ running
  /\ \/ Cardinality(kept) <= Fewest
     \/ \A i \in kept, area \in 0..input.tolerance : ~Spans(i, area)
  /\ running' = FALSE
  /\ UNCHANGED <<input, kept>>

Spec == Init /\ [][Drop \/ End]_<<input, kept, running>>
=============================================================================
