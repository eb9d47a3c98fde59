----------------------------- MODULE MCGroupApi -----------------------------
(***************************************************************************)
(* Instances of the group endpoints for TLC.                               *)
(***************************************************************************)
EXTENDS GroupApi, TLC

Symmetry == Permutations(Requests) \cup Permutations(Jobs) \cup Permutations(Students)

\* The sets of students that create and edit are called with.
AnyRoster == SUBSET Students

OneOrBoth == {{s} : s \in Students} \cup {Students}

WholeClass == {Students}

\* Groups are created open, until the first or the second tick.
OpenWindows == {0} \X {d \in Time : d > 0 \/ MaxTime = 0}

============================================================================
