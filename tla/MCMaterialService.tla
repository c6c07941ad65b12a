------------------------- MODULE MCMaterialService -------------------------
(***************************************************************************)
(* MaterialService and its refinement on instances small enough for TLC.   *)
(***************************************************************************)
EXTENDS MaterialRefinement, TLC

Line(m, n) == [material |-> m, quantity |-> n]

\* The empty list and single lines with the quantity 0, which must be refused, and
\* lists of two lines, for one material or for two.
MCLists ==
  {<<>>} \cup {<<Line(m, 0)>> : m \in MaterialIds}
    \cup {<<Line(m[1], 1), Line(m[2], 1)>> : m \in MaterialIds \X MaterialIds}

\* Lists of one line, all valid, for the runs that need more requests.
MCSingleLines == {<<Line(m, n)>> : m \in MaterialIds, n \in 1..MaxQuantity}

MCOnePriority == {1}
MCPriorities == {0, 1}

\* Calls, requests, materials and structs are interchangeable.
Symmetry == Permutations(Procs) \cup Permutations(RequestIds)
              \cup Permutations(Objects) \cup Permutations(MaterialIds)
=============================================================================
