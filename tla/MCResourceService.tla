------------------------- MODULE MCResourceService -------------------------
(***************************************************************************)
(* ResourceService and its refinement on instances small enough for TLC.   *)
(***************************************************************************)
EXTENDS ResourceRefinement, TLC

\* Two priorities are enough to rank and to tie; Priority is any int the client
\* posts, and only its order matters.
MCPriorities == {0, 1}
MCOnePriority == {1}

\* in_use values a registration may post.
MCNothingInUse == {0}
MCSomeInUse == {-1, 0, 3}

\* Calls, requests and structs are interchangeable: no action and no invariant
\* names one of them.
Symmetry == Permutations(Procs) \cup Permutations(RequestIds)
              \cup Permutations(Objects) \cup Permutations(ResourceIds)
=============================================================================
