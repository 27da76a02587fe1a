----------------------------- MODULE BranchTree -----------------------------
(***************************************************************************)
(* What a reader is promised of the branches of a story (SPEC.md 5.6 and   *)
(* AC-06): a branch is a line of scenes that only grows at its end, a new  *)
(* branch starts as a copy of the beginning of an existing one, and after  *)
(* that the two have nothing to do with each other.                        *)
(***************************************************************************)
EXTENDS Naturals, Sequences

VARIABLE paths   \* for each branch its scenes, in reading order

Scenes == UNION {{paths[b][i] : i \in DOMAIN paths[b]} : b \in DOMAIN paths}

Init == paths = << <<>> >>

\* One branch gets one scene that no branch has.
Grow == \E b \in DOMAIN paths :
          /\ Len(paths'[b]) = Len(paths[b]) + 1
          /\ paths' = [paths EXCEPT ![b] = Append(@, paths'[b][Len(paths[b]) + 1])]
          /\ paths'[b][Len(paths[b]) + 1] \notin Scenes

\* A new branch shares at least one scene with the branch it leaves.
Fork == \E b \in DOMAIN paths : \E n \in 1 .. Len(paths[b]) :
          paths' = Append(paths, SubSeq(paths[b], 1, n))

Next == Grow \/ Fork

Spec == Init /\ [][Next]_paths
=============================================================================
