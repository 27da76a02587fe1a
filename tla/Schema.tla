------------------------------- MODULE Schema -------------------------------
(***************************************************************************)
(* The triggers of db/schema.sql on the table branches.  SQLite refuses a  *)
(* statement that writes a row they reject and the transaction is rolled   *)
(* back.  The triggers on UPDATE check the written row by the same rules   *)
(* and that it is not its own ancestor.                                    *)
(*                                                                         *)
(* The columns a trigger follows (a branch's parent and fork point, a      *)
(* scene's branch, a choice's scene) never change once written and every   *)
(* transaction inserts a row before it refers to it, so a row is judged    *)
(* the same by the statement that writes it and at the COMMIT.             *)
(***************************************************************************)
EXTENDS StoryRepository

\* WITH RECURSIVE ... UNION: the smallest set that holds the parent of the
\* branch and, with a branch of the table, that branch's parent.
ParentPath(branch) ==
  {b \in DOMAIN branches :
     \A path \in SUBSET DOMAIN branches :
       (/\ branches[branch].parent # None => branches[branch].parent \in path
        /\ \A x \in path : branches[x].parent # None => branches[x].parent \in path)
       => b \in path}

BranchOfScene(segment) == segments[segment].branch

\* Triggers branch_fork_choice_matches_segment_insert and _update.
ForkChoiceMatchesSegment(branch) ==
  LET row == branches[branch]
  IN  row.forkChoice # None /\ row.forkSegment # None
        => choices[row.forkChoice].segment = row.forkSegment

\* Triggers branch_path_references_insert and _update.
BranchPathReferences(branch) ==
  LET row == branches[branch]
  IN  /\ branch \notin ParentPath(branch)
      /\ row.forkSegment # None => BranchOfScene(row.forkSegment) \in ParentPath(branch)
      /\ row.forkChoice # None
           => BranchOfScene(choices[row.forkChoice].segment) \in ParentPath(branch)
      /\ row.head # None
           => BranchOfScene(row.head) \in ParentPath(branch) \cup {branch}

-----------------------------------------------------------------------------
(* Property *)

\* No trigger ever refuses a scene, a selection or a fork of the repository
\* halfway through its transaction: whatever the interleaving of late scenes,
\* activations and forks, each branch row that was written forks at a scene of
\* its ancestors, by a choice of that scene, and continues with a scene of its
\* own or of its ancestors.
SchemaAccepts ==
  \A branch \in DOMAIN branches :
    ForkChoiceMatchesSegment(branch) /\ BranchPathReferences(branch)

=============================================================================
