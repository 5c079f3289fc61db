----------------------------- MODULE MCCoordinator -----------------------------
(***************************************************************************)
(* Instances of the coordinator for TLC.                                   *)
(***************************************************************************)
EXTENDS Coordinator, TLC

CONSTANTS w1, w2, repo, sub

\* Two workflows in one repository, one of them in a subdirectory of it.
SameRepoCwd      == (w1 :> repo) @@ (w2 :> sub)
SameRepoToplevel == (repo :> repo) @@ (sub :> repo)

\* The same workflows when the subdirectory is a repository of its own.
TwoReposToplevel == (repo :> repo) @@ (sub :> sub)

\* A single workflow.
OneCwd      == w1 :> repo
OneToplevel == repo :> repo

RunSymmetry == Permutations(Runs)

\* With two repositories, exchanging the workflows together with their directories
\* leaves CwdOf and Toplevel as they are.
RepositorySymmetry ==
  RunSymmetry \cup {(w1 :> w2) @@ (w2 :> w1) @@ (repo :> sub) @@ (sub :> repo)}
================================================================================
