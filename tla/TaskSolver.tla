----------------------------- MODULE TaskSolver -----------------------------
(***************************************************************************)
(* What the rest of deepsolver relies on when it calls                     *)
(* AbstractTaskSolver::solve(): one answer to one user task, or an         *)
(* exception, and an answer that OsIntegrity would accept.                 *)
(***************************************************************************)
EXTENDS OsIntegrity

CONSTANTS
  Scopes,   \* the scopes a task may be solved in
  Tasks     \* the user tasks

VARIABLES
  userTask,  \* the task
  outcome,   \* "working", "answered" or "refused"
  install,   \* the VarIds to install
  remove     \* the VarIds to remove

vars == <<scope, userTask, outcome, install, remove>>

-----------------------------------------------------------------------------
SystemAfter(I, R) == (scope.installed \ R) \union I

\* Some package asked for by each item is there, none with a name to remove.
Honoured(pkgs) ==
  /\ \A item \in userTask.itemsToInstall : checkRequire(item, pkgs)
  /\ \A v \in pkgs : scope.name[v] \notin userTask.namesToRemove

\* No require gets broken; what is added fits in; one version of a package.
Sound(I, pkgs) ==
  /\ RequiresMet(scope.installed) => RequiresMet(pkgs)
  /\ ConflictsMet(I, pkgs)
  /\ \A v \in I : VersionsOf(v) \intersect pkgs = {v}

Acceptable(I, R) ==
  /\ I \subseteq Var \ scope.installed
  /\ R \subseteq scope.installed
  /\ Honoured(SystemAfter(I, R))
  /\ Sound(I, SystemAfter(I, R))

-----------------------------------------------------------------------------
Init ==
  /\ scope \in Scopes
  /\ userTask \in Tasks
  /\ outcome = "working"
  /\ install = {}
  /\ remove = {}

\* solve() returns with the two lists.
Answer ==
  /\ outcome = "working"
  /\ outcome' = "answered"
  /\ install' \in SUBSET Var
  /\ remove' \in SUBSET Var
  /\ Acceptable(install', remove')
  /\ UNCHANGED <<scope, userTask>>

\* solve() throws TaskException, or an assert stops the program.
Refuse ==
  /\ outcome = "working"
  /\ outcome' = "refused"
  /\ UNCHANGED <<scope, userTask, install, remove>>

Next == Answer \/ Refuse

Spec == Init /\ [][Next]_vars

=============================================================================
