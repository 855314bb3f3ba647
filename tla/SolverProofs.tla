---------------------------- MODULE SolverProofs ----------------------------
(***************************************************************************)
(* Theorems about Solver: the asserts of doMainWork() hold whatever        *)
(* solutions libminisat finds, the upgrades it has added are installed in  *)
(* place of the old versions, and solve() implements its contract          *)
(* TaskSolver, for every scope and every task.                             *)
(*                                                                         *)
(* The main point is that filterSolution() never breaks a solution it      *)
(* strips of changes.  A pass rolls back the changed packages that the     *)
(* user task and the updates do not lead to.  A clause of a package that   *)
(* is unchanged then holds by what it says of the package itself.  One of  *)
(* a package still changed has a true literal without a mark, and the      *)
(* package of that literal is not rolled back either: it is an unchanged   *)
(* one, or unmarked, and then the search reaches it from the first.        *)
(***************************************************************************)
EXTENDS Solver, EquationProofs

-----------------------------------------------------------------------------
(***************************************************************************)
(* What build() hands over, beyond the equation                            *)
(***************************************************************************)

\* Each clause of a package holds as long as the package stays as it is.
Shaped(v, c) == IF v \in scope.installed THEN Pos(v) \in c ELSE Neg(v) \in c
ClauseShape == \A v \in Var : \A c \in sat[v] : Shaped(v, c)

\* What RefCountedEntry::replacementFor may say of v.
Replaces(v, u) == u # BadVarId => u \in scope.installed /\ u # v /\ scope.name[u] = scope.name[v]

\* Only packages not installed replace one, and only an installed one; so do
\* those the calls in progress are about to set down.
ReplacementInv ==
  /\ \A v \in Var : /\ Replaces(v, replacementFor[v])
                    /\ replacementFor[v] # BadVarId => v \notin scope.installed
  /\ \A f \in ToSet(stack) : Replaces(f.var, f.repl)

\* The VarIds of the task stand for what the user asked for; those build()
\* has dropped because the table has no entry for them are so anyway.
AskedInv ==
  /\ Building =>
       /\ \A item \in userTask.itemsToInstall : \E v \in userTaskInstall : matches(item, v)
       /\ \A v \in Var : scope.name[v] \in userTask.namesToRemove => v \in userTaskRemove
  /\ phase = "built" =>
       /\ \A item \in userTask.itemsToInstall : \E v \in Surely : matches(item, v)
       /\ \A v \in Var : scope.name[v] \in userTask.namesToRemove =>
            v \in userTaskRemove \/ v \notin scope.installed \union hasEntry

\* A visit to v writes clauses of v only.
LEMMA NewClausesShaped ==
  ASSUME TypeOK, ClauseShape, UNCHANGED scope, NEW v \in Var, NEW new,
         \A c \in new : Shaped(v, c),
         \/ UNCHANGED sat
         \/ sat' = [sat EXCEPT ![v] = new]
         \/ sat' = [sat EXCEPT ![v] = @ \union new]
  PROVE  ClauseShape'
<1>1. ASSUME NEW u \in Var, NEW c \in sat'[u]
      PROVE  Shaped(u, c)
  <2>1. c \in sat[u] \/ (u = v /\ c \in new)
    BY DEF TypeOK
  <2> QED
    BY <2>1 DEF ClauseShape
<1> QED
  BY <1>1 DEF ClauseShape, Shaped

\* The clauses written about a package that may be installed or removed.
LEMMA ClausesShaped ==
  ASSUME NEW v, NEW w, NEW A
  PROVE  /\ v \notin scope.installed => /\ Shaped(v, uninstallable(v))
                                        /\ Shaped(v, onConflict(v, w))
                                        /\ Shaped(v, onRequire(v, A))
         /\ v \in scope.installed => /\ Shaped(v, unremovable(v))
                                     /\ Shaped(v, onDependent(v, w, A))
BY DEF Shaped, uninstallable, unremovable, onConflict, onRequire, onDependent

LEMMA VisitShapesClauses ==
  ASSUME TypeOK, WritingInv, ClauseShape, toBeInstalled \/ toBeRemoved
  PROVE  ClauseShape'
<1> USE DEF taskVars, tableVars
<1>1. ASSUME NEW op \in {"install", "remove"}, NEW pc, pc # "enter", At(op, pc)
      PROVE  \E v \in Var : v = top.var /\ (v \in scope.installed <=> op = "remove")
  BY <1>1, VisitTypes, RunningCall
<1>2. CASE EndRequires \/ EndConflicts \/ EndInstall \/ Replace
  BY <1>2 DEF EndRequires, EndConflicts, EndInstall, Replace, ClauseShape, Shaped
<1>3. CASE BeginInstall
  <2>1. PICK v \in Var : v = top.var
    BY <1>1, <1>3 DEF BeginInstall
  <2>2. PICK new : new = {}
    OBVIOUS
  <2>3. sat' = [sat EXCEPT ![v] = new] /\ UNCHANGED scope /\ \A c \in new : Shaped(v, c)
    BY <1>3, <2>1, <2>2 DEF BeginInstall
  <2> QED
    BY <2>3, NewClausesShaped
<1>4. CASE BeginRemove
  <2>1. PICK v \in Var : v = top.var
    BY <1>1, <1>4 DEF BeginRemove
  <2>2. PICK new : new = {}
    OBVIOUS
  <2>3. sat' = [sat EXCEPT ![v] = new] /\ UNCHANGED scope /\ \A c \in new : Shaped(v, c)
    BY <1>4, <2>1, <2>2 DEF BeginRemove
  <2> QED
    BY <2>3, NewClausesShaped
<1>5. ASSUME NEW S, NEW v \in Var, v \notin scope.installed, Block(S, v), UNCHANGED scope
      PROVE  ClauseShape'
  <2> DEFINE new == {onConflict(v, w) : w \in S \ GermsAmong(S \ scope.installed)}
  <2>1. \A c \in new : Shaped(v, c)
    BY <1>5, ClausesShaped
  <2>2. sat' = [sat EXCEPT ![v] = @ \union new]
    BY <1>5 DEF Block
  <2> HIDE DEF new
  <2> QED
    BY <1>5, <2>1, <2>2, NewClausesShaped
<1>6. ASSUME NEW A, NEW last, NEW v \in Var, NEW clause, Shaped(v, clause),
             RequireClause(v, A, last, clause), UNCHANGED scope
      PROVE  ClauseShape'
  <2>1. PICK new : new = {clause}
    OBVIOUS
  <2>2. UNCHANGED sat \/ sat' = [sat EXCEPT ![v] = @ \union new]
    BY <1>6, <2>1 DEF RequireClause
  <2>3. \A c \in new : Shaped(v, c)
    BY <1>6, <2>1
  <2> QED
    BY <1>6, <2>2, <2>3, NewClausesShaped
<1>7. ASSUME NEW v \in Var, NEW clause, Shaped(v, clause), GiveUp(v, clause), UNCHANGED scope
      PROVE  ClauseShape'
  <2>1. PICK new : new = {clause}
    OBVIOUS
  <2>2. sat' = [sat EXCEPT ![v] = new] /\ \A c \in new : Shaped(v, c)
    BY <1>7, <2>1 DEF GiveUp
  <2> QED
    BY <1>7, <2>2, NewClausesShaped
<1>8. CASE BlockOtherVersions
  <2>1. PICK v \in Var : v = top.var /\ v \notin scope.installed
    BY <1>1, <1>8 DEF BlockOtherVersions
  <2>2. \/ GiveUp(v, uninstallable(v))
        \/ \E S : Block(S, v)
    BY <1>8, <2>1 DEF BlockOtherVersions
  <2> QED
    BY <1>5, <1>7, <1>8, <2>1, <2>2, ClausesShaped DEF BlockOtherVersions
<1>9. ASSUME NEW o \in loop, Require(o)
      PROVE  ClauseShape'
  <2>1. PICK v \in Var : v = top.var /\ v \notin scope.installed
    BY <1>1, <1>9 DEF Require
  <2>2. \/ UNCHANGED sat
        \/ GiveUp(v, uninstallable(v))
        \/ \E A : RequireClause(v, A, <<>>, onRequire(v, A))
    BY <1>9, <2>1 DEF Require
  <2>3. UNCHANGED sat => ClauseShape'
    BY <1>9 DEF Require, ClauseShape, Shaped
  <2> QED
    BY <1>6, <1>7, <1>9, <2>1, <2>2, <2>3, ClausesShaped DEF Require
<1>10. ASSUME NEW o \in loop, Conflict(o)
       PROVE  ClauseShape'
  <2>1. PICK v \in Var : v = top.var /\ v \notin scope.installed
    BY <1>1, <1>10 DEF Conflict
  <2>2. \/ GiveUp(v, uninstallable(v))
        \/ \E S : Block(S, v)
    BY <1>10, <2>1 DEF Conflict
  <2> QED
    BY <1>5, <1>7, <1>10, <2>1, <2>2, ClausesShaped DEF Conflict
<1>11. ASSUME NEW o \in loop, InstalledConflict(o)
       PROVE  ClauseShape'
  <2>1. PICK v \in Var : v = top.var /\ v \notin scope.installed
    BY <1>1, <1>11 DEF InstalledConflict
  <2>2. PICK new : new = {onConflict(v, o.owner)}
    OBVIOUS
  <2>3. \/ GiveUp(v, uninstallable(v))
        \/ UNCHANGED sat
        \/ sat' = [sat EXCEPT ![v] = @ \union new]
    BY <1>11, <2>1, <2>2 DEF InstalledConflict
  <2>4. UNCHANGED scope
    BY <1>11 DEF InstalledConflict
  <2>5. \A c \in new : Shaped(v, c)
    BY <2>1, <2>2, ClausesShaped
  <2>6. GiveUp(v, uninstallable(v)) => ClauseShape'
    BY <1>7, <2>1, <2>4, ClausesShaped
  <2> QED
    BY <2>3, <2>4, <2>5, <2>6, NewClausesShaped
<1>12. ASSUME NEW o \in loop, Dependent(o)
       PROVE  ClauseShape'
  <2>1. PICK v \in Var : v = top.var /\ v \in scope.installed
    BY <1>1, <1>12 DEF Dependent
  <2>2. \/ UNCHANGED sat
        \/ GiveUp(v, unremovable(v))
        \/ \E A : RequireClause(v, A, <<o.owner>>, onDependent(v, o.owner, A))
    BY <1>12, <2>1 DEF Dependent
  <2>3. UNCHANGED sat => ClauseShape'
    BY <1>12 DEF Dependent, ClauseShape, Shaped
  <2> QED
    BY <1>6, <1>7, <1>12, <2>1, <2>2, <2>3, ClausesShaped DEF Dependent
<1> QED
  BY <1>2, <1>3, <1>4, <1>8, <1>9, <1>10, <1>11, <1>12 DEF toBeInstalled, toBeRemoved

\* Where the calls of a stack come from: they were there, go on for the same
\* package, replace nothing, or replace the package being removed.
LEMMA CallsOfStep ==
  ASSUME TypeOK, WritingInv, Next, NEW f \in ToSet(stack')
  PROVE  \/ f \in ToSet(stack)
         \/ f.repl = BadVarId
         \/ stack # <<>> /\ top \in ToSet(stack) /\ f.var = top.var /\ f.repl = top.repl
         \/ stack # <<>> /\ f.repl = top.var /\ f.var # top.var /\ top.var \in scope.installed
              /\ scope.name[f.var] = scope.name[top.var]
<1> USE DEF taskVars, tableVars
<1> DEFINE Known == \/ f \in ToSet(stack)
                    \/ f.repl = BadVarId
                    \/ stack # <<>> /\ top \in ToSet(stack) /\ f.var = top.var /\ f.repl = top.repl
                    \/ stack # <<>> /\ f.repl = top.var /\ f.var # top.var /\ top.var \in scope.installed
                         /\ scope.name[f.var] = scope.name[top.var]
<1>1. stack \in Seq(Frame) /\ ToSet(<<>>) = {}
  BY DEF TypeOK, ToSet
<1>2. stack # <<>> => /\ top \in Frame /\ Tail(stack) \in Seq(Frame)
                      /\ ToSet(stack) = {top} \union ToSet(Tail(stack))
  BY <1>1, TopOfStack, CallsInProgress
<1>3. ASSUME NEW g \in Frame, stack # <<>>, stack' = <<g>> \o Tail(stack)
      PROVE  f = g \/ Known
  <2>1. PICK rest \in Seq(Frame) : rest = Tail(stack)
    BY <1>2, <1>3
  <2>2. ToSet(<<g>> \o rest) = {g} \union ToSet(rest)
    BY CallsWithNewTop
  <2>3. f = g \/ f \in ToSet(Tail(stack))
    BY <1>3, <2>1, <2>2
  <2> QED
    BY <1>2, <1>3, <2>3
<1>4. CASE stack' = stack \/ (stack # <<>> /\ stack' = Tail(stack))
  BY <1>2, <1>4
<1>5. ASSUME NEW next, NEW todo, stack # <<>>, Goto(next, todo), next \in {"others", "requires",
               "conflicts", "installedConflicts", "dependents"}, todo \subseteq OwnedRel
      PROVE  Known
  <2>1. PICK g : g = [top EXCEPT !.pc = next, !.todo = todo]
    OBVIOUS
  <2>2. g \in Frame /\ g.var = top.var /\ g.repl = top.repl
    BY <1>2, <1>5, <2>1 DEF Frame
  <2> QED
    BY <1>2, <1>3, <1>5, <2>1, <2>2 DEF Goto
<1>6. ASSUME NEW v \in Var, stack' = <<>> \/ stack' = <<CallFor(v)>>
      PROVE  Known
  <2>1. PICK g : g = CallFor(v)
    OBVIOUS
  <2>2. ToSet(<<g>>) = {g}
    BY DEF ToSet
  <2>3. g.repl = BadVarId
    BY <2>1 DEF CallFor, Call
  <2>4. f \in ToSet(<<>>) \/ f \in ToSet(<<g>>)
    BY <1>6, <2>1
  <2> QED
    BY <1>1, <2>2, <2>3, <2>4
<1>7. ASSUME NEW o \in loop, NEW op, NEW pc \in {"requires", "conflicts", "installedConflicts", "dependents"},
             At(op, pc), NextIteration(o)
      PROVE  Known
  BY <1>5, <1>7, VisitTypes DEF NextIteration
<1>8. CASE OnUserTask \/ EndOfUserTask("install", "remove", userTaskRemove)
             \/ EndOfUserTask("remove", "pending", {}) \/ FinishBuild \/ AssertFails
  BY <1>4, <1>8 DEF OnUserTask, EndOfUserTask, FinishBuild, AssertFails
<1>9. CASE NextOfUserTask("install", "install") \/ NextOfUserTask("remove", "remove")
  BY <1>4, <1>6, <1>9 DEF NextOfUserTask, TypeOK
<1>10. CASE OnPending
  <2>1. pending[Len(pending)] \in Var
    BY <1>10 DEF OnPending, TypeOK
  <2> QED
    BY <1>4, <1>6, <1>10, <2>1 DEF OnPending
<1>11. CASE Enter
  <2>1. PICK g : g = [top EXCEPT !.pc = "reconstruct", !.calls = reconstruct[top.var]]
    OBVIOUS
  <2>2. g \in Frame /\ g.var = top.var /\ g.repl = top.repl
    BY <1>2, <1>11, <2>1 DEF Enter, Frame, TypeOK
  <2> QED
    BY <1>2, <1>3, <1>11, <2>1, <2>2 DEF Enter
<1>12. CASE Reconstruct
  <2>1. PICK g : g = [top EXCEPT !.calls = Tail(top.calls)]
    OBVIOUS
  <2>2. PICK h : h = CallFor(Head(top.calls))
    OBVIOUS
  <2>3. /\ stack # <<>> /\ top.calls # <<>> /\ top.calls \in Seq(Var)
        /\ stack' = stack \/ stack' = <<h, g>> \o Tail(stack)
    BY <1>2, <1>12, <2>1, <2>2 DEF Reconstruct, Frame
  <2>4. /\ g \in Frame /\ g.var = top.var /\ g.repl = top.repl
        /\ h \in Frame /\ h.repl = BadVarId
    <3>1. Head(top.calls) \in Var /\ Tail(top.calls) \in Seq(Var)
      BY <2>3, HeadTailProperties
    <3> QED
      BY <1>2, <2>1, <2>2, <2>3, <3>1, CallForType DEF Frame, CallFor, Call
  <2>5. ToSet(<<h, g>> \o Tail(stack)) = {h, g} \union ToSet(Tail(stack))
    <3> DEFINE s == <<h, g>>
    <3>1. s \in Seq(Frame) /\ DOMAIN s = {1, 2} /\ s[1] = h /\ s[2] = g
      BY <2>4
    <3> HIDE DEF s
    <3>2. Range(s \o Tail(stack)) = Range(s) \union Range(Tail(stack))
      <4>1. PICK rest \in Seq(Frame) : rest = Tail(stack)
        BY <1>2, <2>3
      <4>2. Range(s \o rest) = Range(s) \union Range(rest)
        BY <3>1, RangeConcatenation
      <4> QED
        BY <4>1, <4>2
    <3>3. ToSet(s \o Tail(stack)) = Range(s \o Tail(stack)) /\ ToSet(Tail(stack)) = Range(Tail(stack))
      BY DEF ToSet, Range
    <3>4. Range(s) = {h, g}
      BY <3>1 DEF Range
    <3> QED
      BY <3>2, <3>3, <3>4 DEF s
  <2> QED
    BY <1>2, <1>4, <2>3, <2>4, <2>5
<1>13. CASE BeginInstall \/ BeginRemove
  <2>1. top.var \in Var /\ scope \in PkgScopeType /\ stack # <<>>
    BY <1>13, VisitTypes DEF BeginInstall, BeginRemove
  <2>2. whatDependAmongInstalled(top.var) \subseteq OwnedRel
    BY <2>1, ScopeTypes
  <2> QED
    BY <1>5, <1>13, <2>1, <2>2 DEF BeginInstall, BeginRemove
<1>14. CASE BlockOtherVersions
  <2>1. top.var \in Var /\ scope \in PkgScopeType /\ stack # <<>>
    BY <1>14, VisitTypes DEF BlockOtherVersions
  <2>2. RelsOf(top.var, getRequires(top.var)) \subseteq OwnedRel
    BY <2>1, ScopeTypes
  <2> QED
    BY <1>4, <1>5, <1>14, <2>1, <2>2 DEF BlockOtherVersions, GiveUp, Return
<1>15. CASE EndRequires \/ EndConflicts \/ EndInstall
  <2>1. top.var \in Var /\ scope \in PkgScopeType /\ stack # <<>>
    BY <1>15, VisitTypes DEF EndRequires, EndConflicts, EndInstall
  <2>2. /\ RelsOf(top.var, getConflicts(top.var)) \subseteq OwnedRel
        /\ whatConflictAmongInstalled(top.var) \subseteq OwnedRel
    BY <2>1, ScopeTypes
  <2> QED
    BY <1>4, <1>5, <1>15, <2>1, <2>2 DEF EndRequires, EndConflicts, EndInstall, Return
<1>16. ASSUME NEW o \in loop, Require(o) \/ Conflict(o) \/ InstalledConflict(o) \/ Dependent(o)
       PROVE  Known
  <2>1. \/ UNCHANGED stack
        \/ stack # <<>> /\ stack' = Tail(stack)
        \/ At("install", "requires") /\ NextIteration(o)
        \/ At("install", "conflicts") /\ NextIteration(o)
        \/ At("install", "installedConflicts") /\ NextIteration(o)
        \/ At("remove", "dependents") /\ NextIteration(o)
    BY <1>16 DEF Require, Conflict, InstalledConflict, Dependent, GiveUp, Return, At
  <2> QED
    BY <1>4, <1>7, <2>1
<1>17. CASE Replace
  <2>1. /\ stack # <<>> /\ top.var \in scope.installed /\ top.var \in Var
    BY <1>17, RunningCall, VisitTypes DEF Replace
  <2>2. \/ stack' = Tail(stack)
        \/ \E r \in VersionsOf(top.var) \ {top.var} : stack' = <<Call("install", r, top.var)>> \o Tail(stack)
    BY <1>17 DEF Replace, Return, selectTheNewest
  <2>3. ASSUME NEW r \in VersionsOf(top.var) \ {top.var},
               stack' = <<Call("install", r, top.var)>> \o Tail(stack)
        PROVE  Known
    <3>1. PICK g : g = Call("install", r, top.var)
      OBVIOUS
    <3>2. g \in Frame /\ g.var = r /\ g.repl = top.var
      BY <2>1, <2>3, <3>1, EmptySeq DEF Call, Frame, VersionsOf
    <3>3. f = g \/ Known
      BY <1>3, <2>1, <2>3, <3>1, <3>2
    <3> QED
      BY <2>1, <2>3, <3>2, <3>3 DEF VersionsOf
  <2> QED
    BY <1>4, <2>1, <2>2, <2>3
<1> QED
  BY <1>8, <1>9, <1>10, <1>11, <1>12, <1>13, <1>14, <1>15, <1>16, <1>17
     DEF Next, toBeInstalled, toBeRemoved

LEMMA NextKeepsClauseShape ==
  ASSUME TypeOK, WritingInv, ClauseShape, Next
  PROVE  ClauseShape'
<1> USE DEF taskVars, tableVars
<1>1. CASE toBeInstalled \/ toBeRemoved
  BY <1>1, VisitShapesClauses
<1>2. CASE ~ (toBeInstalled \/ toBeRemoved)
  <2>1. UNCHANGED <<scope, sat>>
    BY <1>2 DEF Next, OnUserTask, NextOfUserTask, EndOfUserTask, OnPending, FinishBuild,
                AssertFails, Enter, Reconstruct
  <2> QED
    BY <2>1 DEF ClauseShape, Shaped
<1> QED
  BY <1>1, <1>2

\* The scope and the task never change, and only toBeInstalled() sets down
\* what is replaced.
LEMMA StepsKeep ==
  ASSUME Next
  PROVE  UNCHANGED <<scope, userTask>> /\ (UNCHANGED replacementFor \/ BeginInstall)
<1> USE DEF taskVars, tableVars
<1>1. ASSUME NEW o, Require(o) \/ Conflict(o) \/ InstalledConflict(o) \/ Dependent(o)
      PROVE  UNCHANGED <<scope, userTask, replacementFor>>
  BY <1>1 DEF Require, Conflict, InstalledConflict, Dependent
<1>2. toBeInstalled => UNCHANGED <<scope, userTask>> /\ (UNCHANGED replacementFor \/ BeginInstall)
  BY <1>1 DEF toBeInstalled, BeginInstall, BlockOtherVersions, EndRequires, EndConflicts, EndInstall
<1>3. toBeRemoved => UNCHANGED <<scope, userTask, replacementFor>>
  BY <1>1 DEF toBeRemoved, BeginRemove, Replace
<1> QED
  BY <1>2, <1>3 DEF Next, OnUserTask, NextOfUserTask, EndOfUserTask, OnPending, FinishBuild,
                    AssertFails, Enter, Reconstruct

LEMMA NextKeepsReplacements ==
  ASSUME TypeOK, WritingInv, ReplacementInv, Next
  PROVE  ReplacementInv'
<1>1. UNCHANGED scope
  BY StepsKeep
<1>2. stack # <<>> => top \in ToSet(stack)
  BY CallsInProgress
<1>3. \A v \in Var : /\ Replaces(v, replacementFor'[v])
                     /\ replacementFor'[v] # BadVarId => v \notin scope.installed
  <2>1. CASE UNCHANGED replacementFor
    BY <2>1 DEF ReplacementInv
  <2>2. CASE BeginInstall
    <3>1. PICK v \in Var : v = top.var /\ v \notin scope.installed
      BY <2>2, RunningCall DEF BeginInstall
    <3>2. replacementFor' = [replacementFor EXCEPT ![v] = IF @ = BadVarId THEN top.repl ELSE @]
      BY <2>2, <3>1 DEF BeginInstall
    <3>3. Replaces(v, top.repl)
      BY <1>2, <2>2, <3>1 DEF ReplacementInv, BeginInstall, At
    <3> QED
      BY <3>1, <3>2, <3>3 DEF ReplacementInv, TypeOK
  <2> QED
    BY <2>1, <2>2, StepsKeep
<1>4. ASSUME NEW f \in ToSet(stack')
      PROVE  Replaces(f.var, f.repl)
  BY <1>2, CallsOfStep DEF ReplacementInv, Replaces
<1> QED
  BY <1>1, <1>3, <1>4 DEF ReplacementInv, Replaces

LEMMA NextKeepsAsked ==
  ASSUME TypeOK, UserTaskInv, TaskRemovalInv, AskedInv, Next
  PROVE  AskedInv'
<1> USE DEF taskVars, tableVars
<1>1. UNCHANGED <<scope, userTask>>
  BY StepsKeep
<1>2. \A r, v : matches(r, v)' <=> matches(r, v)
  BY <1>1 DEF matches
<1>3. CASE OnUserTask
  <2>1. phase' = "thrown" \/ phase' = "install"
    BY <1>3 DEF OnUserTask, Stop
  <2>2. CASE phase' = "install"
    <3>1. PICK choice \in [userTask.itemsToInstall -> Var] :
            LET chosen == {choice[item] : item \in userTask.itemsToInstall}
            IN  /\ \A item \in userTask.itemsToInstall :
                     choice[item] \in onUserItemToInstall(item)
                /\ userTaskInstall' = chosen
                /\ userTaskRemove' = toRemoveFor(chosen)
      BY <1>3, <2>2 DEF OnUserTask, Stop
    <3>2. ASSUME NEW item \in userTask.itemsToInstall
          PROVE  choice[item] \in userTaskInstall' /\ matches(item, choice[item])
      <4>1. choice[item] \in onUserItemToInstall(item)
        BY <3>1
      <4>2. choice[item] \in selectMatchingVarsRealNames(item) \union selectMatchingVarsProvidesOnly(item)
        BY <4>1 DEF onUserItemToInstall, selectTheNewest, byProvidesPriorityList
      <4> QED
        BY <3>1, <4>2 DEF selectMatchingVarsRealNames, selectMatchingVarsProvidesOnly,
                          MatchesByName, MatchesByProvide, matches
    <3>3. \A v \in Var : scope.name[v] \in userTask.namesToRemove => v \in userTaskRemove'
      BY <3>1 DEF toRemoveFor, pkgIdOfVarId
    <3> QED
      BY <1>1, <1>2, <2>2, <3>2, <3>3 DEF AskedInv
  <2> QED
    BY <2>1, <2>2 DEF AskedInv, Building
<1>4. CASE FinishBuild
  <2>1. /\ Building /\ phase = "pending" /\ phase' \in {"built", "abort"}
        /\ userTaskInstall' = userTaskInstall \intersect hasEntry
        /\ userTaskRemove' = userTaskRemove \intersect hasEntry
    BY <1>4 DEF FinishBuild, Building, Stop
  <2>2. phase' = "built" => hasEntry' = FullEntry
    BY <1>4 DEF FinishBuild, Stop
  <2>3. /\ userTaskRemove \intersect scope.installed \subseteq FullEntry
        /\ userTaskInstall \ scope.installed \subseteq FullEntry
        /\ hasEntry \intersect userTaskInstall \intersect scope.installed = {}
        /\ FullEntry \subseteq hasEntry
    BY <2>1 DEF TaskRemovalInv, UserTaskInv, FullEntry
  <2>4. phase' = "built" => \A v \in userTaskInstall : v \in Surely'
    BY <1>1, <2>1, <2>2, <2>3 DEF Surely
  <2>5. phase' = "built" => \A v \in userTaskRemove :
          v \in userTaskRemove' \/ v \notin scope.installed \union hasEntry'
    BY <2>1, <2>2, <2>3
  <2> QED
    BY <1>1, <1>2, <2>1, <2>4, <2>5 DEF AskedInv, Building
<1>5. CASE ~ (OnUserTask \/ FinishBuild)
  <2>1. toBeInstalled \/ toBeRemoved => /\ UNCHANGED <<userTaskInstall, userTaskRemove>>
                                       /\ phase' \in {phase, "thrown"} /\ Building
    BY VisitMakesGoodGerms
  <2>2. /\ UNCHANGED <<userTaskInstall, userTaskRemove>>
        /\ phase' \in {phase, "remove", "pending", "thrown", "abort"} /\ Building
    BY <1>5, <2>1 DEF Next, NextOfUserTask, EndOfUserTask, OnPending, AssertFails, Enter,
                      Reconstruct, Stop, Building
  <2> QED
    BY <1>1, <1>2, <2>2 DEF AskedInv, Building
<1> QED
  BY <1>3, <1>4, <1>5

\* What build() hands over, along any of its steps.
LEMMA HandoverAlways == BuildSteps => [](ClauseShape /\ ReplacementInv /\ AskedInv)
<1>1. Init => ClauseShape /\ ReplacementInv /\ AskedInv
  <2> SUFFICES ASSUME Init PROVE ClauseShape /\ ReplacementInv /\ AskedInv
    OBVIOUS
  <2>1. ToSet(stack) = {}
    <3>1. stack = <<>>
      BY DEF Init
    <3> QED
      BY <3>1 DEF ToSet
  <2>2. AskedInv
    BY DEF Init, AskedInv, Building
  <2>3. ReplacementInv
    BY <2>1 DEF Init, ReplacementInv, Replaces
  <2> QED
    BY <2>2, <2>3 DEF Init, ClauseShape
<1>2. /\ TypeOK /\ UserTaskInv /\ WritingInv /\ TaskRemovalInv
      /\ ClauseShape /\ ReplacementInv /\ AskedInv /\ [Next]_vars
      => (ClauseShape /\ ReplacementInv /\ AskedInv)'
  <2> SUFFICES ASSUME TypeOK, UserTaskInv, WritingInv, TaskRemovalInv,
                      ClauseShape, ReplacementInv, AskedInv, [Next]_vars
               PROVE  (ClauseShape /\ ReplacementInv /\ AskedInv)'
    OBVIOUS
  <2>1. CASE Next
    BY <2>1, NextKeepsClauseShape, NextKeepsReplacements, NextKeepsAsked
  <2>2. CASE UNCHANGED vars
    <3>1. \A r, v : matches(r, v)' <=> matches(r, v)
      BY <2>2 DEF vars, taskVars, matches
    <3>2. AskedInv'
      BY <2>2, <3>1 DEF vars, taskVars, tableVars, AskedInv, Building, Surely
    <3> QED
      BY <2>2, <3>2 DEF vars, taskVars, tableVars, ClauseShape, Shaped, ReplacementInv, Replaces
  <2> QED
    BY <2>1, <2>2
<1> QED
  BY <1>1, <1>2, TypesAlways, UserTaskAlways, WritingAlways, BuiltAlways, PTL DEF BuildSteps

-----------------------------------------------------------------------------
(***************************************************************************)
(* solve() on top of build()                                               *)
(***************************************************************************)

\* No action of doMainWork() touches the equation.
LEMMA SolverStep ==
  ASSUME [SolverNext]_allVars
  PROVE  [Next]_vars
BY DEF SolverNext, Build, BeginWork, InitialSolving, FilterPass, ExtendUpdates, FinalSolving,
       allVars, builderVars

LEMMA SolverBuilds == SolverSpec => BuildSteps
<1>1. SolverInit => Init
  BY DEF SolverInit
<1>2. [SolverNext]_allVars => [Next]_vars
  BY SolverStep
<1> QED
  BY <1>1, <1>2, PTL DEF SolverSpec, BuildSteps

\* What doMainWork() may rely on.
BuilderInv ==
  /\ TypeOK
  /\ UserTaskHasEntries
  /\ BuiltInv
  /\ ClauseShape
  /\ ReplacementInv
  /\ AskedInv
  /\ ModelsMeetRequires
  /\ ModelsMeetNewConflicts

LEMMA BuilderAlways == SolverSpec => []BuilderInv
<1>1. TypeOK /\ UserTaskInv /\ BuiltInv /\ ClauseShape /\ ReplacementInv /\ AskedInv => BuilderInv
  BY BuiltMeetsRequires, BuiltMeetsNewConflicts DEF BuilderInv, UserTaskInv
<1> QED
  BY <1>1, SolverBuilds, TypesAlways, UserTaskAlways, BuiltAlways, HandoverAlways, PTL

-----------------------------------------------------------------------------
(***************************************************************************)
(* Literals and solutions                                                  *)
(***************************************************************************)

Holds(S, l) == (l.var \in S) # l.neg

Differs(S, v) == (v \in oldState) # (v \in S)

\* A literal says of its package that it is there, or that it is not.
LEMMA LiteralSays ==
  ASSUME NEW S
  PROVE  /\ \A l : l.neg = FALSE => (Holds(S, l) <=> l.var \in S)
         /\ \A l : l.neg = TRUE => (Holds(S, l) <=> l.var \notin S)
<1>1. \A b \in BOOLEAN : (b # FALSE <=> b) /\ (b # TRUE <=> ~ b)
  OBVIOUS
<1>2. ASSUME NEW l
      PROVE  (((l.var \in S) # FALSE) <=> l.var \in S) /\ (((l.var \in S) # TRUE) <=> l.var \notin S)
  <2>1. (l.var \in S) \in BOOLEAN
    OBVIOUS
  <2> QED
    BY <1>1, <2>1, Zenon
<1>3. ASSUME NEW l, l.neg = FALSE
      PROVE  Holds(S, l) <=> l.var \in S
  BY <1>2, <1>3, Zenon DEF Holds
<1>4. ASSUME NEW l, l.neg = TRUE
      PROVE  Holds(S, l) <=> l.var \notin S
  BY <1>2, <1>4, Zenon DEF Holds
<1> HIDE DEF Holds
<1> QED
  BY <1>3, <1>4, Zenon

\* What the literals of a package say of it.
LEMMA PosAndNeg ==
  ASSUME NEW S, NEW v
  PROVE  /\ v \in S => Holds(S, Pos(v))
         /\ v \notin S => Holds(S, Neg(v))
         /\ Pos(v).var = v /\ Neg(v).var = v
<1>1. Pos(v).neg = FALSE /\ Pos(v).var = v /\ Neg(v).neg = TRUE /\ Neg(v).var = v
  BY DEF Pos, Neg
<1>2. v \in S => Holds(S, Pos(v))
  BY <1>1, LiteralSays, Zenon
<1>3. v \notin S => Holds(S, Neg(v))
  BY <1>1, LiteralSays, Zenon
<1> QED
  BY <1>1, <1>2, <1>3

LEMMA DiffersSays ==
  ASSUME NEW S, NEW v
  PROVE  Differs(S, v) <=> ~ (v \in oldState <=> v \in S)
<1>1. \A a, b \in BOOLEAN : a # b <=> ~ (a <=> b)
  OBVIOUS
<1>2. (v \in oldState) \in BOOLEAN /\ (v \in S) \in BOOLEAN
  OBVIOUS
<1> QED
  BY <1>1, <1>2, Zenon DEF Differs

\* The clauses of a package that stays as it is hold.
LEMMA UnchangedHolds ==
  ASSUME BuilderInv, NEW S, NEW v \in hasEntry, ~ Differs(S, v), NEW c \in sat[v]
  PROVE  Satisfies(S, c)
<1>1. Shaped(v, c) /\ v \in Var
  BY DEF BuilderInv, ClauseShape, TypeOK
<1>2. v \in scope.installed <=> v \in S
  BY DiffersSays DEF oldState
<1>3. \E l \in c : Holds(S, l)
  BY <1>1, <1>2, PosAndNeg DEF Shaped
<1> QED
  BY <1>3 DEF Satisfies, Holds

\* Nothing asked for and nothing changed is a solution.
LEMMA NothingToDo ==
  ASSUME BuilderInv, userTaskInstall \union userTaskRemove = {}
  PROVE  oldState \in Models
<1>1. \A v : ~ Differs(oldState, v)
  BY DiffersSays
<1> QED
  BY <1>1, UnchangedHolds DEF Models, oldState

-----------------------------------------------------------------------------
(***************************************************************************)
(* A pass of filterSolution()                                              *)
(***************************************************************************)

\* A literal that makes a clause of v true and along which v leads to others.
Unmarked(S, marks, v, c) ==
  \E l \in c : /\ Holds(S, l)
               /\ l.var = v \/ [entry |-> v, clause |-> c, lit |-> l] \notin marks

\* Each clause of a changed package has one.
Supported(S, marks) ==
  \A v \in hasEntry : Differs(S, v) => \A c \in sat[v] : Unmarked(S, marks, v, c)

\* The literals the filter prefers are true.
LEMMA CandidatesHold ==
  ASSUME BuilderInv, NEW v \in hasEntry, NEW c \in sat[v], NEW l \in KeepCandidates(v, c)
  PROVE  l \in c /\ l.var # v /\ Holds(newState, l)
<1>1. l \in OtherLits(v, c) /\ (\/ ~ l.neg /\ l.var \in newState
                                \/ l.neg /\ l.var \notin newState)
  BY DEF KeepCandidates
<1>2. l \in c /\ l.var # v
  BY <1>1 DEF OtherLits
<1>3. l.neg \in BOOLEAN
  BY <1>2 DEF BuilderInv, TypeOK, Lit
<1>4. \/ l.neg = FALSE /\ l.var \in newState
      \/ l.neg = TRUE /\ l.var \notin newState
  BY <1>1, <1>3
<1> QED
  BY <1>2, <1>4, LiteralSays

\* Of the marks of a clause of a package that is not idle, those of a pass
\* spare the one literal kept.
LEMMA NewMarks ==
  ASSUME NEW kept \in KeepChoices, NEW v, v \notin Idle, NEW c, NEW l,
         [entry |-> v, clause |-> c, lit |-> l] \in makeAmbiguousMarks(kept)
  PROVE  \E k \in kept :
           /\ k.entry = v /\ k.clause = c /\ k.lit # l
           /\ [entry |-> v, clause |-> c] \in OpenClauses
           /\ k.lit \in KeepCandidates(v, c)
           /\ \A j \in kept : j.entry = v /\ j.clause = c => j = k
<1> DEFINE m == [entry |-> v, clause |-> c, lit |-> l]
<1>1. m.entry = v /\ m.clause = c /\ m.lit = l
  OBVIOUS
<1>2. \A w, d, L : m \in LitsOf(w, d, L) => w = v /\ d = c /\ l \in L
  BY DEF LitsOf
<1>3. PICK k \in kept : m \in LitsOf(k.entry, k.clause, OtherLits(k.entry, k.clause) \ {k.lit})
  <2> DEFINE idleMarks == UNION {UNION {LitsOf(w, d, OtherLits(w, d)) : d \in sat[w]} : w \in Idle}
             marksOf(k) == LitsOf(k.entry, k.clause, OtherLits(k.entry, k.clause) \ {k.lit})
  <2>1. m \notin idleMarks
    BY <1>2
  <2>2. m \in makeAmbiguousMarks(kept)
    OBVIOUS
  <2> HIDE DEF m
  <2>3. m \in idleMarks \union UNION {marksOf(k) : k \in kept}
    BY <2>2, Zenon DEF makeAmbiguousMarks
  <2> HIDE DEF idleMarks, marksOf
  <2>4. \E k \in kept : m \in marksOf(k)
    BY <2>1, <2>3
  <2> QED
    BY <2>4 DEF marksOf
<1>4. k.entry = v /\ k.clause = c /\ k.lit # l
  BY <1>2, <1>3
<1>5. PICK o \in OpenClauses :
        /\ KeepCandidates(o.entry, o.clause) # {}
        /\ k \in LitsOf(o.entry, o.clause, KeepCandidates(o.entry, o.clause))
        /\ \E i \in kept : {j \in kept : j.entry = o.entry /\ j.clause = o.clause} = {i}
  BY DEF KeepChoices
<1>6. o.entry = v /\ o.clause = c /\ k.lit \in KeepCandidates(v, c)
  BY <1>4, <1>5 DEF LitsOf
<1>7. o = [entry |-> v, clause |-> c]
  BY <1>6 DEF OpenClauses
<1>8. \A j \in kept : j.entry = v /\ j.clause = c => j = k
  BY <1>4, <1>5, <1>6
<1> QED
  BY <1>4, <1>6, <1>7, <1>8

\* A supported clause keeps a support that the pass does not mark: a literal
\* that had none before, or the one kept.
LEMMA SupportStays ==
  ASSUME BuilderInv, Supported(newState, litMarks), NEW kept \in KeepChoices
  PROVE  Supported(newState, litMarks \union makeAmbiguousMarks(kept))
<1> DEFINE marks == litMarks \union makeAmbiguousMarks(kept)
<1> SUFFICES ASSUME NEW v \in hasEntry, Differs(newState, v), NEW c \in sat[v]
             PROVE  Unmarked(newState, marks, v, c)
  BY DEF Supported
<1>1. v \notin Idle
  BY DEF Idle, Changed, Differs
<1>2. PICK l \in c : /\ Holds(newState, l)
                     /\ l.var = v \/ [entry |-> v, clause |-> c, lit |-> l] \notin litMarks
  BY DEF Supported, Unmarked
<1>3. CASE [entry |-> v, clause |-> c, lit |-> l] \notin makeAmbiguousMarks(kept)
  BY <1>2, <1>3 DEF Unmarked
<1>4. CASE [entry |-> v, clause |-> c, lit |-> l] \in makeAmbiguousMarks(kept)
  <2>1. PICK k \in kept :
          /\ k.entry = v /\ k.clause = c /\ k.lit # l
          /\ [entry |-> v, clause |-> c] \in OpenClauses
          /\ k.lit \in KeepCandidates(v, c)
          /\ \A j \in kept : j.entry = v /\ j.clause = c => j = k
    BY <1>1, <1>4, NewMarks
  <2>2. PICK h : h = k.lit
    OBVIOUS
  <2>3. h \in c /\ h.var # v /\ Holds(newState, h)
    BY <2>1, <2>2, CandidatesHold
  <2>4. [entry |-> v, clause |-> c, lit |-> h] \notin litMarks
    <3>1. PICK o : o = [entry |-> v, clause |-> c]
      OBVIOUS
    <3>2. \A m \in litMarks : ~ (m.entry = v /\ m.clause = c)
      BY <2>1, <3>1 DEF OpenClauses
    <3> QED
      BY <3>2
  <2>5. [entry |-> v, clause |-> c, lit |-> h] \notin makeAmbiguousMarks(kept)
    BY <1>1, <2>1, <2>2, NewMarks
  <2> QED
    BY <2>3, <2>4, <2>5 DEF Unmarked
<1> QED
  BY <1>3, <1>4

\* The search follows the unmarked literals to the end.
Leads(amb, marks, v, w) ==
  /\ w \in hasEntry \ amb
  /\ \E c \in sat[v] : \E l \in OtherLits(v, c) :
       l.var = w /\ [entry |-> v, clause |-> c, lit |-> l] \notin marks

LEMMA BfsReaches ==
  ASSUME NEW amb, NEW marks
  PROVE  /\ seed \intersect hasEntry \subseteq Bfs(amb, marks)
         /\ \A v \in Bfs(amb, marks) : \A w : Leads(amb, marks, v, w) => w \in Bfs(amb, marks)
BY DEF Bfs, Leads

RolledBack(amb, marks) == {v \in hasEntry \ Bfs(amb, marks) : Differs(newState, v)}
Stripped(amb, marks) ==
  (newState \ RolledBack(amb, marks)) \union (RolledBack(amb, marks) \intersect oldState)

\* What is left when the changes the search has not reached are undone is a
\* solution, keeps what the search starts from, and is supported in its turn.
LEMMA RollbackKeepsSolution ==
  ASSUME BuilderInv, phase = "built", newState \in Models, NEW amb, NEW marks,
         Supported(newState, marks), \A v \in amb : ~ Differs(newState, v)
  PROVE  /\ Stripped(amb, marks) \in Models
         /\ newState \intersect seed \subseteq Stripped(amb, marks)
         /\ \A v \in amb : ~ Differs(Stripped(amb, marks), v)
         /\ Supported(Stripped(amb, marks), marks)
<1> DEFINE rolledBack == {v \in hasEntry \ Bfs(amb, marks) : Differs(newState, v)}
           S == (newState \ rolledBack) \union (rolledBack \intersect oldState)
<1>1. /\ newState \subseteq hasEntry /\ userTaskInstall \subseteq newState
      /\ userTaskRemove \intersect newState = {}
      /\ userTaskInstall \union userTaskRemove \subseteq hasEntry
      /\ userTaskInstall \union userTaskRemove \subseteq seed
  BY DEF Models, BuilderInv, UserTaskHasEntries, seed
<1>2. S \subseteq hasEntry
  BY <1>1
<1>3. \A v : v \notin rolledBack => (v \in S <=> v \in newState)
  OBVIOUS
<1>4. \A v : v \in rolledBack => (v \in S <=> v \in oldState)
  OBVIOUS
<1>5. \A v \in seed \intersect hasEntry : v \notin rolledBack
  BY BfsReaches
<1>6. ASSUME NEW v, Differs(S, v)
      PROVE  v \notin rolledBack /\ Differs(newState, v)
  BY <1>3, <1>4, <1>6, DiffersSays
<1>7. ASSUME NEW v \in hasEntry, Differs(S, v), NEW c \in sat[v]
      PROVE  Unmarked(S, marks, v, c)
  <2>1. PICK l \in c : /\ Holds(newState, l)
                       /\ l.var = v \/ [entry |-> v, clause |-> c, lit |-> l] \notin marks
    BY <1>6, <1>7 DEF Supported, Unmarked
  <2>2. l.var \in hasEntry
    BY <1>7 DEF BuilderInv, BuiltInv, LiteralsIn, TypeOK
  <2>3. v \in Bfs(amb, marks)
    BY <1>6, <1>7
  <2>4. l.var \notin rolledBack
    <3> SUFFICES ASSUME l.var \in rolledBack PROVE FALSE
      OBVIOUS
    <3>1. l.var # v /\ l.var \notin amb /\ l.var \notin Bfs(amb, marks)
      BY <1>6, <1>7
    <3>2. Leads(amb, marks, v, l.var)
      BY <2>1, <2>2, <3>1 DEF Leads, OtherLits
    <3> QED
      BY <2>3, <3>1, <3>2, BfsReaches
  <2>5. l.var \in S <=> l.var \in newState
    BY <1>3, <2>4
  <2>6. l.neg \in BOOLEAN
    BY <1>7 DEF BuilderInv, TypeOK, Lit
  <2>7. Holds(S, l)
    BY <2>1, <2>5, <2>6, LiteralSays
  <2> QED
    BY <2>1, <2>7 DEF Unmarked
<1>8. Supported(S, marks)
  BY <1>7 DEF Supported
<1>9. ASSUME NEW v \in hasEntry, NEW c \in sat[v]
      PROVE  Satisfies(S, c)
  <2>1. CASE Differs(S, v)
    BY <1>7, <1>9, <2>1 DEF Unmarked, Satisfies, Holds
  <2>2. CASE ~ Differs(S, v)
    BY <2>2, UnchangedHolds
  <2> QED
    BY <2>1, <2>2
<1>10. S \in Models
  BY <1>1, <1>2, <1>3, <1>5, <1>9 DEF Models
<1>11. newState \intersect seed \subseteq S
  BY <1>1, <1>3, <1>5
<1>12. \A v \in amb : ~ Differs(S, v)
  BY <1>6
<1>13. Stripped(amb, marks) = S
  BY DEF Stripped, RolledBack
<1> HIDE DEF S
<1> QED
  BY <1>8, <1>10, <1>11, <1>12, <1>13

-----------------------------------------------------------------------------
(***************************************************************************)
(* doMainWork()                                                            *)
(***************************************************************************)

\* A solution with the updates in it is being stripped or has been.
Solved == at \in {"initialFilter", "updateFilter", "finalFilter", "extend", "final"}
            \/ outcome = "answered"

\* The inductive invariant of doMainWork(): from the first solution on the new
\* states are one, with all the updates, and while it is filtered each change
\* that is left has its support.  A marked entry is an unchanged one.
SolverInv ==
  /\ at # "end" => outcome = ""
  /\ at \notin {"build", "end"} \/ outcome = "answered" => phase = "built"
  /\ at \in {"build", "initial"} => updates = {} /\ newUpdates = {} /\ ambiguous = {}
  /\ at = "build" => newState = {}
  /\ at = "initial" => newState = oldState
  /\ Solved => newState \in Models /\ updates \subseteq newState
  /\ Filtering \/ outcome = "answered" => \A v \in ambiguous : ~ Differs(newState, v)
  /\ Filtering => Supported(newState, litMarks)
  /\ at = "updateFilter" => newUpdates \subseteq newState
  /\ \A u \in newUpdates : replacementFor[u] \in oldState
  /\ SolverAssertsHold

\* The actions behind build() leave all of the equation alone.
LEMMA EquationStays ==
  ASSUME UNCHANGED builderVars
  PROVE  /\ oldState' = oldState /\ Models' = Models
         /\ UNCHANGED <<phase, hasEntry, sat, replacementFor>>
         /\ \A S, v : Differs(S, v)' = Differs(S, v)
         /\ \A S, marks : Supported(S, marks)' = Supported(S, marks)
BY DEF builderVars, vars, taskVars, tableVars, oldState, Models, Satisfies, Differs, Supported,
       Unmarked, Holds

\* What solveSat() returns is a solution with what is fixed.
LEMMA SolutionsFound ==
  ASSUME NEW fixed, NEW S \in solveSat(fixed)
  PROVE  /\ S \in Models /\ fixed \subseteq S /\ S \subseteq hasEntry
         /\ newStatesValid(S)
         /\ Supported(S, {})
<1>1. S \in Models /\ fixed \subseteq S
  BY DEF solveSat
<1>2. S \subseteq hasEntry /\ newStatesValid(S)
  BY <1>1 DEF Models, newStatesValid
<1>3. Supported(S, {})
  BY <1>2 DEF newStatesValid, Satisfies, Supported, Unmarked, Holds
<1> QED
  BY <1>1, <1>2, <1>3

\* A pass of filterSolution() keeps every variable in its type.
LEMMA PassKeepsTypes ==
  ASSUME BuilderInv, SolverTypeOK, NEW kept \in KeepChoices
  PROVE  makeAmbiguousMarks(kept) \subseteq Occurrence /\ Idle \subseteq hasEntry
<1>1. \A v \in hasEntry : \A c \in sat[v] : v \in Var /\ c \in SUBSET Lit
  BY DEF BuilderInv, TypeOK
<1>2. ASSUME NEW v \in hasEntry, NEW c \in sat[v], NEW L, L \subseteq OtherLits(v, c)
      PROVE  LitsOf(v, c, L) \subseteq Occurrence
  <2>1. L \subseteq Lit
    BY <1>1, <1>2 DEF OtherLits
  <2> QED
    BY <1>1, <2>1 DEF LitsOf, Occurrence
<1>3. ASSUME NEW k \in kept
      PROVE  k.entry \in hasEntry /\ k.clause \in sat[k.entry]
  <2>1. PICK o \in OpenClauses : k \in LitsOf(o.entry, o.clause, KeepCandidates(o.entry, o.clause))
    BY DEF KeepChoices
  <2>2. k.entry = o.entry /\ k.clause = o.clause
    BY <2>1 DEF LitsOf
  <2> QED
    BY <2>1, <2>2 DEF OpenClauses
<1>4. Idle \subseteq hasEntry
  BY DEF Idle
<1>5. \A v \in Idle : \A c \in sat[v] : LitsOf(v, c, OtherLits(v, c)) \subseteq Occurrence
  BY <1>2, <1>4
<1>6. \A k \in kept :
        LitsOf(k.entry, k.clause, OtherLits(k.entry, k.clause) \ {k.lit}) \subseteq Occurrence
  BY <1>2, <1>3
<1> DEFINE idleMarks(v) == UNION {LitsOf(v, c, OtherLits(v, c)) : c \in sat[v]}
           keptMarks(k) == LitsOf(k.entry, k.clause, OtherLits(k.entry, k.clause) \ {k.lit})
<1>7. \A v \in Idle : idleMarks(v) \subseteq Occurrence
  BY <1>5
<1>8. makeAmbiguousMarks(kept)
        = (UNION {idleMarks(v) : v \in Idle}) \union (UNION {keptMarks(k) : k \in kept})
  BY Zenon DEF makeAmbiguousMarks
<1> HIDE DEF idleMarks
<1> QED
  BY <1>4, <1>6, <1>7, <1>8

LEMMA NextKeepsSolverTypes ==
  ASSUME BuilderInv, BuilderInv', SolverTypeOK, SolverInv, SolverNext
  PROVE  SolverTypeOK'
<1> USE DEF markVars
<1>1. CASE Build
  <2>1. newState = {} /\ updates = {} /\ newUpdates = {} /\ ambiguous = {}
    BY <1>1 DEF Build, SolverInv
  <2>2. failure' \in Failure
    BY DEF BuilderInv, TypeOK
  <2>3. at' \in {at, "end"} /\ outcome' \in {outcome, failure'}
    BY <1>1 DEF Build, Finish
  <2> QED
    BY <1>1, <2>1, <2>2, <2>3 DEF Build, SolverTypeOK
<1>2. CASE ~ Build
  <2>1. UNCHANGED builderVars
    BY <1>2 DEF SolverNext, BeginWork, InitialSolving, FilterPass, ExtendUpdates, FinalSolving
  <2>2. hasEntry' = hasEntry /\ oldState \subseteq hasEntry
    BY <2>1, EquationStays DEF oldState
  <2>3. CASE BeginWork
    BY <2>2, <2>3 DEF BeginWork, Finish, SolverTypeOK
  <2>4. CASE InitialSolving
    BY <2>2, <2>4, SolutionsFound DEF InitialSolving, Finish, clearAllMarks, SolverTypeOK
  <2>5. CASE FilterPass
    <3>1. PICK kept \in KeepChoices :
            LET marks == litMarks \union makeAmbiguousMarks(kept)
                amb == ambiguous \union Idle
                rolledBack == {v \in hasEntry \ Bfs(amb, marks) : Changed(v)}
            IN  /\ ambiguous' = amb
                /\ litMarks' = marks
                /\ IF marks = litMarks \/ rolledBack = {} THEN FilterReturns
                   ELSE FilterContinues(rolledBack)
      BY <2>5 DEF FilterPass
    <3>2. ambiguous' \subseteq hasEntry /\ litMarks' \subseteq Occurrence
      BY <3>1, PassKeepsTypes DEF SolverTypeOK
    <3>3. CASE FilterReturns
      BY <2>2, <2>5, <3>2, <3>3 DEF FilterReturns, FilterPass, Filtering, Finish, SolverTypeOK
    <3>4. ASSUME NEW B, FilterContinues(B)
          PROVE  SolverTypeOK'
      BY <2>2, <3>2, <3>4 DEF FilterContinues, SolverTypeOK
    <3> QED
      BY <3>1, <3>3, <3>4
  <2>6. CASE ExtendUpdates
    <3>1. FoundUpdates \subseteq hasEntry
      BY DEF FoundUpdates
    <3>2. newUpdates' \subseteq hasEntry /\ updates \subseteq newUpdates'
      BY <2>6, <3>1 DEF ExtendUpdates, SolverTypeOK
    <3>3. newState' = newState \/ newState' \subseteq hasEntry
      BY <2>6, SolutionsFound DEF ExtendUpdates
    <3> QED
      BY <2>2, <2>6, <3>2, <3>3 DEF ExtendUpdates, clearAllMarks, SolverTypeOK
  <2>7. CASE FinalSolving
    BY <2>2, <2>7, SolutionsFound DEF FinalSolving, Finish, clearAllMarks, SolverTypeOK
  <2> QED
    BY <1>2, <2>3, <2>4, <2>5, <2>6, <2>7 DEF SolverNext
<1> QED
  BY <1>1, <1>2

\* A pass of the filter, and what follows when the filter returns.
LEMMA FilterPassKeepsSolver ==
  ASSUME BuilderInv, SolverTypeOK, SolverInv, FilterPass
  PROVE  SolverInv'
<1>1. /\ UNCHANGED builderVars /\ Filtering /\ outcome = "" /\ phase = "built"
      /\ newState \in Models /\ updates \subseteq newState
      /\ \A v \in ambiguous : ~ Differs(newState, v)
      /\ Supported(newState, litMarks)
      /\ at = "updateFilter" => newUpdates \subseteq newState
  BY DEF FilterPass, SolverInv, Filtering, Solved
<1>2. /\ oldState' = oldState /\ Models' = Models
      /\ UNCHANGED <<phase, hasEntry, sat, replacementFor>>
      /\ \A S, v : Differs(S, v)' = Differs(S, v)
      /\ \A S, m : Supported(S, m)' = Supported(S, m)
  BY <1>1, EquationStays
<1>3. PICK kept \in KeepChoices :
        LET marks == litMarks \union makeAmbiguousMarks(kept)
            amb == ambiguous \union Idle
            rolledBack == {v \in hasEntry \ Bfs(amb, marks) : Changed(v)}
        IN  /\ ambiguous' = amb
            /\ litMarks' = marks
            /\ IF marks = litMarks \/ rolledBack = {} THEN FilterReturns
               ELSE FilterContinues(rolledBack)
  BY DEF FilterPass
<1>4. PICK marks : marks = litMarks \union makeAmbiguousMarks(kept)
  OBVIOUS
<1>5. PICK amb : amb = ambiguous \union Idle
  OBVIOUS
<1>6. PICK rolledBack : rolledBack = RolledBack(amb, marks)
  OBVIOUS
<1>7. /\ ambiguous' = amb /\ litMarks' = marks
      /\ FilterReturns \/ FilterContinues(rolledBack)
  BY <1>3, <1>4, <1>5, <1>6 DEF RolledBack, Changed, Differs
<1>8. Supported(newState, marks)
  BY <1>1, <1>4, SupportStays
<1>9. \A v \in amb : ~ Differs(newState, v)
  BY <1>1, <1>5 DEF Idle, Changed, Differs
<1>10. CASE FilterReturns
  <2>1. newStatesValid(newState)
    BY <1>1 DEF Models, newStatesValid
  <2>2. /\ newState' = newState /\ newUpdates' = newUpdates
        /\ CASE at = "initialFilter" -> at' = "extend" /\ UNCHANGED <<outcome, updates>>
             [] at = "updateFilter" -> at' = "extend" /\ updates' = newUpdates /\ UNCHANGED outcome
             [] at = "finalFilter" -> Finish("answered") /\ UNCHANGED updates
    BY <1>10, <2>1 DEF FilterReturns
  <2>3. \/ at' = "extend" /\ outcome' = "" /\ updates' = updates
        \/ at' = "extend" /\ outcome' = "" /\ updates' = newUpdates /\ newUpdates \subseteq newState
        \/ at' = "end" /\ outcome' = "answered" /\ updates' = updates
    <3>1. CASE at = "initialFilter"
      BY <1>1, <2>2, <3>1
    <3>2. CASE at = "updateFilter"
      BY <1>1, <2>2, <3>2
    <3>3. CASE at = "finalFilter"
      BY <1>1, <2>2, <3>3 DEF Finish
    <3> QED
      BY <1>1, <3>1, <3>2, <3>3 DEF Filtering
  <2>4. updates' \subseteq newState
    BY <1>1, <2>3
  <2>5. (\A v \in ambiguous : ~ Differs(newState, v))'
    BY <1>2, <1>7, <1>9, <2>2 DEF Differs
  <2> QED
    BY <1>1, <1>2, <2>2, <2>3, <2>4, <2>5 DEF SolverInv, Solved, Filtering, SolverAssertsHold
<1>11. CASE FilterContinues(rolledBack)
  <2>1. PICK S : S = Stripped(amb, marks)
    OBVIOUS
  <2>2. newState' = S /\ UNCHANGED <<at, outcome, updates, newUpdates>>
    BY <1>6, <1>11, <2>1 DEF FilterContinues, Stripped
  <2>3. /\ S \in Models /\ newState \intersect seed \subseteq S
        /\ \A v \in amb : ~ Differs(S, v)
        /\ Supported(S, marks)
    BY <1>1, <1>8, <1>9, <2>1, RollbackKeepsSolution
  <2>4. updates \subseteq S /\ (at = "updateFilter" => newUpdates \subseteq S)
    BY <1>1, <2>3 DEF seed, SolverTypeOK
  <2>5. (\A v \in ambiguous : ~ Differs(newState, v))'
    BY <1>2, <1>7, <2>2, <2>3 DEF Differs
  <2>6. Supported(newState, litMarks)'
    BY <1>2, <1>7, <2>2, <2>3 DEF Supported, Unmarked, Holds, Differs
  <2> QED
    BY <1>1, <1>2, <2>2, <2>3, <2>4, <2>5, <2>6 DEF SolverInv, Solved, Filtering, SolverAssertsHold
<1> QED
  BY <1>7, <1>10, <1>11

\* A step of build() while solve() waits for it.
LEMMA BuildKeepsSolver ==
  ASSUME BuilderInv', SolverInv, Build
  PROVE  SolverInv'
<1>1. /\ at = "build" /\ outcome = "" /\ newState = {} /\ updates = {} /\ newUpdates = {}
      /\ ambiguous = {}
  BY DEF Build, SolverInv
<1>2. failure' \in Failure
  BY DEF BuilderInv, TypeOK
<1>3. /\ \/ at' = "end" /\ outcome' = failure'
         \/ at' = "build" /\ outcome' = ""
      /\ UNCHANGED <<newState, updates, newUpdates, ambiguous>>
  BY <1>1 DEF Build, Finish, markVars
<1>4. outcome' \notin {"answered", "Solver.cpp:691", "Solver.cpp:695", "Solver.cpp:719",
                       "Solver.cpp:725", "Solver.cpp:730"}
  BY <1>2, <1>3 DEF Failure
<1> QED
  BY <1>1, <1>3, <1>4 DEF SolverInv, Solved, Filtering, SolverAssertsHold

\* The steps of doMainWork() between the filters.
LEMMA SolvingKeepsSolver ==
  ASSUME BuilderInv, SolverTypeOK, SolverInv,
         BeginWork \/ InitialSolving \/ ExtendUpdates \/ FinalSolving
  PROVE  SolverInv'
<1> USE DEF markVars
<1>1. UNCHANGED builderVars
  BY DEF BeginWork, InitialSolving, ExtendUpdates, FinalSolving
<1>2. /\ oldState' = oldState /\ Models' = Models
      /\ UNCHANGED <<phase, hasEntry, sat, replacementFor>>
  BY <1>1, EquationStays
<1>3. ASSUME NEW fixed, NEW S \in solveSat(fixed), newState' = S, ambiguous' = {}, litMarks' = {}
      PROVE  /\ newState' \in Models /\ fixed \subseteq newState' /\ newStatesValid(newState')
             /\ (\A v \in ambiguous : ~ Differs(newState, v))'
             /\ Supported(newState, litMarks)'
  <2>1. S \in Models /\ fixed \subseteq S /\ newStatesValid(S) /\ Supported(S, {})
    BY <1>3, SolutionsFound
  <2>2. Supported(newState, litMarks)'
    BY <1>2, <1>3, <2>1 DEF Supported, Unmarked, Holds, Differs
  <2> QED
    BY <1>3, <2>1, <2>2
<1>4. CASE BeginWork
  <2>1. /\ at = "build" /\ phase = "built" /\ newState' = oldState /\ outcome = ""
        /\ updates' = {} /\ newUpdates' = {} /\ ambiguous' = {}
        /\ \/ userTaskInstall \union userTaskRemove = {} /\ at' = "end" /\ outcome' = "answered"
           \/ at' = "initial" /\ outcome' = ""
    BY <1>4 DEF BeginWork, Finish, SolverInv
  <2>2. outcome' = "answered" => newState' \in Models
    BY <2>1, NothingToDo
  <2> QED
    BY <1>2, <2>1, <2>2 DEF SolverInv, Solved, Filtering, SolverAssertsHold
<1>5. CASE InitialSolving
  <2>1. /\ at = "initial" /\ outcome = "" /\ phase = "built"
        /\ updates' = {} /\ newUpdates' = {} /\ updates = {}
    BY <1>5 DEF InitialSolving, SolverInv
  <2>2. CASE solveSat(updates) = {}
    BY <1>2, <1>5, <2>1, <2>2
       DEF InitialSolving, Finish, SolverInv, Solved, Filtering, SolverAssertsHold
  <2>3. CASE solveSat(updates) # {}
    <3>1. PICK S \in solveSat(updates) : newState' = S
      BY <1>5, <2>3 DEF InitialSolving
    <3>2. ambiguous' = {} /\ litMarks' = {}
      BY <1>5, <2>3 DEF InitialSolving, clearAllMarks
    <3>3. newStatesValid(newState')
      BY <1>3, <3>1, <3>2
    <3>4. at' = "initialFilter" /\ outcome' = ""
      BY <1>5, <2>1, <2>3, <3>3 DEF InitialSolving
    <3> QED
      BY <1>2, <1>3, <2>1, <3>1, <3>2, <3>4 DEF SolverInv, Solved, Filtering, SolverAssertsHold
  <2> QED
    BY <2>2, <2>3
<1>6. CASE ExtendUpdates
  <2>1. /\ at = "extend" /\ outcome = "" /\ outcome' = "" /\ phase = "built" /\ updates' = updates
        /\ newState \in Models /\ updates \subseteq newState
        /\ \A u \in newUpdates : replacementFor[u] \in oldState
        /\ updates \subseteq newUpdates
    BY <1>6 DEF ExtendUpdates, SolverInv, Solved, SolverTypeOK
  <2>2. \A u \in newUpdates' : replacementFor[u] \in oldState
    BY <1>6, <2>1 DEF ExtendUpdates, FoundUpdates
  <2>3. CASE FoundUpdates = {} \/ solveSat(newUpdates') = {}
    <3>1. at' = "final" /\ newState' = newState
      BY <1>6, <2>3 DEF ExtendUpdates
    <3> QED
      BY <1>2, <2>1, <2>2, <3>1 DEF SolverInv, Solved, Filtering, SolverAssertsHold
  <2>4. CASE ~ (FoundUpdates = {} \/ solveSat(newUpdates') = {})
    <3>1. PICK fixed : fixed = newUpdates'
      OBVIOUS
    <3>2. PICK S \in solveSat(fixed) : newState' = S
      BY <1>6, <2>4, <3>1 DEF ExtendUpdates
    <3>3. at' = "updateFilter" /\ ambiguous' = {} /\ litMarks' = {}
      BY <1>6, <2>4 DEF ExtendUpdates, clearAllMarks
    <3>4. updates \subseteq fixed
      BY <1>6, <3>1 DEF ExtendUpdates
    <3>5. /\ newState' \in Models /\ fixed \subseteq newState'
          /\ (\A v \in ambiguous : ~ Differs(newState, v))'
          /\ Supported(newState, litMarks)'
      BY <1>3, <3>2, <3>3
    <3> QED
      BY <1>2, <2>1, <2>2, <3>1, <3>3, <3>4, <3>5 DEF SolverInv, Solved, Filtering, SolverAssertsHold
  <2> QED
    BY <2>3, <2>4
<1>7. CASE FinalSolving
  <2>1. /\ at = "final" /\ outcome = "" /\ phase = "built"
        /\ updates' = updates /\ newUpdates' = newUpdates
        /\ newState \in Models /\ updates \subseteq newState
        /\ \A u \in newUpdates : replacementFor[u] \in oldState
    BY <1>7 DEF FinalSolving, SolverInv, Solved
  <2>2. newState \in solveSat(updates)
    BY <2>1 DEF solveSat
  <2>3. PICK S \in solveSat(updates) : newState' = S
    BY <1>7, <2>2 DEF FinalSolving
  <2>4. at' = "finalFilter" /\ outcome' = "" /\ ambiguous' = {} /\ litMarks' = {}
    BY <1>7, <2>1, <2>2 DEF FinalSolving, clearAllMarks
  <2> QED
    BY <1>2, <1>3, <2>1, <2>3, <2>4 DEF SolverInv, Solved, Filtering, SolverAssertsHold
<1> QED
  BY <1>4, <1>5, <1>6, <1>7

LEMMA NextKeepsSolver ==
  ASSUME BuilderInv, BuilderInv', SolverTypeOK, SolverInv, [SolverNext]_allVars
  PROVE  SolverTypeOK' /\ SolverInv'
<1>1. CASE SolverNext
  BY <1>1, NextKeepsSolverTypes, BuildKeepsSolver, SolvingKeepsSolver, FilterPassKeepsSolver
     DEF SolverNext
<1>2. CASE UNCHANGED allVars
  <2>1. /\ UNCHANGED builderVars
        /\ UNCHANGED <<at, outcome, newState, updates, newUpdates, ambiguous, litMarks>>
    BY <1>2 DEF allVars, solverVars, markVars
  <2>2. /\ oldState' = oldState /\ Models' = Models
        /\ UNCHANGED <<phase, hasEntry, sat, replacementFor>>
    BY <2>1, EquationStays
  <2>3. Supported(newState, litMarks)' = Supported(newState, litMarks)
    BY <2>1, <2>2 DEF Supported, Unmarked, Holds, Differs
  <2>4. (\A v \in ambiguous : ~ Differs(newState, v))' = (\A v \in ambiguous : ~ Differs(newState, v))
    BY <2>1, <2>2 DEF Differs
  <2>5. SolverInv'
    BY <2>1, <2>2, <2>3, <2>4 DEF SolverInv, Solved, Filtering, SolverAssertsHold
  <2> QED
    BY <2>1, <2>2, <2>5 DEF SolverTypeOK
<1> QED
  BY <1>1, <1>2

LEMMA SolverAlways == SolverSpec => [](SolverTypeOK /\ SolverInv)
<1>1. SolverInit => SolverTypeOK /\ SolverInv
  BY DEF SolverInit, Init, SolverTypeOK, Failure, SolverInv, Solved, Filtering, SolverAssertsHold
<1>2. /\ BuilderInv /\ BuilderInv' /\ SolverTypeOK /\ SolverInv /\ [SolverNext]_allVars
      => (SolverTypeOK /\ SolverInv)'
  BY NextKeepsSolver
<1> QED
  BY <1>1, <1>2, BuilderAlways, PTL DEF SolverSpec

\* Type correctness: in every reachable state of solve() its variables hold
\* values of their C++ types, the updates are among those tried, and only
\* packages with an entry have a new state or a mark.
THEOREM SolverTypeCorrect == SolverSpec => []SolverTypeOK
BY SolverAlways, PTL

\* The asserts of doMainWork() hold for every scope and every task, whatever
\* solutions libminisat finds and whatever literals the filter keeps.
THEOREM AssertsOfSolverHold == SolverSpec => []SolverAssertsHold
<1>1. SolverInv => SolverAssertsHold
  BY DEF SolverInv
<1> QED
  BY <1>1, SolverAlways, PTL

-----------------------------------------------------------------------------
(***************************************************************************)
(* The answer                                                              *)
(***************************************************************************)

\* The two lists say how the system that the equation allows comes about.
LEMMA AnswerIsSolution ==
  ASSUME BuilderInv, SolverTypeOK, SolverInv, outcome = "answered"
  PROVE  /\ newState \in Models /\ phase = "built"
         /\ install = newState \ oldState /\ remove = oldState \ newState
         /\ install = SystemAfter(newState) \ scope.installed
         /\ (scope.installed \ remove) \union install = SystemAfter(newState)
<1>1. newState \in Models /\ phase = "built" /\ newState \subseteq hasEntry
  BY DEF SolverInv, Solved, SolverTypeOK
<1>2. \A v \in ambiguous : v \in oldState <=> v \in newState
  BY DiffersSays DEF SolverInv
<1>3. install = newState \ oldState /\ remove = oldState \ newState
  BY <1>2 DEF install, remove
<1> QED
  BY <1>1, <1>3 DEF SystemAfter, oldState

\* Each package added to the updates is installed in the end, and the version
\* it replaces is removed.
THEOREM UpdatesAreInstalled == SolverSpec => []UpdatesReplaceOldVersions
<1>1. BuilderInv /\ SolverTypeOK /\ SolverInv => UpdatesReplaceOldVersions
  <2> SUFFICES ASSUME BuilderInv, SolverTypeOK, SolverInv, outcome = "answered", NEW u \in updates
               PROVE  u \in install /\ replacementFor[u] \in remove
    BY DEF UpdatesReplaceOldVersions
  <2>1. /\ newState \in Models /\ phase = "built"
        /\ install = newState \ oldState /\ remove = oldState \ newState
        /\ install = SystemAfter(newState) \ scope.installed
        /\ newState \subseteq SystemAfter(newState)
    BY AnswerIsSolution DEF SystemAfter
  <2>2. u \in newState /\ u \in Var /\ replacementFor[u] \in oldState
    BY DEF SolverInv, Solved, SolverTypeOK, BuilderInv, TypeOK
  <2>3. oldState \subseteq Var /\ oldState \subseteq scope.installed
    BY DEF oldState, BuilderInv, TypeOK
  <2>4. replacementFor[u] # BadVarId
    BY <2>2, <2>3, BuilderAssumption
  <2>5. u \notin scope.installed /\ replacementFor[u] # u
        /\ scope.name[replacementFor[u]] = scope.name[u]
    BY <2>2, <2>4 DEF BuilderInv, ReplacementInv, Replaces
  <2>6. u \in install
    BY <2>1, <2>2, <2>3, <2>5
  <2>7. VersionsOf(u) \intersect SystemAfter(newState) = {u}
    BY <2>1, <2>6 DEF BuilderInv, ModelsMeetNewConflicts
  <2>8. replacementFor[u] \in VersionsOf(u)
    BY <2>2, <2>3, <2>5 DEF VersionsOf
  <2>9. replacementFor[u] \notin newState
    BY <2>1, <2>5, <2>7, <2>8
  <2> QED
    BY <2>1, <2>2, <2>6, <2>9
<1> QED
  BY <1>1, BuilderAlways, SolverAlways, PTL

-----------------------------------------------------------------------------
(***************************************************************************)
(* The contract of solve()                                                 *)
(***************************************************************************)

\* The contract speaks of the same scope in the same words.
LEMMA SameWords ==
  /\ \A r, v : Contract!matches(r, v) <=> matches(r, v)
  /\ \A r, P : Contract!checkRequire(r, P) <=> checkRequire(r, P)
  /\ \A P : Contract!RequiresMet(P) <=> RequiresMet(P)
  /\ \A I, P : Contract!ConflictsMet(I, P) <=> ConflictsMet(I, P)
  /\ \A v : Contract!VersionsOf(v) = VersionsOf(v)
<1>1. \A r, v : Contract!matches(r, v) <=> matches(r, v)
  BY DEF Contract!matches, matches, Contract!VerRestricted, VerRestricted,
         Contract!VerOverlap, VerOverlap
<1>2. \A r, P : Contract!checkRequire(r, P) <=> checkRequire(r, P)
  BY <1>1 DEF Contract!checkRequire, checkRequire
<1>3. \A P : Contract!RequiresMet(P) <=> RequiresMet(P)
  BY <1>2 DEF Contract!RequiresMet, RequiresMet
<1>4. \A I, P : Contract!ConflictsMet(I, P) <=> ConflictsMet(I, P)
  BY <1>1 DEF Contract!ConflictsMet, ConflictsMet, Contract!checkConflict, checkConflict
<1>5. \A v : Contract!VersionsOf(v) = VersionsOf(v)
  BY DEF Contract!VersionsOf, VersionsOf
<1> QED
  BY <1>1, <1>2, <1>3, <1>4, <1>5

\* An answer is one the contract allows.
LEMMA AnswerIsAcceptable ==
  ASSUME BuilderInv, SolverTypeOK, SolverInv, outcome = "answered"
  PROVE  Contract!Acceptable(install, remove) /\ install \subseteq Var /\ remove \subseteq Var
<1> DEFINE system == SystemAfter(newState)
<1>1. /\ newState \in Models /\ phase = "built"
      /\ install = newState \ oldState /\ remove = oldState \ newState
      /\ install = SystemAfter(newState) \ scope.installed
      /\ (scope.installed \ remove) \union install = SystemAfter(newState)
  BY AnswerIsSolution
<1>2. /\ system \subseteq Var /\ Surely \subseteq system
      /\ userTaskRemove \intersect system = {}
      /\ system \subseteq scope.installed \union hasEntry
  BY <1>1, SystemsAllowed DEF BuilderInv
<1>3. Contract!SystemAfter(install, remove) = system
  BY <1>1 DEF Contract!SystemAfter
<1>4. install \subseteq Var \ scope.installed /\ remove \subseteq scope.installed
      /\ install \subseteq Var /\ remove \subseteq Var
  BY <1>1, <1>2 DEF oldState, BuilderInv, TypeOK
<1>5. /\ \A item \in userTask.itemsToInstall : \E v \in Surely : matches(item, v)
      /\ \A v \in Var : scope.name[v] \in userTask.namesToRemove =>
           v \in userTaskRemove \/ v \notin scope.installed \union hasEntry
  BY <1>1 DEF BuilderInv, AskedInv
<1>6. Contract!Honoured(system)
  <2>1. \A item \in userTask.itemsToInstall : checkRequire(item, system)
    BY <1>2, <1>5 DEF checkRequire
  <2>2. \A v \in system : scope.name[v] \notin userTask.namesToRemove
    BY <1>2, <1>5
  <2> HIDE DEF system
  <2> QED
    BY <2>1, <2>2, SameWords DEF Contract!Honoured
<1>7. Contract!Sound(install, system)
  <2>1. RequiresMet(scope.installed) => RequiresMet(system)
    BY <1>1 DEF BuilderInv, ModelsMeetRequires
  <2>2. /\ ConflictsMet(install, system)
        /\ \A v \in install : VersionsOf(v) \intersect system = {v}
    BY <1>1 DEF BuilderInv, ModelsMeetNewConflicts
  <2> HIDE DEF system
  <2> QED
    BY <2>1, <2>2, SameWords DEF Contract!Sound
<1> QED
  BY <1>3, <1>4, <1>6, <1>7 DEF Contract!Acceptable


AnswerInv ==
  outcome = "answered" =>
    Contract!Acceptable(install, remove) /\ install \subseteq Var /\ remove \subseteq Var

LEMMA AnswerAlways == SolverSpec => []AnswerInv
<1>1. BuilderInv /\ SolverTypeOK /\ SolverInv => AnswerInv
  BY AnswerIsAcceptable DEF AnswerInv
<1> QED
  BY <1>1, BuilderAlways, SolverAlways, PTL

\* A step of solve() is one of the contract, or changes nothing it speaks of.
LEMMA ContractStep ==
  ASSUME SolverInv, AnswerInv', [SolverNext]_allVars
  PROVE  Contract!Next \/ UNCHANGED Contract!vars
<1>1. UNCHANGED <<scope, userTask>>
  BY SolverStep, StepsKeep DEF vars, taskVars
<1>2. outcome # "answered" => install = {} /\ remove = {}
  BY DEF install, remove
<1>3. outcome' # "answered" => install' = {} /\ remove' = {}
  BY DEF install, remove
<1>4. CASE SolverNext
  <2>1. outcome = ""
    BY <1>4 DEF SolverNext, Build, BeginWork, InitialSolving, FilterPass, Filtering,
                ExtendUpdates, FinalSolving, SolverInv
  <2>2. CASE outcome' = ""
    BY <1>1, <1>2, <1>3, <2>1, <2>2 DEF Contract!vars
  <2>3. CASE outcome' = "answered"
    <3>1. /\ Contract!Acceptable(install, remove)'
          /\ install' \subseteq Var /\ remove' \subseteq Var
      BY <2>3 DEF AnswerInv
    <3>2. Contract!Acceptable(install', remove')
      BY <1>1, <3>1 DEF Contract!Acceptable, Contract!Honoured, Contract!Sound,
           Contract!SystemAfter, Contract!VersionsOf, Contract!RequiresMet,
           Contract!ConflictsMet, Contract!checkRequire, Contract!checkConflict, Contract!matches
    <3> QED
      BY <1>1, <2>1, <2>3, <3>1, <3>2 DEF Contract!Next, Contract!Answer
  <2>4. CASE outcome' \notin {"", "answered"}
    BY <1>1, <1>2, <1>3, <2>1, <2>4 DEF Contract!Next, Contract!Refuse
  <2> QED
    BY <2>2, <2>3, <2>4
<1>5. CASE UNCHANGED allVars
  <2>1. install' = install /\ remove' = remove /\ outcome' = outcome
    BY <1>5 DEF allVars, builderVars, vars, taskVars, tableVars, solverVars, markVars,
                install, remove, oldState
  <2> QED
    BY <1>1, <2>1 DEF Contract!vars
<1> QED
  BY <1>4, <1>5

\* solve() implements its contract for every scope and every task: it answers
\* once, with lists that make a system where each item asked for is provided,
\* nothing is left that was to go, no require gets broken and what is added
\* meets no conflict and no other version of itself; or it refuses.
THEOREM SolverMeetsContract == SolverSpec => ImplementsTaskSolver
<1>1. SolverInit => Contract!Init
  BY DEF SolverInit, Init, Contract!Init, install, remove
<1>2. SolverInv /\ AnswerInv' /\ [SolverNext]_allVars => [Contract!Next]_(Contract!vars)
  BY ContractStep
<1> QED
  BY <1>1, <1>2, AnswerAlways, SolverAlways, PTL DEF SolverSpec, ImplementsTaskSolver, Contract!Spec

=============================================================================
