----------------------------- MODULE SatBuilder -----------------------------
(***************************************************************************)
(* The construction of the SAT equation for a user task: class SatBuilder  *)
(* of src/lib/deepsolver/Solver.cpp, with the table RefCountedEntries of   *)
(* Solver.h.                                                               *)
(*                                                                         *)
(* build() translates the task into two sets of VarIds, then visits every  *)
(* package the task reaches: toBeInstalled() writes the clauses of a       *)
(* package that may become installed, toBeRemoved() those of one that may  *)
(* go away.  Packages yet to visit wait in m_pending.  A package that is   *)
(* only expected to stay as it is becomes a germ: an entry without         *)
(* clauses, with the list of packages to rewrite should it ever be         *)
(* visited.  The rewriting is a recursive call from the middle of a visit, *)
(* so the C++ call stack is a variable here and each loop iteration of a   *)
(* visit is a step.                                                        *)
(***************************************************************************)
EXTENDS OsIntegrity, SequencesExt

CONSTANTS
  Scopes,    \* the scopes a build may run against
  Tasks,     \* the user tasks it may be given
  BadVarId   \* the VarId of no package

UserTask == [itemsToInstall : SUBSET PkgRel, namesToRemove : SUBSET Name]

ASSUME BuilderAssumption ==
  /\ IsFiniteSet(Var)
  /\ Version \subseteq Nat
  /\ Scopes \subseteq PkgScopeType
  /\ Tasks \subseteq UserTask
  /\ BadVarId \notin Var

VARIABLES
  userTask,         \* the argument of build()
  phase,            \* how far build() has got
  failure,          \* the exception thrown or the assert that failed
  userTaskInstall,  \* m_userTaskInstall
  userTaskRemove,   \* m_userTaskRemove
  userLoop,         \* what is left of the set build() iterates over
  pending,          \* m_pending; the last element is popped first
  stack,            \* the active calls, the running one first
  hasEntry,         \* the VarIds with a RefCountedEntry
  germ,             \* those whose entry is a germ
  sat,              \* RefCountedEntry::sat, a set of clauses
  reconstruct,      \* RefCountedEntry::reconstruct
  replacementFor    \* RefCountedEntry::replacementFor

taskVars == <<scope, userTask, userTaskInstall, userTaskRemove>>
tableVars == <<hasEntry, germ, sat, reconstruct, replacementFor>>
vars == <<taskVars, phase, failure, userLoop, pending, stack, tableVars>>

-----------------------------------------------------------------------------
Lit == [var : Var, neg : BOOLEAN]
Pos(v) == [var |-> v, neg |-> FALSE]
Neg(v) == [var |-> v, neg |-> TRUE]

\* The clauses a RefCountedEntry adds to itself.
uninstallable(v) == {Neg(v)}
unremovable(v) == {Pos(v)}
onConflict(v, w) == {Neg(v), Neg(w)}
onRequire(v, alternatives) == {Neg(v)} \union {Pos(a) : a \in alternatives}
onDependent(v, d, alternatives) ==
  {Pos(v), Neg(d)} \union {Pos(a) : a \in alternatives}

\* The orders in which a query may list the set S.
Orderings(S) == {s \in [1..Cardinality(S) -> S] : ToSet(s) = S}

FullEntry == hasEntry \ germ

\* The reasons of TaskException and the lines of the asserts; "" if none.
Failure ==
  { "", "UnknownPkg", "Contradiction", "Unmet", "Solver.cpp:188", "Solver.cpp:255",
    "Solver.cpp:363", "Solver.cpp:367", "Solver.cpp:528", "Solver.cpp:529" }

\* A call of toBeInstalled(var, repl) or toBeRemoved(var): "calls" is what is
\* left of the list it is rewriting, "todo" what is left of the loop at "pc".
Frame ==
  [ op : {"install", "remove"}, var : Var, repl : Var \union {BadVarId},
    pc : {"enter", "reconstruct", "others", "requires", "conflicts",
          "installedConflicts", "dependents"},
    calls : Seq(Var), todo : SUBSET OwnedRel ]

Call(op, v, repl) ==
  [op |-> op, var |-> v, repl |-> repl, pc |-> "enter", calls |-> <<>>, todo |-> {}]

\* toBeInstalled() or toBeRemoved(), whichever changes the state of v.
CallFor(v) == Call(IF isInstalled(v) THEN "remove" ELSE "install", v, BadVarId)

top == Head(stack)

Building == phase \in {"install", "remove", "pending"}

At(op, pc) == Building /\ stack # <<>> /\ top.op = op /\ top.pc = pc

Goto(pc, todo) == stack' = <<[top EXCEPT !.pc = pc, !.todo = todo]>> \o Tail(stack)

NextIteration(o) == Goto(top.pc, top.todo \ {o})

Return == stack' = Tail(stack)

Stop(kind, what) == phase' = kind /\ failure' = what

-----------------------------------------------------------------------------
Init ==
  /\ scope \in Scopes
  /\ userTask \in Tasks
  /\ phase = "userTask"
  /\ failure = ""
  /\ userTaskInstall = {}
  /\ userTaskRemove = {}
  /\ userLoop = {}
  /\ pending = <<>>
  /\ stack = <<>>
  /\ hasEntry = {}
  /\ germ = {}
  /\ sat = [v \in Var |-> {}]
  /\ reconstruct = [v \in Var |-> <<>>]
  /\ replacementFor = [v \in Var |-> BadVarId]

(***************************************************************************)
(* onUserTask(), onUserItemToInstall()                                     *)
(***************************************************************************)

\* The configured priority list is not consulted: byProvidesPriorityList()
\* returns the first of the candidates, whatever their versions.
byProvidesPriorityList(candidates) == candidates

onUserItemToInstall(item) ==
  LET real == selectMatchingVarsRealNames(item)
  IN  IF real # {} THEN selectTheNewest(real)
      ELSE byProvidesPriorityList(selectMatchingVarsProvidesOnly(item))

\* The set a user task asks to keep out, once "chosen" is what it asks for.
toRemoveFor(chosen) ==
  (UNION {VersionsOf(v) \ {v} : v \in chosen})
    \union {v \in Var : pkgIdOfVarId(v) \in userTask.namesToRemove}

OnUserTask ==
  /\ phase = "userTask"
  /\ \/ /\ \E item \in userTask.itemsToInstall : onUserItemToInstall(item) = {}
        /\ Stop("thrown", "UnknownPkg")
        /\ UNCHANGED <<userTaskInstall, userTaskRemove, userLoop>>
     \/ \E choice \in [userTask.itemsToInstall -> Var] :
          LET chosen == {choice[item] : item \in userTask.itemsToInstall}
          IN  /\ \A item \in userTask.itemsToInstall :
                   choice[item] \in onUserItemToInstall(item)
              /\ userTaskInstall' = chosen
              /\ userTaskRemove' = toRemoveFor(chosen)
              /\ IF chosen \intersect toRemoveFor(chosen) # {}
                 THEN Stop("thrown", "Contradiction") /\ UNCHANGED userLoop
                 ELSE /\ phase' = "install"
                      /\ userLoop' = chosen
                      /\ UNCHANGED failure
  /\ UNCHANGED <<scope, userTask, pending, stack, tableVars>>

(***************************************************************************)
(* build(): the two loops over the user task and onPending()               *)
(***************************************************************************)

\* The next VarId of the loop; it is skipped when there is nothing to do.
NextOfUserTask(ph, op) ==
  /\ phase = ph
  /\ stack = <<>>
  /\ \E v \in userLoop :
       /\ userLoop' = userLoop \ {v}
       /\ stack' = IF CallFor(v).op = op THEN <<CallFor(v)>> ELSE stack
  /\ UNCHANGED <<taskVars, phase, failure, pending, tableVars>>

EndOfUserTask(ph, next, loop) ==
  /\ phase = ph
  /\ stack = <<>>
  /\ userLoop = {}
  /\ phase' = next
  /\ userLoop' = loop
  /\ UNCHANGED <<taskVars, failure, pending, stack, tableVars>>

\* Mutant of OnPending: m_pending is popped after the test, not before it.
OnPending_PopsLate ==
  /\ phase = "pending"
  /\ stack = <<>>
  /\ pending # <<>>
  /\ LET v == pending[Len(pending)]
     IN  /\ v \notin FullEntry
         /\ stack' = <<CallFor(v)>>
  /\ pending' = SubSeq(pending, 1, Len(pending) - 1)
  /\ UNCHANGED <<taskVars, phase, failure, userLoop, tableVars>>

\* One iteration of onPending().
OnPending ==
  /\ phase = "pending"
  /\ stack = <<>>
  /\ pending # <<>>
  /\ LET v == pending[Len(pending)]
     IN  stack' = IF v \in FullEntry THEN <<>> ELSE <<CallFor(v)>>
  /\ pending' = SubSeq(pending, 1, Len(pending) - 1)
  /\ UNCHANGED <<taskVars, phase, failure, userLoop, tableVars>>

\* Every variable of the equation must have an entry that is not a germ.
ensureSatCorrect ==
  \A v \in hasEntry : \A c \in sat[v] : \A l \in c : l.var \in FullEntry

\* Mutant of FinishBuild: the user task keeps what the table has no entry for.
FinishBuild_KeepsTask ==
  /\ phase = "pending"
  /\ stack = <<>>
  /\ pending = <<>>
  /\ phase' = "built"
  /\ hasEntry' = FullEntry
  /\ germ' = {}
  /\ UNCHANGED <<taskVars, failure, userLoop, pending, stack, sat, reconstruct, replacementFor>>

\* The end of build(): user task variables the construction never met are
\* dropped, the equation is asserted to be correct and germs are deleted.
FinishBuild ==
  /\ phase = "pending"
  /\ stack = <<>>
  /\ pending = <<>>
  /\ userTaskInstall' = userTaskInstall \intersect hasEntry
  /\ userTaskRemove' = userTaskRemove \intersect hasEntry
  /\ IF ensureSatCorrect
     THEN /\ phase' = "built"
          /\ hasEntry' = FullEntry
          /\ germ' = {}
          /\ reconstruct' = [v \in Var |-> IF v \in germ THEN <<>> ELSE reconstruct[v]]
          /\ UNCHANGED failure
     ELSE /\ Stop("abort", "Solver.cpp:188")
          /\ UNCHANGED <<hasEntry, germ, reconstruct>>
  /\ UNCHANGED <<scope, userTask, userLoop, pending, stack, sat, replacementFor>>

(***************************************************************************)
(* use(), useGermInstalled(), useGermUninstalled()                         *)
(***************************************************************************)
\* use() called for every element of S, then for those of the sequence "last".
use(S, last) == \E order \in Orderings(S) : pending' = pending \o order \o last

\* The members of S for which useGerm...() returns true.
GermsAmong(S) == {w \in S \ ToSet(pending) : w \notin FullEntry}

\* Mutant of useGerms: newEntry() does not store the germ in the table.
useGerms_NotStored(S, v) ==
  LET G == GermsAmong(S)
  IN  /\ germ' = germ \union G
      /\ reconstruct' = [w \in Var |->
           IF w \in G THEN Append(reconstruct[w], v) ELSE reconstruct[w]]
      /\ UNCHANGED hasEntry

\* useGerm...(w, v) called for every w of S; no two of the calls interfere.
useGerms(S, v) ==
  LET G == GermsAmong(S)
  IN  /\ hasEntry' = hasEntry \union G
      /\ germ' = germ \union G
      /\ reconstruct' = [w \in Var |->
           IF w \in G /\ v \notin ToSet(reconstruct[w])
           THEN Append(reconstruct[w], v) ELSE reconstruct[w]]

\* Mutant of Block: an installed package is not put off to be visited.
Block_ForgetsUse(S, v) ==
  LET uninstalled == S \ scope.installed
      blocked == S \ GermsAmong(uninstalled)
  IN  /\ useGerms(uninstalled, v)
      /\ UNCHANGED pending
      /\ sat' = [sat EXCEPT ![v] = @ \union {onConflict(v, w) : w \in blocked}]

\* The clauses v adds against the packages of S, as toBeInstalled() does it:
\* an installed one is put off to be visited, another one may stay a germ.
Block(S, v) ==
  LET uninstalled == S \ scope.installed
      blocked == S \ GermsAmong(uninstalled)
  IN  /\ useGerms(uninstalled, v)
      /\ use(S \intersect scope.installed, <<>>)
      /\ sat' = [sat EXCEPT ![v] = @ \union {onConflict(v, w) : w \in blocked}]

\* The only clause left to v says that it may not change; the visit is over.
GiveUp(v, clause) ==
  /\ sat' = [sat EXCEPT ![v] = {clause}]
  /\ Return
  /\ UNCHANGED <<pending, hasEntry, germ, reconstruct>>

-----------------------------------------------------------------------------
(***************************************************************************)
(* What toBeInstalled() and toBeRemoved() begin with                       *)
(***************************************************************************)

\* The asserts on entry of a call; "" when all of them hold.
FailedAssert ==
  IF top.op = "install"
  THEN IF isInstalled(top.var) THEN "Solver.cpp:363"
       ELSE IF top.var \in userTaskRemove THEN "Solver.cpp:367" ELSE ""
  ELSE IF ~ isInstalled(top.var) THEN "Solver.cpp:528"
       ELSE IF top.var \in userTaskInstall THEN "Solver.cpp:529" ELSE ""

AssertFails ==
  /\ Building /\ stack # <<>> /\ top.pc = "enter"
  /\ FailedAssert # ""
  /\ Stop("abort", FailedAssert)
  /\ UNCHANGED <<taskVars, userLoop, pending, stack, tableVars>>

\* Mutant of Enter: the list of a germ is dropped, not rewritten.
Enter_NoRewriting ==
  /\ Building /\ stack # <<>> /\ top.pc = "enter"
  /\ FailedAssert = ""
  /\ hasEntry' = hasEntry \union {top.var}
  /\ germ' = germ \ {top.var}
  /\ stack' = <<[top EXCEPT !.pc = "reconstruct"]>> \o Tail(stack)
  /\ reconstruct' = [reconstruct EXCEPT ![top.var] = <<>>]
  /\ UNCHANGED <<taskVars, phase, failure, userLoop, pending, sat, replacementFor>>

\* Mutant of Enter: the flag of a germ is not cleared.
Enter_StaysGerm ==
  /\ Building /\ stack # <<>> /\ top.pc = "enter"
  /\ FailedAssert = ""
  /\ hasEntry' = hasEntry \union {top.var}
  /\ stack' = <<[top EXCEPT !.pc = "reconstruct", !.calls = reconstruct[top.var]]>>
                 \o Tail(stack)
  /\ reconstruct' = [reconstruct EXCEPT ![top.var] = <<>>]
  /\ UNCHANGED <<taskVars, phase, failure, userLoop, pending, germ, sat, replacementFor>>

\* ensureEntryExists(); a germ becomes a full entry and its list is rewritten.
Enter ==
  /\ Building /\ stack # <<>> /\ top.pc = "enter"
  /\ FailedAssert = ""
  /\ hasEntry' = hasEntry \union {top.var}
  /\ germ' = germ \ {top.var}
  /\ stack' = <<[top EXCEPT !.pc = "reconstruct", !.calls = reconstruct[top.var]]>>
                 \o Tail(stack)
  /\ reconstruct' = [reconstruct EXCEPT ![top.var] = <<>>]
  /\ UNCHANGED <<taskVars, phase, failure, userLoop, pending, sat, replacementFor>>

\* One iteration of reconstruct(): a recursive call.
Reconstruct ==
  /\ Building /\ stack # <<>> /\ top.pc = "reconstruct"
  /\ top.calls # <<>>
  /\ IF Head(top.calls) \in FullEntry
     THEN /\ stack' = <<CallFor(Head(top.calls)), [top EXCEPT !.calls = Tail(top.calls)]>>
                        \o Tail(stack)
          /\ UNCHANGED <<phase, failure>>
     ELSE Stop("abort", "Solver.cpp:255") /\ UNCHANGED stack
  /\ UNCHANGED <<taskVars, userLoop, pending, tableVars>>

-----------------------------------------------------------------------------
(***************************************************************************)
(* toBeInstalled()                                                         *)
(***************************************************************************)
BeginInstall ==
  /\ At("install", "reconstruct")
  /\ top.calls = <<>>
  /\ replacementFor' = [replacementFor EXCEPT ![top.var] =
       IF @ = BadVarId THEN top.repl ELSE @]
  /\ sat' = [sat EXCEPT ![top.var] = {}]
  /\ Goto("others", {})
  /\ UNCHANGED <<taskVars, phase, failure, userLoop, pending, hasEntry, germ, reconstruct>>

\* The loop over the other versions of the package.
BlockOtherVersions ==
  LET v == top.var
      others == VersionsOf(v) \ ({v} \union userTaskRemove)
  IN  /\ At("install", "others")
      /\ IF others \intersect userTaskInstall # {}
         THEN GiveUp(v, uninstallable(v))
         ELSE Block(others, v) /\ Goto("requires", RelsOf(v, getRequires(v)))
      /\ UNCHANGED <<taskVars, phase, failure, userLoop, replacementFor>>

\* Mutant of RequireClause: the dependent package itself is not put off.
RequireClause_ForgetsLast(v, alternatives, last, clause) ==
  LET installed == alternatives \intersect scope.installed
  IN  /\ useGerms(installed, v)
      /\ IF GermsAmong(installed) # {}
         THEN UNCHANGED <<pending, sat>>
         ELSE /\ use(alternatives, <<>>)
              /\ sat' = [sat EXCEPT ![v] = @ \union {clause}]

\* The clause of a require or of a dependent: left out when one of the
\* alternatives is installed and stays so, as its germ will tell otherwise.
RequireClause(v, alternatives, last, clause) ==
  LET installed == alternatives \intersect scope.installed
  IN  /\ useGerms(installed, v)
      /\ IF GermsAmong(installed) # {}
         THEN UNCHANGED <<pending, sat>>
         ELSE /\ use(alternatives, last)
              /\ sat' = [sat EXCEPT ![v] = @ \union {clause}]

\* One iteration of the loop over the requires.
Require(o) ==
  LET v == top.var
      matching == selectMatchingVarsWithProvides(o.rel)
      alternatives == matching \ userTaskRemove
  IN  /\ At("install", "requires")
      /\ IF matching = {}
         THEN /\ Stop("thrown", "Unmet")
              /\ UNCHANGED <<pending, stack, hasEntry, germ, sat, reconstruct>>
         ELSE /\ UNCHANGED <<phase, failure>>
              /\ \/ alternatives = {} /\ GiveUp(v, uninstallable(v))
                 \/ /\ alternatives \intersect userTaskInstall # {}
                    /\ NextIteration(o)
                    /\ UNCHANGED <<pending, hasEntry, germ, sat, reconstruct>>
                 \/ /\ alternatives # {}
                    /\ alternatives \intersect userTaskInstall = {}
                    /\ NextIteration(o)
                    /\ RequireClause(v, alternatives, <<>>, onRequire(v, alternatives))
      /\ UNCHANGED <<taskVars, userLoop, replacementFor>>

EndRequires ==
  /\ At("install", "requires")
  /\ top.todo = {}
  /\ Goto("conflicts", RelsOf(top.var, getConflicts(top.var)))
  /\ UNCHANGED <<taskVars, phase, failure, userLoop, pending, tableVars>>

\* Line 488 looks up vars[i] in the user task, where i is the position of the
\* conflict in its list and not the position k of a package in vars; when
\* vars is shorter than that the read is out of bounds and finds anything.
StrayLookup(matching, i) ==
  IF i < Cardinality(matching) THEN {(w \in userTaskInstall) : w \in matching}
  ELSE BOOLEAN

\* One iteration of the loop over the conflicts.
Conflict(o) ==
  LET v == top.var
      matching == selectMatchingVarsWithProvides(o.rel)
      others == matching \ ({v} \union userTaskRemove)
      i == Cardinality(getConflicts(v)) - Cardinality(top.todo)
  IN  /\ At("install", "conflicts")
      /\ \/ /\ others # {}
            /\ TRUE \in StrayLookup(matching, i)
            /\ GiveUp(v, uninstallable(v))
         \/ /\ others = {} \/ FALSE \in StrayLookup(matching, i)
            /\ Block(others, v)
            /\ NextIteration(o)
      /\ UNCHANGED <<taskVars, phase, failure, userLoop, replacementFor>>

EndConflicts ==
  /\ At("install", "conflicts")
  /\ top.todo = {}
  /\ Goto("installedConflicts", whatConflictAmongInstalled(top.var))
  /\ UNCHANGED <<taskVars, phase, failure, userLoop, pending, tableVars>>

\* One iteration of the last loop: an installed package has a conflict with
\* this one.  The test of line 519 lets only those through that the user
\* asked to remove.
InstalledConflict(o) ==
  LET v == top.var
  IN  /\ At("install", "installedConflicts")
      /\ \/ o.owner \in userTaskInstall /\ GiveUp(v, uninstallable(v))
         \/ /\ o.owner \notin userTaskInstall
            /\ NextIteration(o)
            /\ IF o.owner \in userTaskRemove
               THEN /\ sat' = [sat EXCEPT ![v] = @ \union {onConflict(v, o.owner)}]
                    /\ use({}, <<o.owner>>)
               ELSE UNCHANGED <<sat, pending>>
            /\ UNCHANGED <<hasEntry, germ, reconstruct>>
      /\ UNCHANGED <<taskVars, phase, failure, userLoop, replacementFor>>

EndInstall ==
  /\ At("install", "installedConflicts")
  /\ top.todo = {}
  /\ Return
  /\ UNCHANGED <<taskVars, phase, failure, userLoop, pending, tableVars>>

-----------------------------------------------------------------------------
(***************************************************************************)
(* toBeRemoved()                                                           *)
(***************************************************************************)
BeginRemove ==
  /\ At("remove", "reconstruct")
  /\ top.calls = <<>>
  /\ sat' = [sat EXCEPT ![top.var] = {}]
  /\ Goto("dependents", whatDependAmongInstalled(top.var))
  /\ UNCHANGED <<taskVars, phase, failure, userLoop, pending, hasEntry, germ,
                 reconstruct, replacementFor>>

\* One iteration of the loop over the installed packages that require this one.
Dependent(o) ==
  LET v == top.var
      alternatives == selectMatchingVarsWithProvides(o.rel) \ ({v} \union userTaskRemove)
      keep == UNCHANGED <<pending, hasEntry, germ, sat, reconstruct>>
  IN  /\ At("remove", "dependents")
      /\ \/ /\ o.owner \in userTaskRemove
            /\ NextIteration(o) /\ keep
         \/ /\ o.owner \notin userTaskRemove
            /\ o.owner \in userTaskInstall
            /\ GiveUp(v, unremovable(v))
         \/ /\ o.owner \notin userTaskRemove \union userTaskInstall
            /\ alternatives \intersect userTaskInstall # {}
            /\ NextIteration(o) /\ keep
         \/ /\ o.owner \notin userTaskRemove \union userTaskInstall
            /\ alternatives \intersect userTaskInstall = {}
            /\ NextIteration(o)
            /\ RequireClause(v, alternatives, <<o.owner>>,
                             onDependent(v, o.owner, alternatives))
      /\ UNCHANGED <<taskVars, phase, failure, userLoop, replacementFor>>

\* The newest of the other versions is visited as a replacement.  Which of
\* those with equal versions comes first is not determined.
Replace ==
  LET replacements == VersionsOf(top.var) \ {top.var}
  IN  /\ At("remove", "dependents")
      /\ top.todo = {}
      /\ \/ replacements = {} /\ Return
         \/ \E r \in selectTheNewest(replacements) :
              stack' = <<Call("install", r, top.var)>> \o Tail(stack)
      /\ UNCHANGED <<taskVars, phase, failure, userLoop, pending, tableVars>>

-----------------------------------------------------------------------------
loop == IF stack = <<>> THEN {} ELSE top.todo

toBeInstalled ==
  \/ BeginInstall
  \/ BlockOtherVersions
  \/ \E o \in loop : Require(o) \/ Conflict(o) \/ InstalledConflict(o)
  \/ EndRequires
  \/ EndConflicts
  \/ EndInstall

toBeRemoved ==
  \/ BeginRemove
  \/ \E o \in loop : Dependent(o)
  \/ Replace

Next ==
  \/ OnUserTask
  \/ NextOfUserTask("install", "install")
  \/ EndOfUserTask("install", "remove", userTaskRemove)
  \/ NextOfUserTask("remove", "remove")
  \/ EndOfUserTask("remove", "pending", {})
  \/ OnPending
  \/ FinishBuild
  \/ AssertFails
  \/ Enter
  \/ Reconstruct
  \/ toBeInstalled
  \/ toBeRemoved

\* build() runs in one thread that nothing blocks: it keeps making steps.
Spec == Init /\ [][Next]_vars /\ WF_vars(Next)

-----------------------------------------------------------------------------
(***************************************************************************)
(* Properties                                                              *)
(***************************************************************************)

\* Every variable holds a value of its C++ type; germs are entries.
TypeOK ==
  /\ scope \in PkgScopeType
  /\ userTask \in UserTask
  /\ phase \in {"userTask", "install", "remove", "pending", "built", "thrown", "abort"}
  /\ failure \in Failure
  /\ userTaskInstall \subseteq Var
  /\ userTaskRemove \subseteq Var
  /\ userLoop \subseteq Var
  /\ pending \in Seq(Var)
  /\ stack \in Seq(Frame)
  /\ hasEntry \subseteq Var
  /\ germ \subseteq hasEntry
  /\ sat \in [Var -> SUBSET SUBSET Lit]
  /\ reconstruct \in [Var -> Seq(Var)]
  /\ replacementFor \in [Var -> Var \union {BadVarId}]

\* The asserts of build() and reconstruct(), Solver.cpp:188 and :255: the
\* finished equation mentions no variable without a full entry, and no germ
\* ever lists a package that has not been visited.  That toBeRemoved() is
\* only called for installed packages (:528) is the third assert the code
\* never fails.
NoInternalAssertFails ==
  failure \notin {"Solver.cpp:188", "Solver.cpp:255", "Solver.cpp:528"}

\* Every literal of a clause already written is that of a package visited,
\* waiting in m_pending or about to be entered: nothing the equation speaks
\* of can be forgotten, whatever turns into a germ and back meanwhile.
LiteralsWillBeVisited ==
  \A v \in hasEntry : \A c \in sat[v] : \A l \in c :
    \/ l.var \in FullEntry
    \/ l.var \in ToSet(pending)
    \/ \E i \in DOMAIN stack : stack[i].pc = "enter" /\ stack[i].var = l.var

\* What solveSat() asserts of the result (Solver.cpp:819): a variable the
\* user task still fixes has an entry, although germs were deleted; and the
\* task fixes only what it changes.
UserTaskHasEntries ==
  phase = "built" =>
    /\ userTaskInstall \union userTaskRemove \subseteq hasEntry
    /\ userTaskInstall \intersect scope.installed = {}
    /\ userTaskRemove \subseteq scope.installed

-----------------------------------------------------------------------------
\* The operating systems the equation allows: an assignment to the variables
\* with an entry that satisfies it, everything else left as it is.
Satisfies(S, clause) == \E l \in clause : (l.var \in S) # l.neg

Models ==
  {S \in SUBSET hasEntry :
     /\ userTaskInstall \subseteq S
     /\ userTaskRemove \intersect S = {}
     /\ \A v \in hasEntry : \A c \in sat[v] : Satisfies(S, c)}

SystemAfter(S) == (scope.installed \ hasEntry) \union S

\* The reason why germs and skipped clauses are allowed: starting from a
\* system with no broken require, no assignment the finished equation permits
\* leaves one, although it has no clauses for packages expected to stay.
ModelsMeetRequires ==
  (phase = "built" /\ RequiresMet(scope.installed)) =>
    \A S \in Models : RequiresMet(SystemAfter(S))

\* A package that becomes installed meets no package it conflicts with and no
\* other version of itself, although those that may stay uninstalled are
\* germs and have no clauses.
ModelsMeetNewConflicts ==
  phase = "built" =>
    \A S \in Models :
      LET new == SystemAfter(S) \ scope.installed
      IN  /\ ConflictsMet(new, SystemAfter(S))
          /\ \A v \in new : VersionsOf(v) \intersect SystemAfter(S) = {v}

\* The same promise for the conflicts of the packages that were there before:
\* from a system without conflicts the equation allows no system with one
\* (the purpose of whatConflictAmongInstalled(), Solver.cpp:505-523).
ModelsMeetAllConflicts ==
  (phase = "built" /\ ConflictsMet(scope.installed, scope.installed)) =>
    \A S \in Models : ConflictsMet(SystemAfter(S), SystemAfter(S))

\* The assert of toBeInstalled() at Solver.cpp:367: no package the user task
\* keeps out is ever visited to be installed.
NeverInstallsWhatIsKeptOut == failure # "Solver.cpp:367"

\* The assert of toBeRemoved() at Solver.cpp:529: no package the user task
\* asks for is ever visited to be removed.
NeverRemovesWhatIsAskedFor == failure # "Solver.cpp:529"

\* build() comes to an end: with the equation, an exception or an abort.
BuildEnds == <>(phase \in {"built", "thrown", "abort"})

=============================================================================
