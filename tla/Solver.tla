------------------------------- MODULE Solver -------------------------------
(***************************************************************************)
(* Class Solver of src/lib/deepsolver/Solver.cpp, on top of SatBuilder:    *)
(* once the equation is built, doMainWork() has it solved, strips the      *)
(* solution of changes nobody needs, then tries again and again to keep as *)
(* upgrades what would otherwise only be removed, and solves it one last   *)
(* time.  Libminisat is external: any solution it may find is a solution   *)
(* here.                                                                   *)
(***************************************************************************)
EXTENDS SatBuilder

VARIABLES
  at,          \* how far doMainWork() has got
  outcome,     \* what stopped it, "answered" or ""
  newState,    \* the VarIds whose RefCountedEntry::newState is set
  updates,     \* updates
  newUpdates,  \* newUpdates
  ambiguous,   \* the VarIds whose RefCountedEntry::ambiguous is set
  litMarks     \* the literals whose Lit::ambiguous is set

builderVars == vars
markVars == <<ambiguous, litMarks>>
solverVars == <<at, outcome, newState, updates, newUpdates, markVars>>
allVars == <<builderVars, solverVars>>

\* A literal of a clause of the entry of a VarId.
Occurrence == [entry : Var, clause : SUBSET Lit, lit : Lit]

LitsOf(v, c, lits) == {[entry |-> v, clause |-> c, lit |-> l] : l \in lits}

oldState == scope.installed \intersect hasEntry

-----------------------------------------------------------------------------
\* newStatesValid()
newStatesValid(S) == \A v \in hasEntry : \A c \in sat[v] : Satisfies(S, c)

\* The variables of the clauses given to libminisat; it leaves others alone.
Occurring(fixed) ==
  userTaskInstall \union userTaskRemove \union fixed
    \union {v \in hasEntry : \E w \in hasEntry : \E c \in sat[w] : \E l \in c : l.var = v}

\* The new states solveSat() may produce; there is none when it returns 0.
solveSat(fixed) ==
  {S \in Models : fixed \subseteq S /\ S \ Occurring(fixed) = newState \ Occurring(fixed)}

\* p.clearAllMarks(), with which filterSolution() begins.
clearAllMarks == ambiguous' = {} /\ litMarks' = {}

SolverInit ==
  /\ Init
  /\ at = "build"
  /\ outcome = ""
  /\ newState = {}
  /\ updates = {}
  /\ newUpdates = {}
  /\ ambiguous = {}
  /\ litMarks = {}

Finish(what) == at' = "end" /\ outcome' = what

\* builder.build(): an exception or a failed assert of it ends solve() too.
Build ==
  /\ at = "build"
  /\ Next
  /\ IF phase' \in {"thrown", "abort"} THEN Finish(failure') ELSE UNCHANGED <<at, outcome>>
  /\ UNCHANGED <<newState, updates, newUpdates, markVars>>

\* Mutant of BeginWork: only packages to install count as something to do.
BeginWork_IgnoresRemove ==
  /\ at = "build"
  /\ phase = "built"
  /\ newState' = oldState
  /\ IF userTaskInstall = {} THEN Finish("answered")
     ELSE at' = "initial" /\ UNCHANGED outcome
  /\ UNCHANGED <<builderVars, updates, newUpdates, markVars>>

\* doMainWork() returns when nothing of the user task is left to do.  The
\* constructor of RefCountedEntry gave each entry its old state.
BeginWork ==
  /\ at = "build"
  /\ phase = "built"
  /\ newState' = oldState
  /\ IF userTaskInstall \union userTaskRemove = {} THEN Finish("answered")
     ELSE at' = "initial" /\ UNCHANGED outcome
  /\ UNCHANGED <<builderVars, updates, newUpdates, markVars>>

InitialSolving ==
  /\ at = "initial"
  /\ IF solveSat(updates) = {}
     THEN Finish("UnsolvableSat") /\ UNCHANGED <<newState, markVars>>
     ELSE /\ newState' \in solveSat(updates)
          /\ IF newStatesValid(newState') THEN at' = "initialFilter" /\ UNCHANGED outcome
             ELSE Finish("Solver.cpp:691")
          /\ clearAllMarks
  /\ UNCHANGED <<builderVars, updates, newUpdates>>

-----------------------------------------------------------------------------
(***************************************************************************)
(* filterSolution()                                                        *)
(***************************************************************************)
Filtering == at \in {"initialFilter", "updateFilter", "finalFilter"}

\* Mutant of seed: the updates are not part of it.
seed_TaskOnly == userTaskInstall \union userTaskRemove

\* Where Bfs starts: the VarIds fixed by the task or as updates.
seed ==
  userTaskInstall \union userTaskRemove
    \union (IF at = "updateFilter" THEN newUpdates ELSE updates)

Changed(v) == (v \in oldState) # (v \in newState)

OtherLits(v, c) == {l \in c : l.var # v}

\* Mutant of KeepCandidates: a literal is kept whatever its variable's state.
KeepCandidates_AnyPositive(v, c) == {l \in OtherLits(v, c) : ~ l.neg}

\* The literals of a clause of a changed package any one of which suffices to
\* satisfy it.  Best is a package that was installed and remains, then any
\* one installed; for a package going away, one that is not installed.
KeepCandidates(v, c) ==
  LET positive == {l \in OtherLits(v, c) : ~ l.neg /\ l.var \in newState}
      preferred == {l \in positive : l.var \in oldState}
  IN  IF preferred # {} THEN preferred
      ELSE IF positive # {} THEN positive
      ELSE {l \in OtherLits(v, c) : l.neg /\ v \notin newState /\ l.var \notin newState}

\* Packages makeAmbiguousMarks() marks as a whole: unchanged, nobody's wish.
Idle == {v \in hasEntry \ (ambiguous \union seed) : ~ Changed(v)}

\* The clauses of the others that have no marked literal yet.
OpenClauses ==
  {o \in [entry : hasEntry \ (ambiguous \union Idle), clause : UNION {sat[v] : v \in hasEntry}] :
     /\ o.clause \in sat[o.entry]
     /\ \A m \in litMarks : ~ (m.entry = o.entry /\ m.clause = o.clause)}

\* The sets of occurrences with one candidate of each open clause that has
\* one: the first in the clause, whose order is not determined.
KeepChoices ==
  LET withChoice == {o \in OpenClauses : KeepCandidates(o.entry, o.clause) # {}}
  IN  {K \in SUBSET UNION {LitsOf(o.entry, o.clause, KeepCandidates(o.entry, o.clause)) :
                            o \in withChoice} :
         \A o \in withChoice :
           \E k \in K : {j \in K : j.entry = o.entry /\ j.clause = o.clause} = {k}}

\* What makeAmbiguousMarks() marks, called for every entry.
makeAmbiguousMarks(kept) ==
  (UNION {UNION {LitsOf(v, c, OtherLits(v, c)) : c \in sat[v]} : v \in Idle})
    \union (UNION {LitsOf(k.entry, k.clause, OtherLits(k.entry, k.clause) \ {k.lit}) : k \in kept})

\* Bfs: the entries the seed leads to along unmarked literals, provided that
\* the entry at the other end is not marked either.
Bfs(amb, marks) ==
  LET Leads(v, w) ==
        /\ w \in hasEntry \ amb
        /\ \E c \in sat[v] : \E l \in OtherLits(v, c) :
             l.var = w /\ [entry |-> v, clause |-> c, lit |-> l] \notin marks
      closed(R) == \A v \in R, w \in hasEntry : Leads(v, w) => w \in R
  IN  {v \in hasEntry : \A R \in SUBSET hasEntry : (seed \subseteq R /\ closed(R)) => v \in R}

FilterContinues(rolledBack) ==
  /\ newState' = (newState \ rolledBack) \union (rolledBack \intersect oldState)
  /\ UNCHANGED <<at, outcome, updates, newUpdates>>

\* The filter returns and doMainWork() goes on behind it.
FilterReturns ==
  /\ UNCHANGED newState
  /\ IF newStatesValid(newState)
     THEN /\ CASE at = "initialFilter" -> at' = "extend" /\ UNCHANGED <<outcome, updates>>
               [] at = "updateFilter" -> /\ at' = "extend" /\ updates' = newUpdates
                                         /\ UNCHANGED outcome
               [] at = "finalFilter" -> Finish("answered") /\ UNCHANGED updates
     ELSE /\ Finish(CASE at = "initialFilter" -> "Solver.cpp:695"
                      [] at = "updateFilter" -> "Solver.cpp:719"
                      [] at = "finalFilter" -> "Solver.cpp:730")
          /\ UNCHANGED updates
  /\ UNCHANGED newUpdates

\* One pass of the loop of filterSolution().
FilterPass ==
  /\ Filtering
  /\ \E kept \in KeepChoices :
       LET marks == litMarks \union makeAmbiguousMarks(kept)
           amb == ambiguous \union Idle
           rolledBack == {v \in hasEntry \ Bfs(amb, marks) : Changed(v)}
       IN  /\ ambiguous' = amb
           /\ litMarks' = marks
           /\ IF marks = litMarks \/ rolledBack = {} THEN FilterReturns
              ELSE FilterContinues(rolledBack)
  /\ UNCHANGED builderVars

-----------------------------------------------------------------------------
(***************************************************************************)
(* The updates                                                             *)
(***************************************************************************)

\* Every clause of the replacement v holds without the help of a replacement
\* that is not installed.
isInstallableReplacement(v) ==
  \A c \in sat[v] : \E l \in c :
    \/ l = Pos(v)
    \/ /\ l.var \in newState \/ replacementFor[l.var] = BadVarId
       /\ (l.var \in newState) # l.neg

FoundUpdates ==
  {v \in hasEntry \ newState :
     /\ replacementFor[v] # BadVarId
     /\ replacementFor[v] \in oldState \ newState
     /\ isInstallableReplacement(v)}

\* Mutant of ExtendUpdates: newUpdates starts empty.
ExtendUpdates_ForgetsOld ==
  /\ at = "extend"
  /\ newUpdates' = FoundUpdates
  /\ IF FoundUpdates = {} \/ solveSat(newUpdates') = {}
     THEN at' = "final" /\ UNCHANGED <<newState, markVars>>
     ELSE /\ at' = "updateFilter"
          /\ newState' \in solveSat(newUpdates')
          /\ clearAllMarks
  /\ UNCHANGED <<builderVars, outcome, updates>>

\* Mutant of ExtendUpdates: the loop goes on with nothing found.
ExtendUpdates_NeverStops ==
  /\ at = "extend"
  /\ newUpdates' = updates \union FoundUpdates
  /\ IF solveSat(newUpdates') = {}
     THEN at' = "final" /\ UNCHANGED <<newState, markVars>>
     ELSE /\ at' = "updateFilter"
          /\ newState' \in solveSat(newUpdates')
          /\ clearAllMarks
  /\ UNCHANGED <<builderVars, outcome, updates>>

\* The head of the loop; it is left when there is no more to add, or no
\* solution with it.
ExtendUpdates ==
  /\ at = "extend"
  /\ newUpdates' = updates \union FoundUpdates
  /\ IF FoundUpdates = {} \/ solveSat(newUpdates') = {}
     THEN at' = "final" /\ UNCHANGED <<newState, markVars>>
     ELSE /\ at' = "updateFilter"
          /\ newState' \in solveSat(newUpdates')
          /\ clearAllMarks
  /\ UNCHANGED <<builderVars, outcome, updates>>

FinalSolving ==
  /\ at = "final"
  /\ IF solveSat(updates) = {}
     THEN Finish("Solver.cpp:725") /\ UNCHANGED <<newState, markVars>>
     ELSE /\ at' = "finalFilter"
          /\ newState' \in solveSat(updates)
          /\ clearAllMarks
          /\ UNCHANGED outcome
  /\ UNCHANGED <<builderVars, updates, newUpdates>>

SolverNext ==
  \/ Build
  \/ BeginWork
  \/ InitialSolving
  \/ FilterPass
  \/ ExtendUpdates
  \/ FinalSolving

\* solve() runs in one thread that nothing blocks.
SolverSpec == SolverInit /\ [][SolverNext]_allVars /\ WF_allVars(SolverNext)

-----------------------------------------------------------------------------
\* The two lists solve() fills in; ambiguous entries are not looked at.
install == IF outcome = "answered" THEN newState \ (oldState \union ambiguous) ELSE {}
remove == IF outcome = "answered" THEN oldState \ (newState \union ambiguous) ELSE {}

SolverTypeOK ==
  /\ at \in {"build", "initial", "initialFilter", "extend", "updateFilter", "final",
             "finalFilter", "end"}
  /\ outcome \in Failure \union {"answered", "UnsolvableSat", "Solver.cpp:691", "Solver.cpp:695",
                                 "Solver.cpp:719", "Solver.cpp:725", "Solver.cpp:730"}
  /\ newState \subseteq hasEntry
  /\ updates \subseteq newUpdates
  /\ newUpdates \subseteq hasEntry
  /\ ambiguous \subseteq hasEntry
  /\ litMarks \subseteq Occurrence

\* The asserts of doMainWork(): every solution, and whatever the filter makes
\* of it, satisfies the whole equation (Solver.cpp:691, :695, :719, :730), and
\* what has been solved with some updates can be solved with them again (:725).
SolverAssertsHold ==
  outcome \notin {"Solver.cpp:691", "Solver.cpp:695", "Solver.cpp:719", "Solver.cpp:725",
                  "Solver.cpp:730"}

\* Upgrading is what the loop of Solver.cpp:698-722 is for: each package it
\* has added to the updates gets installed in the end, in place of the old
\* version of it, whatever solution the last call of the SAT solver finds.
UpdatesReplaceOldVersions ==
  outcome = "answered" =>
    /\ updates \subseteq install
    /\ \A u \in updates : replacementFor[u] \in remove

\* solve() implements its contract: see TaskSolver.
Contract == INSTANCE TaskSolver WITH
  outcome <- CASE outcome = "" -> "working" [] outcome = "answered" -> "answered"
               [] OTHER -> "refused"

ImplementsTaskSolver == Contract!Spec

\* solve() comes to an end: filter passes and update rounds do.
SolverEnds == <>(at = "end")

=============================================================================
