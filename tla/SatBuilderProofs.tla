-------------------------- MODULE SatBuilderProofs --------------------------
(***************************************************************************)
(* Theorems about SatBuilder, for every set of packages, scope and task.   *)
(***************************************************************************)
EXTENDS SatBuilder, FiniteSetTheorems, SequenceTheorems, TLAPS

-----------------------------------------------------------------------------
(***************************************************************************)
(* Lemmas about the operators the actions are built from                   *)
(***************************************************************************)

\* A listing of a set of packages is a sequence of them that lists them all.
LEMMA OrderingsListAll ==
  ASSUME NEW S, S \subseteq Var, NEW order \in Orderings(S)
  PROVE  order \in Seq(Var) /\ ToSet(order) = S
<1>1. IsFiniteSet(S)
  BY BuilderAssumption, FS_Subset
<1>2. Cardinality(S) \in Nat
  BY <1>1, FS_CardinalityType
<1>3. order \in [1..Cardinality(S) -> S] /\ ToSet(order) = S
  BY DEF Orderings
<1> QED
  BY <1>2, <1>3

\* The elements of two sequences one after the other.
LEMMA ToSetOfConcat ==
  ASSUME NEW s \in Seq(Var), NEW t \in Seq(Var)
  PROVE  s \o t \in Seq(Var) /\ ToSet(s \o t) = ToSet(s) \union ToSet(t)
<1>1. s \o t \in Seq(Var) /\ Range(s \o t) = Range(s) \union Range(t)
  BY ConcatProperties, RangeConcatenation
<1>2. ToSet(s) = Range(s) /\ ToSet(t) = Range(t) /\ ToSet(s \o t) = Range(s \o t)
  BY DEF ToSet, Range
<1> QED
  BY <1>1, <1>2

\* What use() puts off is added to m_pending, and nothing leaves it.
LEMMA UseAdds ==
  ASSUME NEW S, S \subseteq Var, NEW last \in Seq(Var), pending \in Seq(Var), use(S, last)
  PROVE  /\ pending' \in Seq(Var)
         /\ ToSet(pending') = ToSet(pending) \union S \union ToSet(last)
<1>1. PICK order \in Orderings(S) : pending' = (pending \o order) \o last
  BY DEF use
<1>2. order \in Seq(Var) /\ ToSet(order) = S
  BY OrderingsListAll
<1>3. pending \o order \in Seq(Var) /\ ToSet(pending \o order) = ToSet(pending) \union S
  BY <1>2, ToSetOfConcat
<1> QED
  BY <1>1, <1>3, ToSetOfConcat

\* The running call is a frame and so is every call below it.
LEMMA TopOfStack ==
  ASSUME NEW F, stack \in Seq(F), stack # <<>>
  PROVE  top \in F /\ Tail(stack) \in Seq(F)
BY HeadTailProperties DEF top

\* A stack of frames stays one when its top is replaced.
LEMMA ReplaceTop ==
  ASSUME NEW F, NEW f \in F, NEW rest \in Seq(F)
  PROVE  /\ <<f>> \o rest \in Seq(F)
         /\ <<f>> \o rest # <<>>
         /\ Head(<<f>> \o rest) = f
         /\ Tail(<<f>> \o rest) = rest
<1>1. <<f>> \in Seq(F) /\ Len(<<f>>) = 1 /\ <<f>>[1] = f
  OBVIOUS
<1>2. /\ <<f>> \o rest \in Seq(F)
      /\ Len(<<f>> \o rest) = 1 + Len(rest)
      /\ (<<f>> \o rest)[1] = f
  BY <1>1, ConcatProperties
<1>3. Head(<<f>> \o rest) = f /\ <<f>> \o rest # <<>>
  BY <1>2
<1>4. Tail(<<f>> \o rest) = rest
  BY <1>1, <1>2
<1> QED
  BY <1>2, <1>3, <1>4

-----------------------------------------------------------------------------
(***************************************************************************)
(* Type correctness                                                        *)
(***************************************************************************)

\* What the queries return, by the type of the scope.
LEMMA ScopeTypes ==
  ASSUME scope \in PkgScopeType
  PROVE  /\ scope.installed \subseteq Var
         /\ \A v \in Var : /\ VersionsOf(v) \subseteq Var
                           /\ RelsOf(v, getRequires(v)) \subseteq OwnedRel
                           /\ RelsOf(v, getConflicts(v)) \subseteq OwnedRel
                           /\ whatDependAmongInstalled(v) \subseteq OwnedRel
                           /\ whatConflictAmongInstalled(v) \subseteq OwnedRel
         /\ \A r : selectMatchingVarsWithProvides(r) \subseteq Var
<1>1. \A v \in Var : scope.requires[v] \subseteq PkgRel /\ scope.conflicts[v] \subseteq PkgRel
  BY DEF PkgScopeType
<1>2. scope.installed \subseteq Var
  BY DEF PkgScopeType
<1>3. \A v \in Var : RelsOf(v, scope.requires[v]) \subseteq OwnedRel
                     /\ RelsOf(v, scope.conflicts[v]) \subseteq OwnedRel
  BY <1>1 DEF RelsOf, OwnedRel
<1>4. \A v \in Var : whatDependAmongInstalled(v) \subseteq OwnedRel
                     /\ whatConflictAmongInstalled(v) \subseteq OwnedRel
  BY <1>2, <1>3 DEF whatDependAmongInstalled, whatConflictAmongInstalled
<1> QED
  BY <1>2, <1>3, <1>4 DEF VersionsOf, getRequires, getConflicts,
                          selectMatchingVarsWithProvides

\* The call CallFor() makes is a frame about to be entered.
LEMMA CallForType ==
  ASSUME NEW v \in Var
  PROVE  CallFor(v) \in Frame /\ CallFor(v).pc = "enter" /\ CallFor(v).var = v
BY DEF CallFor, Call, Frame

\* Moving the running call on keeps the stack a stack of frames.
LEMMA GotoType ==
  ASSUME stack \in Seq(Frame), stack # <<>>,
         NEW pc \in {"others", "requires", "conflicts", "installedConflicts", "dependents"},
         NEW todo, todo \subseteq OwnedRel, Goto(pc, todo)
  PROVE  stack' \in Seq(Frame)
<1>1. top \in Frame /\ Tail(stack) \in Seq(Frame)
  BY TopOfStack
<1>2. [top EXCEPT !.pc = pc, !.todo = todo] \in Frame
  BY <1>1 DEF Frame
<1> QED
  BY <1>1, <1>2, ReplaceTop DEF Goto

\* The next iteration of a loop only shortens what is left of it.
LEMMA NextIterationType ==
  ASSUME stack \in Seq(Frame), stack # <<>>, top.pc \notin {"enter", "reconstruct"},
         NEW o, NextIteration(o)
  PROVE  stack' \in Seq(Frame)
<1>1. top \in Frame
  BY TopOfStack
<1>2. top.pc \in {"others", "requires", "conflicts", "installedConflicts", "dependents"}
      /\ top.todo \ {o} \subseteq OwnedRel
  BY <1>1 DEF Frame
<1> QED
  BY <1>2, GotoType DEF NextIteration

\* useGerms() keeps the table well typed.
LEMMA UseGermsType ==
  ASSUME TypeOK, NEW S, S \subseteq Var, NEW v \in Var, useGerms(S, v)
  PROVE  /\ hasEntry' \subseteq Var
         /\ germ' \subseteq hasEntry'
         /\ reconstruct' \in [Var -> Seq(Var)]
<1>1. GermsAmong(S) \subseteq Var
  BY DEF GermsAmong
<1>2. \A w \in Var : reconstruct[w] \in Seq(Var) /\ Append(reconstruct[w], v) \in Seq(Var)
  BY DEF TypeOK
<1> QED
  BY <1>1, <1>2 DEF useGerms, TypeOK

\* The pieces the loops of a visit are built from keep the types as well.
LEMMA PiecesType ==
  ASSUME TypeOK, stack # <<>>, NEW v \in Var
  PROVE  /\ \A clause \in SUBSET Lit : GiveUp(v, clause) =>
              /\ sat' \in [Var -> SUBSET SUBSET Lit]
              /\ stack' \in Seq(Frame)
              /\ UNCHANGED <<pending, hasEntry, germ, reconstruct>>
         /\ \A S \in SUBSET Var : Block(S, v) =>
              /\ sat' \in [Var -> SUBSET SUBSET Lit]
              /\ pending' \in Seq(Var)
              /\ hasEntry' \subseteq Var
              /\ germ' \subseteq hasEntry'
              /\ reconstruct' \in [Var -> Seq(Var)]
         /\ \A A \in SUBSET Var : \A last \in Seq(Var) : \A clause \in SUBSET Lit :
              RequireClause(v, A, last, clause) =>
                /\ sat' \in [Var -> SUBSET SUBSET Lit]
                /\ pending' \in Seq(Var)
                /\ hasEntry' \subseteq Var
                /\ germ' \subseteq hasEntry'
                /\ reconstruct' \in [Var -> Seq(Var)]
<1>1. ASSUME NEW clause \in SUBSET Lit, GiveUp(v, clause)
      PROVE  /\ sat' \in [Var -> SUBSET SUBSET Lit]
             /\ stack' \in Seq(Frame)
             /\ UNCHANGED <<pending, hasEntry, germ, reconstruct>>
  BY <1>1, TopOfStack DEF GiveUp, Return, TypeOK
<1>2. ASSUME NEW S \in SUBSET Var, Block(S, v)
      PROVE  /\ sat' \in [Var -> SUBSET SUBSET Lit]
             /\ pending' \in Seq(Var)
             /\ hasEntry' \subseteq Var
             /\ germ' \subseteq hasEntry'
             /\ reconstruct' \in [Var -> Seq(Var)]
  <2>1. PICK blocked \in SUBSET Var :
          sat' = [sat EXCEPT ![v] = @ \union {onConflict(v, w) : w \in blocked}]
    BY <1>2 DEF Block
  <2>2. \A w \in Var : onConflict(v, w) \in SUBSET Lit
    BY DEF onConflict, Neg, Lit
  <2>3. sat' \in [Var -> SUBSET SUBSET Lit]
    BY <2>1, <2>2 DEF TypeOK
  <2>4. pending' \in Seq(Var)
    BY <1>2, UseAdds, EmptySeq DEF Block, TypeOK
  <2> QED
    BY <1>2, <2>3, <2>4, UseGermsType DEF Block
<1>3. ASSUME NEW A \in SUBSET Var, NEW last \in Seq(Var), NEW clause \in SUBSET Lit,
             RequireClause(v, A, last, clause)
      PROVE  /\ sat' \in [Var -> SUBSET SUBSET Lit]
             /\ pending' \in Seq(Var)
             /\ hasEntry' \subseteq Var
             /\ germ' \subseteq hasEntry'
             /\ reconstruct' \in [Var -> Seq(Var)]
  <2>1. CASE UNCHANGED <<pending, sat>>
    BY <1>3, <2>1, UseGermsType DEF RequireClause, TypeOK
  <2>2. CASE use(A, last) /\ sat' = [sat EXCEPT ![v] = @ \union {clause}]
    <3>1. pending' \in Seq(Var)
      BY <2>2, UseAdds DEF TypeOK
    <3>2. sat' \in [Var -> SUBSET SUBSET Lit]
      BY <2>2 DEF TypeOK
    <3> QED
      BY <1>3, <3>1, <3>2, UseGermsType DEF RequireClause
  <2> QED
    BY <1>3, <2>1, <2>2 DEF RequireClause
<1> QED
  BY <1>1, <1>2, <1>3

\* In the middle of a visit, the package visited and what its queries return
\* are of the right type.
LEMMA VisitTypes ==
  ASSUME TypeOK, NEW op, NEW pc, At(op, pc)
  PROVE  /\ stack # <<>> /\ stack \in Seq(Frame) /\ top \in Frame
         /\ top.pc = pc /\ top.var \in Var /\ top.todo \subseteq OwnedRel
         /\ Tail(stack) \in Seq(Frame)
         /\ scope \in PkgScopeType
<1>1. stack # <<>> /\ stack \in Seq(Frame) /\ top.pc = pc /\ scope \in PkgScopeType
  BY DEF At, TypeOK
<1>2. top \in Frame /\ Tail(stack) \in Seq(Frame)
  BY <1>1, TopOfStack
<1>3. top.var \in Var /\ top.todo \subseteq OwnedRel
  BY <1>2 DEF Frame
<1> QED
  BY <1>1, <1>2, <1>3

\* The loops are over relations of packages.
LEMMA OwnerType ==
  ASSUME TypeOK, NEW o \in loop
  PROVE  o.owner \in Var /\ <<o.owner>> \in Seq(Var)
<1>1. stack # <<>> /\ o \in top.todo
  BY DEF loop
<1>2. top \in Frame
  BY <1>1, TopOfStack DEF TypeOK
<1>3. o.owner \in Var
  BY <1>1, <1>2 DEF Frame, OwnedRel
<1> QED
  BY <1>3

\* Clauses about packages are clauses.
LEMMA ClauseTypes ==
  ASSUME NEW v \in Var, NEW w \in Var, NEW A \in SUBSET Var
  PROVE  /\ uninstallable(v) \in SUBSET Lit
         /\ unremovable(v) \in SUBSET Lit
         /\ onConflict(v, w) \in SUBSET Lit
         /\ onRequire(v, A) \in SUBSET Lit
         /\ onDependent(v, w, A) \in SUBSET Lit
<1>1. \A u \in Var : Pos(u) \in Lit /\ Neg(u) \in Lit
  BY DEF Pos, Neg, Lit
<1>2. {Pos(a) : a \in A} \subseteq Lit
  BY <1>1
<1> QED
  BY <1>1, <1>2 DEF uninstallable, unremovable, onConflict, onRequire, onDependent

LEMMA toBeInstalledKeepsTypes ==
  ASSUME TypeOK, toBeInstalled
  PROVE  TypeOK'
<1> USE DEF taskVars, tableVars
<1>1. CASE BeginInstall
  <2>1. stack' \in Seq(Frame)
    BY <1>1, VisitTypes, GotoType DEF BeginInstall
  <2>2. top \in Frame
    BY <1>1, VisitTypes DEF BeginInstall
  <2>3. replacementFor' \in [Var -> Var \union {BadVarId}] /\ sat' \in [Var -> SUBSET SUBSET Lit]
    BY <1>1, <2>2 DEF BeginInstall, TypeOK, Frame
  <2> QED
    BY <1>1, <2>1, <2>3 DEF BeginInstall, TypeOK
<1>2. CASE BlockOtherVersions
  <2> DEFINE v == top.var
             others == VersionsOf(v) \ ({v} \union userTaskRemove)
  <2>1. v \in Var /\ others \in SUBSET Var /\ stack # <<>> /\ stack \in Seq(Frame)
        /\ RelsOf(v, getRequires(v)) \subseteq OwnedRel
    BY <1>2, VisitTypes, ScopeTypes DEF BlockOtherVersions
  <2>2. uninstallable(v) \in SUBSET Lit
    BY <2>1, ClauseTypes
  <2>3. CASE GiveUp(v, uninstallable(v))
    BY <1>2, <2>1, <2>2, <2>3, PiecesType DEF BlockOtherVersions, TypeOK
  <2>4. CASE Block(others, v) /\ Goto("requires", RelsOf(v, getRequires(v)))
    <3>1. stack' \in Seq(Frame)
      BY <2>1, <2>4, GotoType
    <3> QED
      BY <1>2, <2>1, <2>4, <3>1, PiecesType DEF BlockOtherVersions, TypeOK
  <2> QED
    BY <1>2, <2>3, <2>4 DEF BlockOtherVersions
<1>3. ASSUME NEW o, Require(o)
      PROVE  TypeOK'
  <2> DEFINE v == top.var
             alternatives == selectMatchingVarsWithProvides(o.rel) \ userTaskRemove
  <2>1. v \in Var /\ alternatives \in SUBSET Var /\ stack # <<>> /\ stack \in Seq(Frame)
        /\ top.pc = "requires"
    BY <1>3, VisitTypes, ScopeTypes DEF Require
  <2>2. uninstallable(v) \in SUBSET Lit /\ onRequire(v, alternatives) \in SUBSET Lit
    BY <2>1, ClauseTypes
  <2>3. CASE Stop("thrown", "Unmet")
             /\ UNCHANGED <<pending, stack, hasEntry, germ, sat, reconstruct>>
    BY <1>3, <2>3 DEF Require, Stop, Failure, TypeOK
  <2>4. CASE UNCHANGED <<phase, failure>> /\ GiveUp(v, uninstallable(v))
    BY <1>3, <2>1, <2>2, <2>4, PiecesType DEF Require, TypeOK
  <2>5. CASE UNCHANGED <<phase, failure>> /\ NextIteration(o)
             /\ UNCHANGED <<pending, hasEntry, germ, sat, reconstruct>>
    BY <1>3, <2>1, <2>5, NextIterationType DEF Require, TypeOK
  <2>6. CASE UNCHANGED <<phase, failure>> /\ NextIteration(o)
             /\ RequireClause(v, alternatives, <<>>, onRequire(v, alternatives))
    <3>1. stack' \in Seq(Frame) /\ <<>> \in Seq(Var)
      BY <2>1, <2>6, NextIterationType, EmptySeq
    <3>2. /\ sat' \in [Var -> SUBSET SUBSET Lit]
          /\ pending' \in Seq(Var)
          /\ hasEntry' \subseteq Var
          /\ germ' \subseteq hasEntry'
          /\ reconstruct' \in [Var -> Seq(Var)]
      BY <2>1, <2>2, <2>6, <3>1, PiecesType
    <3> QED
      BY <1>3, <2>6, <3>1, <3>2 DEF Require, TypeOK
  <2> QED
    BY <1>3, <2>3, <2>4, <2>5, <2>6 DEF Require
<1>4. CASE EndRequires
  <2>1. RelsOf(top.var, getConflicts(top.var)) \subseteq OwnedRel
    BY <1>4, VisitTypes, ScopeTypes DEF EndRequires
  <2>2. stack' \in Seq(Frame)
    BY <1>4, <2>1, VisitTypes, GotoType DEF EndRequires
  <2> QED
    BY <1>4, <2>2 DEF EndRequires, TypeOK
<1>5. ASSUME NEW o, Conflict(o)
      PROVE  TypeOK'
  <2> DEFINE v == top.var
             others == selectMatchingVarsWithProvides(o.rel) \ ({v} \union userTaskRemove)
  <2>1. v \in Var /\ others \in SUBSET Var /\ stack # <<>> /\ stack \in Seq(Frame)
        /\ top.pc = "conflicts"
    BY <1>5, VisitTypes, ScopeTypes DEF Conflict
  <2>2. uninstallable(v) \in SUBSET Lit
    BY <2>1, ClauseTypes
  <2>3. CASE GiveUp(v, uninstallable(v))
    BY <1>5, <2>1, <2>2, <2>3, PiecesType DEF Conflict, TypeOK
  <2>4. CASE Block(others, v) /\ NextIteration(o)
    <3>1. stack' \in Seq(Frame)
      BY <2>1, <2>4, NextIterationType
    <3> QED
      BY <1>5, <2>1, <2>4, <3>1, PiecesType DEF Conflict, TypeOK
  <2> QED
    BY <1>5, <2>3, <2>4 DEF Conflict
<1>6. CASE EndConflicts
  <2>1. whatConflictAmongInstalled(top.var) \subseteq OwnedRel
    BY <1>6, VisitTypes, ScopeTypes DEF EndConflicts
  <2>2. stack' \in Seq(Frame)
    BY <1>6, <2>1, VisitTypes, GotoType DEF EndConflicts
  <2> QED
    BY <1>6, <2>2 DEF EndConflicts, TypeOK
<1>7. ASSUME NEW o \in loop, InstalledConflict(o)
      PROVE  TypeOK'
  <2> DEFINE v == top.var
  <2>1. v \in Var /\ stack # <<>> /\ stack \in Seq(Frame) /\ top.pc = "installedConflicts"
    BY <1>7, VisitTypes DEF InstalledConflict
  <2>2. o.owner \in Var
    BY <1>7, OwnerType
  <2>3. uninstallable(v) \in SUBSET Lit /\ onConflict(v, o.owner) \in SUBSET Lit
    BY <2>1, <2>2, ClauseTypes
  <2>4. CASE GiveUp(v, uninstallable(v))
    BY <1>7, <2>1, <2>3, <2>4, PiecesType DEF InstalledConflict, TypeOK
  <2>5. CASE NextIteration(o) /\ UNCHANGED <<sat, pending, hasEntry, germ, reconstruct>>
    BY <1>7, <2>1, <2>5, NextIterationType DEF InstalledConflict, TypeOK
  <2>6. CASE /\ NextIteration(o)
             /\ sat' = [sat EXCEPT ![v] = @ \union {onConflict(v, o.owner)}]
             /\ use({}, <<o.owner>>)
             /\ UNCHANGED <<hasEntry, germ, reconstruct>>
    <3>1. <<o.owner>> \in Seq(Var)
      BY <2>2
    <3>2. pending' \in Seq(Var)
      BY <2>6, <3>1, UseAdds DEF TypeOK
    <3>3. sat' \in [Var -> SUBSET SUBSET Lit]
      BY <2>3, <2>6 DEF TypeOK
    <3>4. stack' \in Seq(Frame)
      BY <2>1, <2>6, NextIterationType
    <3> QED
      BY <1>7, <2>6, <3>2, <3>3, <3>4 DEF InstalledConflict, TypeOK
  <2> QED
    BY <1>7, <2>4, <2>5, <2>6 DEF InstalledConflict
<1>8. CASE EndInstall
  BY <1>8, VisitTypes DEF EndInstall, Return, TypeOK
<1> QED
  BY <1>1, <1>2, <1>3, <1>4, <1>5, <1>6, <1>7, <1>8 DEF toBeInstalled

LEMMA toBeRemovedKeepsTypes ==
  ASSUME TypeOK, toBeRemoved
  PROVE  TypeOK'
<1> USE DEF taskVars, tableVars
<1>1. CASE BeginRemove
  <2>1. whatDependAmongInstalled(top.var) \subseteq OwnedRel
    BY <1>1, VisitTypes, ScopeTypes DEF BeginRemove
  <2>2. stack' \in Seq(Frame)
    BY <1>1, <2>1, VisitTypes, GotoType DEF BeginRemove
  <2>3. sat' \in [Var -> SUBSET SUBSET Lit]
    BY <1>1 DEF BeginRemove, TypeOK
  <2> QED
    BY <1>1, <2>2, <2>3 DEF BeginRemove, TypeOK
<1>2. ASSUME NEW o \in loop, Dependent(o)
      PROVE  TypeOK'
  <2> DEFINE v == top.var
             alternatives == selectMatchingVarsWithProvides(o.rel)
                               \ ({v} \union userTaskRemove)
  <2>1. v \in Var /\ alternatives \in SUBSET Var /\ stack # <<>> /\ stack \in Seq(Frame)
        /\ top.pc = "dependents"
    BY <1>2, VisitTypes, ScopeTypes DEF Dependent
  <2>2. o.owner \in Var /\ <<o.owner>> \in Seq(Var)
    BY <1>2, OwnerType
  <2>3. unremovable(v) \in SUBSET Lit /\ onDependent(v, o.owner, alternatives) \in SUBSET Lit
    BY <2>1, <2>2, ClauseTypes
  <2>4. CASE GiveUp(v, unremovable(v))
    BY <1>2, <2>1, <2>3, <2>4, PiecesType DEF Dependent, TypeOK
  <2>5. CASE NextIteration(o) /\ UNCHANGED <<pending, hasEntry, germ, sat, reconstruct>>
    BY <1>2, <2>1, <2>5, NextIterationType DEF Dependent, TypeOK
  <2>6. CASE /\ NextIteration(o)
             /\ RequireClause(v, alternatives, <<o.owner>>,
                              onDependent(v, o.owner, alternatives))
    <3>1. stack' \in Seq(Frame)
      BY <2>1, <2>6, NextIterationType
    <3>2. /\ sat' \in [Var -> SUBSET SUBSET Lit]
          /\ pending' \in Seq(Var)
          /\ hasEntry' \subseteq Var
          /\ germ' \subseteq hasEntry'
          /\ reconstruct' \in [Var -> Seq(Var)]
      BY <2>1, <2>2, <2>3, <2>6, <3>1, PiecesType
    <3> QED
      BY <1>2, <2>6, <3>1, <3>2 DEF Dependent, TypeOK
  <2> QED
    BY <1>2, <2>4, <2>5, <2>6 DEF Dependent
<1>3. CASE Replace
  <2>1. top.var \in Var /\ Tail(stack) \in Seq(Frame)
    BY <1>3, VisitTypes DEF Replace
  <2>2. \A r \in Var : Call("install", r, top.var) \in Frame
    BY <2>1 DEF Call, Frame
  <2>3. \A r \in Var : <<Call("install", r, top.var)>> \o Tail(stack) \in Seq(Frame)
    BY <2>1, <2>2, ReplaceTop
  <2>4. \A u : selectTheNewest(VersionsOf(u) \ {u}) \subseteq Var
    BY DEF selectTheNewest, VersionsOf
  <2>5. stack' \in Seq(Frame)
    BY <1>3, <2>1, <2>3, <2>4 DEF Replace, Return
  <2> QED
    BY <1>3, <2>5 DEF Replace, TypeOK
<1> QED
  BY <1>1, <1>2, <1>3 DEF toBeRemoved

\* Every action keeps the types.
LEMMA NextKeepsTypes ==
  ASSUME TypeOK, Next
  PROVE  TypeOK'
<1> USE DEF taskVars, tableVars
<1>1. CASE OnUserTask
  <2>1. ASSUME NEW chosen \in SUBSET Var
        PROVE  toRemoveFor(chosen) \subseteq Var
    BY DEF toRemoveFor, VersionsOf
  <2>2. ASSUME NEW choice \in [userTask.itemsToInstall -> Var]
        PROVE  {choice[item] : item \in userTask.itemsToInstall} \in SUBSET Var
    OBVIOUS
  <2>3. userTaskInstall' \subseteq Var /\ userTaskRemove' \subseteq Var /\ userLoop' \subseteq Var
    BY <1>1, <2>1, <2>2 DEF OnUserTask, TypeOK
  <2>4. phase' \in {"install", "thrown"} /\ failure' \in Failure
    BY <1>1 DEF OnUserTask, Stop, Failure, TypeOK
  <2> QED
    BY <1>1, <2>3, <2>4 DEF OnUserTask, TypeOK
<1>2. ASSUME NEW ph, NEW op, NextOfUserTask(ph, op)
      PROVE  TypeOK'
  BY <1>2, CallForType DEF NextOfUserTask, TypeOK
<1>3. ASSUME NEW ph, NEW next \in {"remove", "pending"}, NEW rest \in SUBSET Var,
             EndOfUserTask(ph, next, rest)
      PROVE  TypeOK'
  BY <1>3 DEF EndOfUserTask, TypeOK
<1>4. CASE OnPending
  BY <1>4, CallForType, SubSeqProperties DEF OnPending, TypeOK
<1>5. CASE FinishBuild
  <2>1. hasEntry' \subseteq Var /\ germ' \subseteq hasEntry'
    BY <1>5 DEF FinishBuild, FullEntry, TypeOK
  <2>2. reconstruct' \in [Var -> Seq(Var)]
    BY <1>5, EmptySeq DEF FinishBuild, TypeOK
  <2>3. phase' \in {"built", "abort"} /\ failure' \in Failure
    BY <1>5 DEF FinishBuild, Stop, Failure, TypeOK
  <2> QED
    BY <1>5, <2>1, <2>2, <2>3 DEF FinishBuild, TypeOK
<1>6. CASE AssertFails
  <2>1. FailedAssert \in Failure
    BY DEF FailedAssert, Failure
  <2> QED
    BY <1>6, <2>1 DEF AssertFails, Stop, TypeOK
<1>7. CASE Enter
  <2>1. top \in Frame /\ Tail(stack) \in Seq(Frame)
    BY <1>7, TopOfStack DEF Enter, TypeOK
  <2>2. [top EXCEPT !.pc = "reconstruct", !.calls = reconstruct[top.var]] \in Frame
    BY <2>1 DEF Frame, TypeOK
  <2>3. stack' \in Seq(Frame)
    BY <1>7, <2>1, <2>2, ReplaceTop DEF Enter
  <2>4. top.var \in Var
    BY <2>1 DEF Frame
  <2>5. reconstruct' \in [Var -> Seq(Var)]
    BY <1>7, EmptySeq DEF Enter, TypeOK
  <2> QED
    BY <1>7, <2>3, <2>4, <2>5 DEF Enter, TypeOK
<1>8. CASE Reconstruct
  <2>1. top \in Frame /\ Tail(stack) \in Seq(Frame)
    BY <1>8, TopOfStack DEF Reconstruct, TypeOK
  <2>2. /\ Head(top.calls) \in Var
        /\ [top EXCEPT !.calls = Tail(top.calls)] \in Frame
    BY <1>8, <2>1, HeadTailProperties DEF Reconstruct, Frame
  <2>3. CallFor(Head(top.calls)) \in Frame
    BY <2>2, CallForType
  <2>4. <<CallFor(Head(top.calls)), [top EXCEPT !.calls = Tail(top.calls)]>> \in Seq(Frame)
    BY <2>2, <2>3
  <2>5. <<CallFor(Head(top.calls)), [top EXCEPT !.calls = Tail(top.calls)]>> \o Tail(stack)
          \in Seq(Frame)
    BY <2>1, <2>4, ConcatProperties
  <2>6. phase' \in {phase, "abort"} /\ failure' \in Failure
    BY <1>8 DEF Reconstruct, Stop, Failure, TypeOK
  <2> QED
    BY <1>8, <2>5, <2>6 DEF Reconstruct, TypeOK
<1>9. CASE toBeInstalled
  BY <1>9, toBeInstalledKeepsTypes
<1>10. CASE toBeRemoved
  BY <1>10, toBeRemovedKeepsTypes
<1>11. userTaskRemove \in SUBSET Var /\ {} \in SUBSET Var
  BY DEF TypeOK
<1> QED
  BY <1>1, <1>2, <1>3, <1>4, <1>5, <1>6, <1>7, <1>8, <1>9, <1>10, <1>11 DEF Next

\* The steps of build() without the fairness that makes it end: all that the
\* safety theorems need, and what a caller of build() may rely on.
BuildSteps == Init /\ [][Next]_vars

\* The types are kept along any steps of build().
LEMMA TypesAlways == BuildSteps => []TypeOK
<1>1. Init => TypeOK
  <2> SUFFICES ASSUME Init PROVE TypeOK
    OBVIOUS
  <2>1. scope \in PkgScopeType /\ userTask \in UserTask
    BY BuilderAssumption DEF Init
  <2>2. pending \in Seq(Var) /\ stack \in Seq(Frame) /\ reconstruct \in [Var -> Seq(Var)]
    BY EmptySeq DEF Init
  <2> QED
    BY <2>1, <2>2 DEF Init, TypeOK, Failure
<1>2. TypeOK /\ [Next]_vars => TypeOK'
  <2> SUFFICES ASSUME TypeOK, [Next]_vars PROVE TypeOK'
    OBVIOUS
  <2>1. CASE Next
    BY <2>1, NextKeepsTypes
  <2>2. CASE UNCHANGED vars
    BY <2>2 DEF vars, taskVars, tableVars, TypeOK
  <2> QED
    BY <2>1, <2>2
<1> QED
  BY <1>1, <1>2, PTL DEF BuildSteps

\* Type correctness: in every reachable state the variables of the builder
\* hold values of their C++ types.
THEOREM TypeCorrect == Spec => []TypeOK
BY TypesAlways, PTL DEF Spec, BuildSteps

-----------------------------------------------------------------------------
(***************************************************************************)
(* The equation mentions only packages that were visited                   *)
(***************************************************************************)

\* The packages visited, waiting for it or being entered.
ToBeVisited ==
  FullEntry \union ToSet(pending)
    \union {v \in Var : stack # <<>> /\ top.pc = "enter" /\ v = top.var}

\* A frame of a call in progress: only installed packages are removed, a
\* package has a full entry once it is entered, and so have those on the list
\* the call is rewriting.
VisitFrame ==
  {f \in Frame : /\ f.op = "remove" => f.var \in scope.installed
                 /\ f.pc # "enter" => f.var \in FullEntry
                 /\ f.calls \in Seq(FullEntry)}

LiteralsIn(V) == \A v \in Var : \A c \in sat[v] : \A l \in c : l.var \in V

\* The inductive invariant.  A germ lists only packages that have been
\* visited, as the asserts of reconstruct() demand, because useGerms() is
\* called for the package being visited and a full entry stays full.
EquationInv ==
  /\ stack \in Seq(VisitFrame)
  /\ reconstruct \in [Var -> Seq(FullEntry)]
  /\ LiteralsIn(ToBeVisited)
  /\ NoInternalAssertFails

\* What a step in the middle of a visit leaves behind.
VisitStep ==
  /\ FullEntry' = FullEntry
  /\ reconstruct' \in [Var -> Seq(FullEntry)]
  /\ \A u \in Var : \A c \in sat'[u] : \A l \in c :
       l.var \in FullEntry \union ToSet(pending')

\* A step in the middle of a visit that keeps the calls keeps the invariant.
LEMMA VisitStepKeepsInv ==
  ASSUME EquationInv, VisitStep, UNCHANGED <<scope, failure>>, stack' \in Seq(VisitFrame)
  PROVE  EquationInv'
<1>1. VisitFrame' = VisitFrame
  BY DEF VisitStep, VisitFrame
<1>2. LiteralsIn(ToBeVisited)'
  BY DEF VisitStep, LiteralsIn, ToBeVisited
<1> QED
  BY <1>1, <1>2 DEF EquationInv, VisitStep, NoInternalAssertFails

\* A visit takes place at a package with a full entry.
LEMMA VisitAtFullEntry ==
  ASSUME TypeOK, EquationInv, NEW op, NEW pc, pc # "enter", At(op, pc)
  PROVE  /\ top \in VisitFrame
         /\ Tail(stack) \in Seq(VisitFrame)
         /\ top.var \in FullEntry
         /\ LiteralsIn(FullEntry \union ToSet(pending))
<1>1. stack # <<>> /\ top.pc = pc
  BY DEF At
<1>2. top \in VisitFrame /\ Tail(stack) \in Seq(VisitFrame)
  BY <1>1, TopOfStack DEF EquationInv
<1>3. ToBeVisited = FullEntry \union ToSet(pending)
  BY <1>1 DEF ToBeVisited
<1> QED
  BY <1>1, <1>2, <1>3 DEF VisitFrame, EquationInv

\* Going on in the same visit keeps the calls.
LEMMA GotoKeepsFrames ==
  ASSUME TypeOK, EquationInv, NEW op, NEW pc, pc # "enter", At(op, pc),
         NEW next \in {"others", "requires", "conflicts", "installedConflicts", "dependents"},
         NEW todo, todo \subseteq OwnedRel, Goto(next, todo)
  PROVE  stack' \in Seq(VisitFrame)
<1>1. top \in VisitFrame /\ Tail(stack) \in Seq(VisitFrame) /\ top.var \in FullEntry
  BY VisitAtFullEntry
<1>2. [top EXCEPT !.pc = next, !.todo = todo] \in VisitFrame
  BY <1>1 DEF VisitFrame, Frame
<1> QED
  BY <1>1, <1>2, ReplaceTop DEF Goto

LEMMA NextIterationKeepsFrames ==
  ASSUME TypeOK, EquationInv, NEW op,
         NEW pc \in {"requires", "conflicts", "installedConflicts", "dependents"},
         At(op, pc), NEW o, NextIteration(o)
  PROVE  stack' \in Seq(VisitFrame)
BY VisitTypes, GotoKeepsFrames DEF NextIteration

\* useGerms() makes and unmakes no full entry.
LEMMA UseGermsKeepsFullEntries ==
  ASSUME TypeOK, EquationInv, NEW S, NEW v \in FullEntry, useGerms(S, v)
  PROVE  FullEntry' = FullEntry /\ reconstruct' \in [Var -> Seq(FullEntry)]
<1>1. GermsAmong(S) \intersect FullEntry = {}
  BY DEF GermsAmong
<1>2. FullEntry' = FullEntry
  BY <1>1 DEF useGerms, FullEntry
<1>3. \A w \in Var : reconstruct[w] \in Seq(FullEntry)
                     /\ Append(reconstruct[w], v) \in Seq(FullEntry)
  BY AppendProperties DEF EquationInv
<1> QED
  BY <1>2, <1>3 DEF useGerms

\* The pieces of a visit to v add clauses only about v, about packages they
\* put off and about packages visited or put off before.
LEMMA PiecesStep ==
  ASSUME TypeOK, EquationInv, NEW v \in Var, v \in FullEntry,
         LiteralsIn(FullEntry \union ToSet(pending))
  PROVE  /\ \A clause \in {uninstallable(v), unremovable(v)} :
              GiveUp(v, clause) => VisitStep
         /\ \A S \in SUBSET Var : Block(S, v) => VisitStep
<1> USE DEF LiteralsIn
<1>1. ASSUME NEW clause \in {uninstallable(v), unremovable(v)}, GiveUp(v, clause)
      PROVE  VisitStep
  <2>1. \A l \in clause : l.var = v
    BY DEF uninstallable, unremovable, Pos, Neg
  <2>2. sat' = [sat EXCEPT ![v] = {clause}] /\ UNCHANGED <<pending, hasEntry, germ, reconstruct>>
    BY <1>1 DEF GiveUp
  <2> QED
    BY <2>1, <2>2 DEF VisitStep, FullEntry, TypeOK, EquationInv
<1>2. ASSUME NEW S \in SUBSET Var, Block(S, v)
      PROVE  VisitStep
  <2> DEFINE uninstalled == S \ scope.installed
             blocked == S \ GermsAmong(uninstalled)
  <2>1. FullEntry' = FullEntry /\ reconstruct' \in [Var -> Seq(FullEntry)]
    BY <1>2, UseGermsKeepsFullEntries DEF Block
  <2>2. ToSet(pending') = ToSet(pending) \union (S \intersect scope.installed) \union ToSet(<<>>)
    BY <1>2, UseAdds, EmptySeq DEF Block, TypeOK
  <2>3. blocked \subseteq FullEntry \union ToSet(pending')
    BY <2>2 DEF GermsAmong
  <2>4. \A w \in blocked : \A l \in onConflict(v, w) : l.var \in FullEntry \union ToSet(pending')
    BY <2>3 DEF onConflict, Neg
  <2>5. sat' = [sat EXCEPT ![v] = @ \union {onConflict(v, w) : w \in blocked}]
    BY <1>2 DEF Block
  <2>6. ASSUME NEW u \in Var, NEW c \in sat'[u]
        PROVE  \A l \in c : l.var \in FullEntry \union ToSet(pending')
    <3>1. c \in sat[u] \/ c \in {onConflict(v, w) : w \in blocked}
      BY <2>5 DEF TypeOK
    <3> QED
      BY <2>2, <2>4, <3>1
  <2> QED
    BY <2>1, <2>6 DEF VisitStep
<1> QED
  BY <1>1, <1>2

\* The packages a require clause or a dependent clause speaks of.
LEMMA ClauseVars ==
  ASSUME NEW v \in Var, NEW w \in Var, NEW A \in SUBSET Var
  PROVE  /\ \A l \in onRequire(v, A) : l.var \in {v} \union A
         /\ \A l \in onDependent(v, w, A) : l.var \in {v, w} \union A
<1>1. \A u : Pos(u).var = u /\ Neg(u).var = u
  BY DEF Pos, Neg
<1>2. \A l \in {Pos(a) : a \in A} : l.var \in A
  BY <1>1
<1> QED
  BY <1>1, <1>2 DEF onRequire, onDependent

LEMMA RequireClauseStep ==
  ASSUME TypeOK, EquationInv, NEW v \in Var, v \in FullEntry,
         LiteralsIn(FullEntry \union ToSet(pending)),
         NEW A \in SUBSET Var, NEW last \in Seq(Var), NEW clause \in SUBSET Lit,
         \A l \in clause : l.var \in {v} \union A \union ToSet(last),
         RequireClause(v, A, last, clause)
  PROVE  VisitStep
<1> USE DEF LiteralsIn
<1>1. FullEntry' = FullEntry /\ reconstruct' \in [Var -> Seq(FullEntry)]
  BY UseGermsKeepsFullEntries DEF RequireClause
<1>2. CASE UNCHANGED <<pending, sat>>
  BY <1>1, <1>2 DEF VisitStep
<1>3. CASE use(A, last) /\ sat' = [sat EXCEPT ![v] = @ \union {clause}]
  <2>1. ToSet(pending') = ToSet(pending) \union A \union ToSet(last)
    BY <1>3, UseAdds DEF TypeOK
  <2>2. ASSUME NEW u \in Var, NEW c \in sat'[u]
        PROVE  \A l \in c : l.var \in FullEntry \union ToSet(pending')
    <3>1. c \in sat[u] \/ c = clause
      BY <1>3 DEF TypeOK
    <3> QED
      BY <2>1, <3>1
  <2> QED
    BY <1>1, <2>2 DEF VisitStep
<1> QED
  BY <1>2, <1>3 DEF RequireClause

\* A call about to be entered is a frame of the invariant.
LEMMA CallForKeepsFrames ==
  ASSUME NEW v \in Var
  PROVE  CallFor(v) \in VisitFrame /\ CallFor(v).pc = "enter" /\ CallFor(v).var = v
<1>1. CallFor(v) \in Frame /\ CallFor(v).pc = "enter" /\ CallFor(v).var = v
  BY CallForType
<1>2. CallFor(v).calls = <<>> /\ (CallFor(v).op = "remove" => v \in scope.installed)
  BY DEF CallFor, Call, isInstalled
<1> QED
  BY <1>1, <1>2, EmptySeq DEF VisitFrame

LEMMA toBeInstalledKeepsEquation ==
  ASSUME TypeOK, EquationInv, toBeInstalled
  PROVE  EquationInv'
<1> USE DEF taskVars, tableVars
<1>1. CASE BeginInstall
  <2>1. VisitStep
    BY <1>1, VisitAtFullEntry DEF BeginInstall, VisitStep, FullEntry, EquationInv, LiteralsIn, TypeOK
  <2>2. stack' \in Seq(VisitFrame)
    BY <1>1, GotoKeepsFrames DEF BeginInstall
  <2> QED
    BY <1>1, <2>1, <2>2, VisitStepKeepsInv DEF BeginInstall
<1>2. CASE BlockOtherVersions
  <2> DEFINE v == top.var
             others == VersionsOf(v) \ ({v} \union userTaskRemove)
  <2>1. /\ v \in Var /\ v \in FullEntry /\ others \in SUBSET Var
        /\ Tail(stack) \in Seq(VisitFrame)
        /\ LiteralsIn(FullEntry \union ToSet(pending))
        /\ RelsOf(v, getRequires(v)) \subseteq OwnedRel
    BY <1>2, VisitTypes, VisitAtFullEntry, ScopeTypes DEF BlockOtherVersions
  <2>2. CASE GiveUp(v, uninstallable(v))
    <3>1. VisitStep
      BY <2>1, <2>2, PiecesStep
    <3> QED
      BY <1>2, <2>1, <2>2, <3>1, VisitStepKeepsInv DEF BlockOtherVersions, GiveUp, Return
  <2>3. CASE Block(others, v) /\ Goto("requires", RelsOf(v, getRequires(v)))
    <3>1. VisitStep
      BY <2>1, <2>3, PiecesStep
    <3>2. stack' \in Seq(VisitFrame)
      BY <1>2, <2>1, <2>3, GotoKeepsFrames DEF BlockOtherVersions
    <3> QED
      BY <1>2, <3>1, <3>2, VisitStepKeepsInv DEF BlockOtherVersions
  <2> QED
    BY <1>2, <2>2, <2>3 DEF BlockOtherVersions
<1>3. ASSUME NEW o, Require(o)
      PROVE  EquationInv'
  <2> DEFINE v == top.var
             alternatives == selectMatchingVarsWithProvides(o.rel) \ userTaskRemove
  <2>1. /\ v \in Var /\ v \in FullEntry /\ alternatives \in SUBSET Var
        /\ Tail(stack) \in Seq(VisitFrame)
        /\ LiteralsIn(FullEntry \union ToSet(pending))
    BY <1>3, VisitTypes, VisitAtFullEntry, ScopeTypes DEF Require
  <2>2. CASE Stop("thrown", "Unmet")
             /\ UNCHANGED <<pending, stack, hasEntry, germ, sat, reconstruct>>
    <3>1. VisitFrame' = VisitFrame /\ FullEntry' = FullEntry /\ ToBeVisited' = ToBeVisited
      BY <1>3, <2>2 DEF Require, VisitFrame, FullEntry, ToBeVisited, top
    <3> QED
      BY <1>3, <2>2, <3>1 DEF Require, Stop, EquationInv, LiteralsIn, NoInternalAssertFails
  <2>3. CASE UNCHANGED <<phase, failure>> /\ GiveUp(v, uninstallable(v))
    <3>1. VisitStep
      BY <2>1, <2>3, PiecesStep
    <3> QED
      BY <1>3, <2>1, <2>3, <3>1, VisitStepKeepsInv DEF Require, GiveUp, Return
  <2>4. CASE UNCHANGED <<phase, failure>> /\ NextIteration(o)
             /\ UNCHANGED <<pending, hasEntry, germ, sat, reconstruct>>
    <3>1. VisitStep
      BY <2>1, <2>4 DEF VisitStep, FullEntry, EquationInv, LiteralsIn
    <3>2. stack' \in Seq(VisitFrame)
      BY <1>3, <2>4, NextIterationKeepsFrames DEF Require
    <3> QED
      BY <1>3, <2>4, <3>1, <3>2, VisitStepKeepsInv DEF Require
  <2>5. CASE UNCHANGED <<phase, failure>> /\ NextIteration(o)
             /\ RequireClause(v, alternatives, <<>>, onRequire(v, alternatives))
    <3>1. /\ onRequire(v, alternatives) \in SUBSET Lit
          /\ \A l \in onRequire(v, alternatives) :
               l.var \in {v} \union alternatives \union ToSet(<<>>)
          /\ <<>> \in Seq(Var)
      BY <2>1, ClauseTypes, ClauseVars, EmptySeq
    <3>2. VisitStep
      BY <2>1, <2>5, <3>1, RequireClauseStep
    <3>3. stack' \in Seq(VisitFrame)
      BY <1>3, <2>5, NextIterationKeepsFrames DEF Require
    <3> QED
      BY <1>3, <2>5, <3>2, <3>3, VisitStepKeepsInv DEF Require
  <2> QED
    BY <1>3, <2>2, <2>3, <2>4, <2>5 DEF Require
<1>4. CASE EndRequires
  <2>1. VisitStep
    BY <1>4, VisitAtFullEntry DEF EndRequires, VisitStep, FullEntry, EquationInv, LiteralsIn
  <2>2. RelsOf(top.var, getConflicts(top.var)) \subseteq OwnedRel
    BY <1>4, VisitTypes, ScopeTypes DEF EndRequires
  <2>3. stack' \in Seq(VisitFrame)
    BY <1>4, <2>2, GotoKeepsFrames DEF EndRequires
  <2> QED
    BY <1>4, <2>1, <2>3, VisitStepKeepsInv DEF EndRequires
<1>5. ASSUME NEW o, Conflict(o)
      PROVE  EquationInv'
  <2> DEFINE v == top.var
             others == selectMatchingVarsWithProvides(o.rel) \ ({v} \union userTaskRemove)
  <2>1. /\ v \in Var /\ v \in FullEntry /\ others \in SUBSET Var
        /\ Tail(stack) \in Seq(VisitFrame)
        /\ LiteralsIn(FullEntry \union ToSet(pending))
    BY <1>5, VisitTypes, VisitAtFullEntry, ScopeTypes DEF Conflict
  <2>2. CASE GiveUp(v, uninstallable(v))
    <3>1. VisitStep
      BY <2>1, <2>2, PiecesStep
    <3> QED
      BY <1>5, <2>1, <2>2, <3>1, VisitStepKeepsInv DEF Conflict, GiveUp, Return
  <2>3. CASE Block(others, v) /\ NextIteration(o)
    <3>1. VisitStep
      BY <2>1, <2>3, PiecesStep
    <3>2. stack' \in Seq(VisitFrame)
      BY <1>5, <2>3, NextIterationKeepsFrames DEF Conflict
    <3> QED
      BY <1>5, <3>1, <3>2, VisitStepKeepsInv DEF Conflict
  <2> QED
    BY <1>5, <2>2, <2>3 DEF Conflict
<1>6. CASE EndConflicts
  <2>1. VisitStep
    BY <1>6, VisitAtFullEntry DEF EndConflicts, VisitStep, FullEntry, EquationInv, LiteralsIn
  <2>2. whatConflictAmongInstalled(top.var) \subseteq OwnedRel
    BY <1>6, VisitTypes, ScopeTypes DEF EndConflicts
  <2>3. stack' \in Seq(VisitFrame)
    BY <1>6, <2>2, GotoKeepsFrames DEF EndConflicts
  <2> QED
    BY <1>6, <2>1, <2>3, VisitStepKeepsInv DEF EndConflicts
<1>7. ASSUME NEW o \in loop, InstalledConflict(o)
      PROVE  EquationInv'
  <2> DEFINE v == top.var
  <2>1. /\ v \in Var /\ v \in FullEntry /\ o.owner \in Var /\ <<o.owner>> \in Seq(Var)
        /\ Tail(stack) \in Seq(VisitFrame)
        /\ LiteralsIn(FullEntry \union ToSet(pending))
    BY <1>7, VisitTypes, VisitAtFullEntry, OwnerType DEF InstalledConflict
  <2>2. CASE GiveUp(v, uninstallable(v))
    <3>1. VisitStep
      BY <2>1, <2>2, PiecesStep
    <3> QED
      BY <1>7, <2>1, <2>2, <3>1, VisitStepKeepsInv DEF InstalledConflict, GiveUp, Return
  <2>3. CASE NextIteration(o) /\ UNCHANGED <<sat, pending, hasEntry, germ, reconstruct>>
    <3>1. VisitStep
      BY <2>1, <2>3 DEF VisitStep, FullEntry, EquationInv, LiteralsIn
    <3>2. stack' \in Seq(VisitFrame)
      BY <1>7, <2>3, NextIterationKeepsFrames DEF InstalledConflict
    <3> QED
      BY <1>7, <3>1, <3>2, VisitStepKeepsInv DEF InstalledConflict
  <2>4. CASE /\ NextIteration(o)
             /\ sat' = [sat EXCEPT ![v] = @ \union {onConflict(v, o.owner)}]
             /\ use({}, <<o.owner>>)
             /\ UNCHANGED <<hasEntry, germ, reconstruct>>
    <3>1. ToSet(pending') = ToSet(pending) \union {} \union ToSet(<<o.owner>>)
      BY <2>1, <2>4, UseAdds DEF TypeOK
    <3>2. o.owner \in ToSet(<<o.owner>>)
      BY DEF ToSet
    <3>3. \A l \in onConflict(v, o.owner) : l.var \in FullEntry \union ToSet(pending')
      BY <2>1, <3>1, <3>2 DEF onConflict, Neg
    <3>4. ASSUME NEW u \in Var, NEW c \in sat'[u]
          PROVE  \A l \in c : l.var \in FullEntry \union ToSet(pending')
      <4>1. c \in sat[u] \/ c = onConflict(v, o.owner)
        BY <2>4 DEF TypeOK
      <4> QED
        BY <2>1, <3>1, <3>3, <4>1 DEF LiteralsIn
    <3>5. VisitStep
      BY <2>4, <3>4 DEF VisitStep, FullEntry, EquationInv
    <3>6. stack' \in Seq(VisitFrame)
      BY <1>7, <2>4, NextIterationKeepsFrames DEF InstalledConflict
    <3> QED
      BY <1>7, <3>5, <3>6, VisitStepKeepsInv DEF InstalledConflict
  <2> QED
    BY <1>7, <2>2, <2>3, <2>4 DEF InstalledConflict
<1>8. CASE EndInstall
  <2>1. VisitStep
    BY <1>8, VisitAtFullEntry DEF EndInstall, VisitStep, FullEntry, EquationInv, LiteralsIn
  <2>2. stack' \in Seq(VisitFrame)
    BY <1>8, VisitAtFullEntry DEF EndInstall, Return
  <2> QED
    BY <1>8, <2>1, <2>2, VisitStepKeepsInv DEF EndInstall
<1> QED
  BY <1>1, <1>2, <1>3, <1>4, <1>5, <1>6, <1>7, <1>8 DEF toBeInstalled

LEMMA toBeRemovedKeepsEquation ==
  ASSUME TypeOK, EquationInv, toBeRemoved
  PROVE  EquationInv'
<1> USE DEF taskVars, tableVars
<1>1. CASE BeginRemove
  <2>1. VisitStep
    BY <1>1, VisitAtFullEntry DEF BeginRemove, VisitStep, FullEntry, EquationInv, LiteralsIn, TypeOK
  <2>2. whatDependAmongInstalled(top.var) \subseteq OwnedRel
    BY <1>1, VisitTypes, ScopeTypes DEF BeginRemove
  <2>3. stack' \in Seq(VisitFrame)
    BY <1>1, <2>2, GotoKeepsFrames DEF BeginRemove
  <2> QED
    BY <1>1, <2>1, <2>3, VisitStepKeepsInv DEF BeginRemove
<1>2. ASSUME NEW o \in loop, Dependent(o)
      PROVE  EquationInv'
  <2> DEFINE v == top.var
             alternatives == selectMatchingVarsWithProvides(o.rel)
                               \ ({v} \union userTaskRemove)
  <2>1. /\ v \in Var /\ v \in FullEntry /\ alternatives \in SUBSET Var
        /\ o.owner \in Var /\ <<o.owner>> \in Seq(Var)
        /\ Tail(stack) \in Seq(VisitFrame)
        /\ LiteralsIn(FullEntry \union ToSet(pending))
    BY <1>2, VisitTypes, VisitAtFullEntry, ScopeTypes, OwnerType DEF Dependent
  <2>2. CASE GiveUp(v, unremovable(v))
    <3>1. VisitStep
      BY <2>1, <2>2, PiecesStep
    <3> QED
      BY <1>2, <2>1, <2>2, <3>1, VisitStepKeepsInv DEF Dependent, GiveUp, Return
  <2>3. CASE NextIteration(o) /\ UNCHANGED <<pending, hasEntry, germ, sat, reconstruct>>
    <3>1. VisitStep
      BY <2>1, <2>3 DEF VisitStep, FullEntry, EquationInv, LiteralsIn
    <3>2. stack' \in Seq(VisitFrame)
      BY <1>2, <2>3, NextIterationKeepsFrames DEF Dependent
    <3> QED
      BY <1>2, <3>1, <3>2, VisitStepKeepsInv DEF Dependent
  <2>4. CASE /\ NextIteration(o)
             /\ RequireClause(v, alternatives, <<o.owner>>,
                              onDependent(v, o.owner, alternatives))
    <3>1. o.owner \in ToSet(<<o.owner>>)
      BY DEF ToSet
    <3>2. /\ onDependent(v, o.owner, alternatives) \in SUBSET Lit
          /\ \A l \in onDependent(v, o.owner, alternatives) :
               l.var \in {v} \union alternatives \union ToSet(<<o.owner>>)
      BY <2>1, <3>1, ClauseTypes, ClauseVars
    <3>3. VisitStep
      BY <2>1, <2>4, <3>2, RequireClauseStep
    <3>4. stack' \in Seq(VisitFrame)
      BY <1>2, <2>4, NextIterationKeepsFrames DEF Dependent
    <3> QED
      BY <1>2, <3>3, <3>4, VisitStepKeepsInv DEF Dependent
  <2> QED
    BY <1>2, <2>2, <2>3, <2>4 DEF Dependent
<1>3. CASE Replace
  <2>1. VisitStep
    BY <1>3, VisitAtFullEntry DEF Replace, VisitStep, FullEntry, EquationInv, LiteralsIn
  <2>2. Tail(stack) \in Seq(VisitFrame) /\ top.var \in Var
    BY <1>3, VisitTypes, VisitAtFullEntry DEF Replace
  <2>3. \A r \in Var : Call("install", r, top.var) \in VisitFrame
    BY <2>2, EmptySeq DEF Call, Frame, VisitFrame
  <2>4. \A r \in Var : <<Call("install", r, top.var)>> \o Tail(stack) \in Seq(VisitFrame)
    BY <2>2, <2>3, ReplaceTop
  <2>5. \A u : selectTheNewest(VersionsOf(u) \ {u}) \subseteq Var
    BY DEF selectTheNewest, VersionsOf
  <2>6. stack' \in Seq(VisitFrame)
    BY <1>3, <2>2, <2>4, <2>5 DEF Replace, Return
  <2> QED
    BY <1>3, <2>1, <2>6, VisitStepKeepsInv DEF Replace
<1> QED
  BY <1>1, <1>2, <1>3 DEF toBeRemoved

LEMMA NextKeepsEquation ==
  ASSUME TypeOK, EquationInv, Next
  PROVE  EquationInv'
<1> USE DEF taskVars, tableVars
<1>1. CASE OnUserTask
  <2>1. VisitFrame' = VisitFrame /\ FullEntry' = FullEntry /\ ToBeVisited' = ToBeVisited
    BY <1>1 DEF OnUserTask, VisitFrame, FullEntry, ToBeVisited, top
  <2>2. failure' \in {failure, "UnknownPkg", "Contradiction"}
    BY <1>1 DEF OnUserTask, Stop
  <2> QED
    BY <1>1, <2>1, <2>2 DEF OnUserTask, EquationInv, LiteralsIn, NoInternalAssertFails
<1>2. ASSUME NEW ph, NEW op, NextOfUserTask(ph, op)
      PROVE  EquationInv'
  <2>1. VisitFrame' = VisitFrame /\ FullEntry' = FullEntry
    BY <1>2 DEF NextOfUserTask, VisitFrame, FullEntry
  <2>2. ToBeVisited \subseteq ToBeVisited'
    BY <1>2, <2>1 DEF NextOfUserTask, ToBeVisited
  <2>3. \A v \in userLoop : CallFor(v) \in VisitFrame
    BY CallForKeepsFrames DEF TypeOK
  <2>4. stack' \in Seq(VisitFrame)
    BY <1>2, <2>3, EmptySeq DEF NextOfUserTask, EquationInv
  <2> QED
    BY <1>2, <2>1, <2>2, <2>4
       DEF NextOfUserTask, EquationInv, LiteralsIn, NoInternalAssertFails
<1>3. ASSUME NEW ph, NEW next, NEW rest, EndOfUserTask(ph, next, rest)
      PROVE  EquationInv'
  <2>1. VisitFrame' = VisitFrame /\ FullEntry' = FullEntry /\ ToBeVisited' = ToBeVisited
    BY <1>3 DEF EndOfUserTask, VisitFrame, FullEntry, ToBeVisited, top
  <2> QED
    BY <1>3, <2>1 DEF EndOfUserTask, EquationInv, LiteralsIn, NoInternalAssertFails
<1>4. CASE OnPending
  <2> DEFINE v == pending[Len(pending)]
  <2>1. VisitFrame' = VisitFrame /\ FullEntry' = FullEntry
    BY <1>4 DEF OnPending, VisitFrame, FullEntry
  <2>2. v \in Var /\ Len(pending) \in Nat /\ Len(pending) # 0
    BY <1>4 DEF OnPending, TypeOK
  <2>3. ToSet(pending) \subseteq ToSet(pending') \union {v}
    <3>1. /\ Len(pending') = Len(pending) - 1
          /\ \A i \in 1..(Len(pending) - 1) : pending'[i] = pending[i]
      <4>1. \A i \in 1..(Len(pending) - 1) : pending[i] \in Var
        BY <2>2 DEF TypeOK
      <4>2. pending' = SubSeq(pending, 1, Len(pending) - 1)
        BY <1>4 DEF OnPending
      <4> DEFINE n == Len(pending) - 1
      <4>3. n \in Nat
        BY <2>2
      <4> HIDE DEF n
      <4>4. /\ Len(SubSeq(pending, 1, n)) = (IF 1 <= n THEN n - 1 + 1 ELSE 0)
            /\ \A i \in 1..(n - 1 + 1) : SubSeq(pending, 1, n)[i] = pending[1 + i - 1]
        BY <4>1, <4>3, SubSeqProperties DEF n
      <4>5. Len(SubSeq(pending, 1, n)) = n /\ \A i \in 1..n : SubSeq(pending, 1, n)[i] = pending[i]
        BY <4>3, <4>4
      <4> QED
        BY <4>2, <4>5 DEF n
    <3>2. pending' \in Seq(Var)
      BY <1>4, <2>2, SubSeqProperties DEF OnPending, TypeOK
    <3>3. \A i \in DOMAIN pending : i = Len(pending) \/ i \in DOMAIN pending'
      BY <2>2, <3>1, <3>2 DEF TypeOK
    <3>4. \A i \in DOMAIN pending' : pending'[i] = pending[i]
      BY <3>1, <3>2
    <3> QED
      BY <3>3, <3>4 DEF ToSet
  <2>4. CASE v \in FullEntry
    <3>1. stack' = <<>>
      BY <1>4, <2>4 DEF OnPending
    <3>2. ToBeVisited \subseteq ToBeVisited'
      BY <1>4, <2>1, <2>3, <2>4 DEF OnPending, ToBeVisited
    <3> QED
      BY <1>4, <2>1, <3>1, <3>2, EmptySeq
         DEF OnPending, EquationInv, LiteralsIn, NoInternalAssertFails
  <2>5. CASE v \notin FullEntry
    <3>1. stack' = <<CallFor(v)>> /\ CallFor(v) \in VisitFrame
      BY <1>4, <2>2, <2>5, CallForKeepsFrames DEF OnPending
    <3>2. stack' # <<>> /\ top' = CallFor(v)
      BY <3>1 DEF top
    <3>3. ToBeVisited \subseteq ToBeVisited'
      BY <1>4, <2>1, <2>2, <2>3, <3>2, CallForType DEF OnPending, ToBeVisited
    <3>4. stack' \in Seq(VisitFrame)
      BY <3>1
    <3> QED
      BY <1>4, <2>1, <3>3, <3>4
         DEF OnPending, EquationInv, LiteralsIn, NoInternalAssertFails
  <2> QED
    BY <2>4, <2>5
<1>5. CASE FinishBuild
  <2>1. ToBeVisited = FullEntry
    BY <1>5 DEF FinishBuild, ToBeVisited, ToSet
  <2>2. ensureSatCorrect
    BY <2>1 DEF ensureSatCorrect, EquationInv, LiteralsIn, TypeOK
  <2>3. FullEntry' = FullEntry /\ VisitFrame' = VisitFrame
    BY <1>5, <2>2 DEF FinishBuild, FullEntry, VisitFrame
  <2>4. FullEntry' \subseteq ToBeVisited'
    BY DEF ToBeVisited
  <2>5. reconstruct' \in [Var -> Seq(FullEntry)]
    BY <1>5, <2>2, EmptySeq DEF FinishBuild, EquationInv
  <2> QED
    BY <1>5, <2>1, <2>2, <2>3, <2>4, <2>5
       DEF FinishBuild, EquationInv, LiteralsIn, NoInternalAssertFails
<1>6. CASE AssertFails
  <2>1. VisitFrame' = VisitFrame /\ FullEntry' = FullEntry /\ ToBeVisited' = ToBeVisited
    BY <1>6 DEF AssertFails, VisitFrame, FullEntry, ToBeVisited, top
  <2>2. top \in VisitFrame
    BY <1>6, TopOfStack DEF AssertFails, EquationInv
  <2>3. FailedAssert \in {"", "Solver.cpp:363", "Solver.cpp:367", "Solver.cpp:529"}
    BY <2>2 DEF FailedAssert, VisitFrame, Frame, isInstalled
  <2> QED
    BY <1>6, <2>1, <2>3 DEF AssertFails, Stop, EquationInv, LiteralsIn, NoInternalAssertFails
<1>7. CASE Enter
  <2>1. top \in VisitFrame /\ Tail(stack) \in Seq(VisitFrame) /\ top.var \in Var
    <3>1. top \in VisitFrame /\ Tail(stack) \in Seq(VisitFrame)
      BY <1>7, TopOfStack DEF Enter, EquationInv
    <3> QED
      BY <3>1 DEF VisitFrame, Frame
  <2>2. FullEntry' = FullEntry \union {top.var}
    BY <1>7 DEF Enter, FullEntry
  <2>3. Seq(FullEntry) \subseteq Seq(FullEntry')
    BY <2>2, SeqMonotonic
  <2>4. VisitFrame \subseteq VisitFrame'
    BY <1>7, <2>2, <2>3 DEF Enter, VisitFrame
  <2>5. [top EXCEPT !.pc = "reconstruct", !.calls = reconstruct[top.var]] \in VisitFrame'
    <3> DEFINE f == [top EXCEPT !.pc = "reconstruct", !.calls = reconstruct[top.var]]
    <3>1. reconstruct[top.var] \in Seq(FullEntry') /\ reconstruct[top.var] \in Seq(Var)
      BY <2>1, <2>3 DEF EquationInv, TypeOK
    <3>2. f \in Frame
      BY <2>1, <3>1 DEF VisitFrame, Frame
    <3>3. f.op = top.op /\ f.var = top.var /\ f.calls = reconstruct[top.var]
      BY <2>1 DEF VisitFrame, Frame
    <3>4. f.op = "remove" => f.var \in scope'.installed
      BY <1>7, <2>1, <3>3 DEF Enter, VisitFrame
    <3>5. f.var \in FullEntry' /\ f.calls \in Seq(FullEntry')
      BY <2>2, <3>1, <3>3
    <3> HIDE DEF f
    <3>6. f \in VisitFrame'
      BY <3>2, <3>4, <3>5 DEF VisitFrame
    <3> QED
      BY <3>6 DEF f
  <2>6. Tail(stack) \in Seq(VisitFrame')
    BY <2>1, <2>4, SeqMonotonic
  <2>7. stack' \in Seq(VisitFrame')
    BY <1>7, <2>5, <2>6, ReplaceTop DEF Enter
  <2>8. reconstruct' \in [Var -> Seq(FullEntry')]
    BY <1>7, <2>3, EmptySeq DEF Enter, EquationInv
  <2>9. ToBeVisited \subseteq ToBeVisited'
    BY <1>7, <2>2 DEF Enter, ToBeVisited
  <2> QED
    BY <1>7, <2>7, <2>8, <2>9 DEF Enter, EquationInv, LiteralsIn, NoInternalAssertFails
<1>8. CASE Reconstruct
  <2> DEFINE w == Head(top.calls)
             rest == [top EXCEPT !.calls = Tail(top.calls)]
  <2>1. top \in VisitFrame /\ Tail(stack) \in Seq(VisitFrame)
    BY <1>8, TopOfStack DEF Reconstruct, EquationInv
  <2>2. w \in FullEntry /\ Tail(top.calls) \in Seq(FullEntry) /\ w \in Var
    BY <1>8, <2>1, HeadTailProperties DEF Reconstruct, VisitFrame, FullEntry, TypeOK
  <2>3. Tail(top.calls) \in Seq(Var)
    BY <1>8, <2>1, HeadTailProperties DEF Reconstruct, VisitFrame, Frame
  <2>4. rest \in Frame
    BY <2>1, <2>3 DEF VisitFrame, Frame
  <2>5. rest \in VisitFrame
    BY <2>1, <2>2, <2>4 DEF VisitFrame, Frame
  <2>6. stack' = <<CallFor(w), rest>> \o Tail(stack) /\ UNCHANGED <<phase, failure>>
    BY <1>8, <2>2 DEF Reconstruct
  <2>7. <<CallFor(w), rest>> \in Seq(VisitFrame)
    BY <2>2, <2>5, CallForKeepsFrames
  <2>8. stack' \in Seq(VisitFrame)
    BY <2>1, <2>6, <2>7, ConcatProperties
  <2>9. VisitFrame' = VisitFrame /\ FullEntry' = FullEntry
    BY <1>8 DEF Reconstruct, VisitFrame, FullEntry
  <2>10. ToBeVisited \subseteq ToBeVisited'
    BY <1>8, <2>9 DEF Reconstruct, ToBeVisited
  <2> QED
    BY <1>8, <2>6, <2>8, <2>9, <2>10
       DEF Reconstruct, EquationInv, LiteralsIn, NoInternalAssertFails
<1> QED
  BY <1>1, <1>2, <1>3, <1>4, <1>5, <1>6, <1>7, <1>8, toBeInstalledKeepsEquation,
     toBeRemovedKeepsEquation DEF Next

\* The invariant is kept along any steps of build().
LEMMA EquationAlways == BuildSteps => []EquationInv
<1>1. Init => EquationInv
  BY EmptySeq DEF Init, EquationInv, LiteralsIn, NoInternalAssertFails
<1>2. TypeOK /\ EquationInv /\ [Next]_vars => EquationInv'
  <2> SUFFICES ASSUME TypeOK, EquationInv, [Next]_vars PROVE EquationInv'
    OBVIOUS
  <2>1. CASE Next
    BY <2>1, NextKeepsEquation
  <2>2. CASE UNCHANGED vars
    <3>1. VisitFrame' = VisitFrame /\ FullEntry' = FullEntry /\ ToBeVisited' = ToBeVisited
      BY <2>2 DEF vars, taskVars, tableVars, VisitFrame, FullEntry, ToBeVisited, top
    <3> QED
      BY <2>2, <3>1 DEF vars, taskVars, tableVars, EquationInv, LiteralsIn, NoInternalAssertFails
  <2> QED
    BY <2>1, <2>2
<1> QED
  BY <1>1, <1>2, TypesAlways, PTL DEF BuildSteps

\* The invariant holds in every reachable state.
THEOREM EquationCorrect == Spec => []EquationInv
BY EquationAlways, PTL DEF Spec, BuildSteps

\* No scope and no task make the asserts of Solver.cpp:188, :255 and :528 fail.
THEOREM InternalAssertsHold == Spec => []NoInternalAssertFails
<1>1. EquationInv => NoInternalAssertFails
  BY DEF EquationInv
<1> QED
  BY <1>1, EquationCorrect, PTL

\* Whatever the order of the visits, nothing the equation speaks of is lost.
THEOREM NoLiteralIsForgotten == Spec => []LiteralsWillBeVisited
<1>1. TypeOK /\ EquationInv => LiteralsWillBeVisited
  <2> SUFFICES ASSUME TypeOK, EquationInv,
                      NEW v \in hasEntry, NEW c \in sat[v], NEW l \in c
               PROVE  \/ l.var \in FullEntry
                      \/ l.var \in ToSet(pending)
                      \/ \E i \in DOMAIN stack : stack[i].pc = "enter" /\ stack[i].var = l.var
    BY DEF LiteralsWillBeVisited
  <2>1. l.var \in ToBeVisited
    BY DEF EquationInv, LiteralsIn, TypeOK
  <2>2. stack # <<>> => 1 \in DOMAIN stack /\ top = stack[1]
    BY DEF top, TypeOK
  <2> QED
    BY <2>1, <2>2 DEF ToBeVisited
<1> QED
  BY <1>1, TypeCorrect, EquationCorrect, PTL

-----------------------------------------------------------------------------
(***************************************************************************)
(* What is left of the user task has entries                               *)
(***************************************************************************)

BeingEntered == {v \in Var : stack # <<>> /\ top.pc = "enter" /\ v = top.var}

\* The inductive invariant.  clearGerms() deletes entries after the user task
\* was compared with the table; nothing of the task is lost by that because
\* no package to keep out and no installed one asked for ever is a germ, and
\* the asserts on entry of a visit let no package pass that the task forbids
\* to change.  A germ that is asked for is visited by the first loop.
UserTaskInv ==
  /\ phase = "userTask" => userTaskInstall = {} /\ userTaskRemove = {} /\ hasEntry = {}
  /\ germ \intersect userTaskRemove = {}
  /\ hasEntry \intersect userTaskInstall \intersect scope.installed = {}
  /\ FullEntry \intersect userTaskRemove \subseteq scope.installed
  /\ phase = "install" =>
       userTaskInstall \ scope.installed \subseteq FullEntry \union userLoop \union BeingEntered
  /\ phase \in {"remove", "pending"} => userTaskInstall \ scope.installed \subseteq FullEntry
  /\ UserTaskHasEntries

\* The visits turn only packages into germs that the task leaves alone.
GoodGerms ==
  /\ FullEntry' = FullEntry
  /\ \A w \in hasEntry' \ hasEntry : /\ w \notin userTaskRemove
                                     /\ w \in scope.installed => w \notin userTaskInstall
  /\ germ' \subseteq germ \union (hasEntry' \ hasEntry)

LEMMA UseGermsMakesGoodGerms ==
  ASSUME TypeOK, NEW S, NEW v, useGerms(S, v), S \intersect userTaskRemove = {},
         S \intersect scope.installed \intersect userTaskInstall = {}
  PROVE  GoodGerms
<1>1. GermsAmong(S) \intersect FullEntry = {} /\ GermsAmong(S) \subseteq S
  BY DEF GermsAmong
<1>2. FullEntry' = FullEntry
  BY <1>1 DEF useGerms, FullEntry
<1>3. germ' \subseteq germ \union (hasEntry' \ hasEntry)
  BY <1>1 DEF useGerms, FullEntry
<1> QED
  BY <1>1, <1>2, <1>3 DEF useGerms, GoodGerms

LEMMA VisitMakesGoodGerms ==
  ASSUME TypeOK, toBeInstalled \/ toBeRemoved
  PROVE  /\ GoodGerms
         /\ UNCHANGED <<scope, userTaskInstall, userTaskRemove, userLoop>>
         /\ phase' \in {phase, "thrown"} /\ Building
         /\ BeingEntered = {}
<1> USE DEF taskVars, tableVars
<1>1. UNCHANGED <<hasEntry, germ>> => GoodGerms
  BY DEF GoodGerms, FullEntry
<1>2. ASSUME NEW S, NEW v, Block(S, v), S \intersect userTaskRemove = {}
      PROVE  GoodGerms
  BY <1>2, UseGermsMakesGoodGerms DEF Block
<1>3. ASSUME NEW A, NEW v, NEW last, NEW clause, RequireClause(v, A, last, clause),
             A \intersect userTaskRemove = {}, A \intersect userTaskInstall = {}
      PROVE  GoodGerms
  BY <1>3, UseGermsMakesGoodGerms DEF RequireClause
<1>4. \A v, clause : GiveUp(v, clause) => GoodGerms
  BY <1>1 DEF GiveUp
<1>5. CASE BeginInstall \/ EndRequires \/ EndConflicts \/ EndInstall \/ BeginRemove \/ Replace
  BY <1>1, <1>5 DEF BeginInstall, EndRequires, EndConflicts, EndInstall, BeginRemove, Replace,
                    At, Building, BeingEntered
<1>6. CASE BlockOtherVersions
  <2>1. GoodGerms
    BY <1>2, <1>4, <1>6 DEF BlockOtherVersions
  <2> QED
    BY <1>6, <2>1 DEF BlockOtherVersions, At, Building, BeingEntered
<1>7. ASSUME NEW o \in loop, Require(o) \/ Conflict(o) \/ InstalledConflict(o) \/ Dependent(o)
      PROVE  /\ GoodGerms
             /\ UNCHANGED <<scope, userTaskInstall, userTaskRemove, userLoop>>
             /\ phase' \in {phase, "thrown"} /\ Building
             /\ BeingEntered = {}
  <2>1. Require(o) => GoodGerms
    <3> SUFFICES ASSUME Require(o) PROVE GoodGerms
      OBVIOUS
    <3> QED
      BY <1>1, <1>3, <1>4 DEF Require
  <2>2. Conflict(o) => GoodGerms
    <3> DEFINE others == selectMatchingVarsWithProvides(o.rel) \ ({top.var} \union userTaskRemove)
    <3>1. others \intersect userTaskRemove = {}
      OBVIOUS
    <3>2. Conflict(o) => GiveUp(top.var, uninstallable(top.var)) \/ Block(others, top.var)
      BY DEF Conflict
    <3> HIDE DEF others
    <3> QED
      BY <1>2, <1>4, <3>1, <3>2
  <2>3. InstalledConflict(o) => GoodGerms
    BY <1>1, <1>4 DEF InstalledConflict
  <2>4. Dependent(o) => GoodGerms
    BY <1>1, <1>3, <1>4 DEF Dependent
  <2>5. At("install", "requires") \/ At("install", "conflicts")
          \/ At("install", "installedConflicts") \/ At("remove", "dependents")
    BY <1>7 DEF Require, Conflict, InstalledConflict, Dependent
  <2>6. Building /\ BeingEntered = {}
    BY <2>5 DEF At, BeingEntered
  <2>7. UNCHANGED <<scope, userTaskInstall, userTaskRemove, userLoop>>
        /\ phase' \in {phase, "thrown"}
    BY <1>7 DEF Require, Conflict, InstalledConflict, Dependent, Stop
  <2> QED
    BY <1>7, <2>1, <2>2, <2>3, <2>4, <2>6, <2>7
<1> QED
  BY <1>5, <1>6, <1>7 DEF toBeInstalled, toBeRemoved

LEMMA NextKeepsUserTask ==
  ASSUME TypeOK, EquationInv, UserTaskInv, Next
  PROVE  UserTaskInv'
<1> USE DEF taskVars, tableVars
<1>1. CASE OnUserTask
  <2>1. UNCHANGED <<hasEntry, germ, scope>> /\ hasEntry = {} /\ germ = {}
    BY <1>1 DEF OnUserTask, UserTaskInv, TypeOK
  <2>2. /\ phase' \in {"install", "thrown"}
        /\ phase' = "install" => userLoop' = userTaskInstall'
    BY <1>1 DEF OnUserTask, Stop
  <2> QED
    BY <2>1, <2>2 DEF UserTaskInv, UserTaskHasEntries, FullEntry
<1>2. ASSUME NEW ph \in {"install", "remove"}, NextOfUserTask(ph, ph)
      PROVE  UserTaskInv'
  <2>1. PICK v \in userLoop : /\ userLoop' = userLoop \ {v}
                              /\ stack' = IF CallFor(v).op = ph THEN <<CallFor(v)>> ELSE stack
    BY <1>2 DEF NextOfUserTask
  <2>2. /\ UNCHANGED <<scope, userTaskInstall, userTaskRemove, hasEntry, germ, phase>>
        /\ phase = ph /\ stack = <<>> /\ v \in Var
    BY <1>2 DEF NextOfUserTask, TypeOK
  <2>3. FullEntry' = FullEntry /\ BeingEntered = {}
    BY <2>2 DEF FullEntry, BeingEntered
  <2>4. ph = "install" /\ v \notin scope.installed => v \in BeingEntered'
    <3> SUFFICES ASSUME ph = "install", v \notin scope.installed PROVE v \in BeingEntered'
      OBVIOUS
    <3>1. CallFor(v).op = "install"
      BY DEF CallFor, Call, isInstalled
    <3>2. stack' = <<CallFor(v)>>
      BY <2>1, <3>1
    <3>3. stack' # <<>> /\ top' = CallFor(v)
      BY <3>2 DEF top
    <3> QED
      BY <2>2, <3>3, CallForType DEF BeingEntered
  <2> QED
    BY <2>1, <2>2, <2>3, <2>4 DEF UserTaskInv, UserTaskHasEntries
<1>3. CASE EndOfUserTask("install", "remove", userTaskRemove)
  <2>1. BeingEntered = {} /\ FullEntry' = FullEntry
    BY <1>3 DEF EndOfUserTask, BeingEntered, FullEntry
  <2> QED
    BY <1>3, <2>1 DEF EndOfUserTask, UserTaskInv, UserTaskHasEntries
<1>4. CASE EndOfUserTask("remove", "pending", {})
  <2>1. FullEntry' = FullEntry
    BY <1>4 DEF EndOfUserTask, FullEntry
  <2> QED
    BY <1>4, <2>1 DEF EndOfUserTask, UserTaskInv, UserTaskHasEntries
<1>5. CASE OnPending
  <2>1. FullEntry' = FullEntry
    BY <1>5 DEF OnPending, FullEntry
  <2> QED
    BY <1>5, <2>1 DEF OnPending, UserTaskInv, UserTaskHasEntries
<1>6. CASE FinishBuild
  <2>1. phase' \in {"built", "abort"} /\ FullEntry' = FullEntry /\ UNCHANGED scope
        /\ hasEntry' \subseteq hasEntry /\ germ' \subseteq germ
    BY <1>6 DEF FinishBuild, FullEntry, Stop, TypeOK
  <2>2. /\ userTaskInstall' = userTaskInstall \intersect hasEntry
        /\ userTaskRemove' = userTaskRemove \intersect hasEntry
        /\ phase = "pending"
    BY <1>6 DEF FinishBuild
  <2>3. userTaskInstall' \union userTaskRemove' \subseteq FullEntry
    BY <2>2 DEF UserTaskInv, FullEntry
  <2>4. phase' = "built" => hasEntry' = FullEntry
    BY <1>6 DEF FinishBuild, Stop
  <2>5. UserTaskHasEntries'
    BY <2>1, <2>2, <2>3, <2>4 DEF UserTaskInv, UserTaskHasEntries, FullEntry
  <2> QED
    BY <2>1, <2>2, <2>5 DEF UserTaskInv, FullEntry
<1>7. CASE AssertFails
  <2>1. FullEntry' = FullEntry /\ phase' = "abort"
    BY <1>7 DEF AssertFails, FullEntry, Stop
  <2> QED
    BY <1>7, <2>1 DEF AssertFails, UserTaskInv, UserTaskHasEntries
<1>8. CASE Enter
  <2>1. FailedAssert = "" /\ Building /\ stack # <<>> /\ top.pc = "enter"
        /\ UNCHANGED <<scope, userTaskInstall, userTaskRemove, phase, userLoop>>
    BY <1>8 DEF Enter
  <2>2. top \in Frame
    BY <2>1, TopOfStack DEF TypeOK
  <2>3. /\ top.var \in scope.installed => top.var \notin userTaskInstall
        /\ top.var \notin scope.installed => top.var \notin userTaskRemove
    BY <2>1, <2>2 DEF FailedAssert, Frame, isInstalled
  <2>4. FullEntry' = FullEntry \union {top.var} /\ hasEntry' = hasEntry \union {top.var}
        /\ germ' \subseteq germ
    BY <1>8 DEF Enter, FullEntry
  <2>5. BeingEntered \subseteq {top.var}
    BY DEF BeingEntered
  <2> QED
    BY <2>1, <2>3, <2>4, <2>5 DEF UserTaskInv, UserTaskHasEntries, Building
<1>9. CASE Reconstruct
  <2>1. FullEntry' = FullEntry /\ BeingEntered = {} /\ Building
        /\ phase' \in {phase, "abort"}
    BY <1>9 DEF Reconstruct, FullEntry, BeingEntered, Stop
  <2> QED
    BY <1>9, <2>1 DEF Reconstruct, UserTaskInv, UserTaskHasEntries, Building
<1>10. CASE toBeInstalled \/ toBeRemoved
  <2>1. /\ GoodGerms
        /\ UNCHANGED <<scope, userTaskInstall, userTaskRemove, userLoop>>
        /\ phase' \in {phase, "thrown"} /\ Building
        /\ BeingEntered = {}
    BY <1>10, VisitMakesGoodGerms
  <2>2. germ' \intersect userTaskRemove' = {}
        /\ hasEntry' \intersect userTaskInstall' \intersect scope'.installed = {}
    BY <2>1 DEF GoodGerms, UserTaskInv
  <2> QED
    BY <2>1, <2>2 DEF GoodGerms, UserTaskInv, UserTaskHasEntries, Building
<1> QED
  BY <1>1, <1>2, <1>3, <1>4, <1>5, <1>6, <1>7, <1>8, <1>9, <1>10 DEF Next

\* The invariant is kept along any steps of build().
LEMMA UserTaskAlways == BuildSteps => []UserTaskInv
<1>1. Init => UserTaskInv
  BY DEF Init, UserTaskInv, UserTaskHasEntries, FullEntry
<1>2. TypeOK /\ EquationInv /\ UserTaskInv /\ [Next]_vars => UserTaskInv'
  <2> SUFFICES ASSUME TypeOK, EquationInv, UserTaskInv, [Next]_vars PROVE UserTaskInv'
    OBVIOUS
  <2>1. CASE Next
    BY <2>1, NextKeepsUserTask
  <2>2. CASE UNCHANGED vars
    BY <2>2 DEF vars, taskVars, tableVars, UserTaskInv, UserTaskHasEntries, FullEntry,
                BeingEntered, top
  <2> QED
    BY <2>1, <2>2
<1> QED
  BY <1>1, <1>2, TypesAlways, EquationAlways, PTL DEF BuildSteps

\* The invariant holds in every reachable state.
THEOREM UserTaskCorrect == Spec => []UserTaskInv
BY UserTaskAlways, PTL DEF Spec, BuildSteps

\* Whatever is left of the user task when the equation is built has an entry,
\* as solveSat() demands, and asks for a change.
THEOREM UserTaskIsKept == Spec => []UserTaskHasEntries
<1>1. UserTaskInv => UserTaskHasEntries
  BY DEF UserTaskInv
<1> QED
  BY <1>1, UserTaskCorrect, PTL

=============================================================================
