--------------------------- MODULE EquationProofs ---------------------------
(***************************************************************************)
(* Theorems about what the equation of SatBuilder allows: every operating  *)
(* system that satisfies it meets the requires and the conflicts of its    *)
(* packages, although the table has no clauses for a package that is only  *)
(* expected to stay as it is.                                              *)
(*                                                                         *)
(* The argument follows one package through build().  A visit writes a     *)
(* clause, or leaves it out because a germ lists the package; when the     *)
(* germ is visited after all, the package is on the list of the call       *)
(* before the germ is a full entry.  So every package with a full entry    *)
(* either has all the clauses it needs, up to germs that still are germs,  *)
(* or is waiting to be rewritten; and at the end of build() no one waits   *)
(* and no germ is left in the table, hence none of them can change.        *)
(***************************************************************************)
EXTENDS SatBuilderProofs

-----------------------------------------------------------------------------
(***************************************************************************)
(* What a package with a full entry needs                                  *)
(***************************************************************************)

\* The calls in progress will visit these again.
InWork(f) == {f.var} \union ToSet(f.calls)
ToBeRewritten == UNION {InWork(f) : f \in ToSet(stack)}

\* Should w be visited one day, v is rewritten before anything else happens.
GermOf(w, v) == w \in Var \ FullEntry /\ v \in ToSet(reconstruct[w])

\* No assignment that installs v has w.
KeptOut(v, w) ==
  \/ w \in userTaskRemove
  \/ w \notin scope.installed /\ GermOf(w, v)
  \/ onConflict(v, w) \in sat[v]

RequireDone(v, r) ==
  LET alternatives == selectMatchingVarsWithProvides(r) \ userTaskRemove
  IN  \/ alternatives \intersect userTaskInstall # {}
      \/ \E g \in alternatives \intersect scope.installed : GermOf(g, v)
      \/ onRequire(v, alternatives) \in sat[v]

ConflictDone(v, r) == \A w \in selectMatchingVarsWithProvides(r) \ {v} : KeptOut(v, w)

DependentDone(v, o) ==
  LET alternatives == selectMatchingVarsWithProvides(o.rel) \ ({v} \union userTaskRemove)
  IN  \/ o.owner \in userTaskRemove
      \/ alternatives \intersect userTaskInstall # {}
      \/ \E g \in alternatives \intersect scope.installed : GermOf(g, v)
      \/ onDependent(v, o.owner, alternatives) \in sat[v]

\* The loops of a visit to v, but for the iterations that are left.
OthersDone(v) == \A w \in VersionsOf(v) \ {v} : KeptOut(v, w)
RequiresDone(v, left) == \A o \in RelsOf(v, scope.requires[v]) \ left : RequireDone(v, o.rel)
ConflictsDone(v, left) == \A o \in RelsOf(v, scope.conflicts[v]) \ left : ConflictDone(v, o.rel)
DependentsDone(v, left) == \A o \in whatDependAmongInstalled(v) \ left : DependentDone(v, o)

InstallDone(v) == OthersDone(v) /\ RequiresDone(v, {}) /\ ConflictsDone(v, {})

\* v has the clauses a finished visit leaves.
Written(v) ==
  IF v \in scope.installed THEN sat[v] = {unremovable(v)} \/ DependentsDone(v, {})
                           ELSE sat[v] = {uninstallable(v)} \/ InstallDone(v)

\* A call in the middle of its visit has done the loops before that.
WrittenUpTo(f) ==
  /\ f.op = "install" /\ f.pc \in {"requires", "conflicts", "installedConflicts"} =>
       OthersDone(f.var)
  /\ f.op = "install" /\ f.pc = "requires" => RequiresDone(f.var, f.todo)
  /\ f.op = "install" /\ f.pc \in {"conflicts", "installedConflicts"} => RequiresDone(f.var, {})
  /\ f.op = "install" /\ f.pc = "conflicts" => ConflictsDone(f.var, f.todo)
  /\ f.op = "install" /\ f.pc = "installedConflicts" => ConflictsDone(f.var, {})
  /\ f.op = "remove" /\ f.pc = "dependents" => DependentsDone(f.var, f.todo)

\* A call changes the state of its package, and has a list to rewrite only
\* while it does so; every call but the running one is doing that.
WorkFrame ==
  {f \in Frame : /\ f.op = "install" /\ f.pc # "enter" => f.var \notin scope.installed
                 /\ f.op = "remove" => f.var \in scope.installed
                 /\ f.pc # "reconstruct" => f.calls = <<>>}
WaitingFrame == {f \in WorkFrame : f.pc = "reconstruct"}

\* The inductive invariant while the equation is under construction.
WritingInv ==
  /\ stack \in Seq(WorkFrame)
  /\ stack # <<>> => Tail(stack) \in Seq(WaitingFrame)
  /\ phase # "built" => \A v \in FullEntry \ ToBeRewritten : Written(v)
  /\ phase # "built" => \A f \in ToSet(stack) : WrittenUpTo(f)

-----------------------------------------------------------------------------
(***************************************************************************)
(* Lemmas about the stack of calls                                         *)
(***************************************************************************)

\* The elements of a sequence are its head and those of its tail.
LEMMA ToSetOfTail ==
  ASSUME NEW F, NEW s \in Seq(F), s # <<>>
  PROVE  ToSet(s) = {Head(s)} \union ToSet(Tail(s))
<1>1. /\ Tail(s) \in Seq(F)
      /\ Len(Tail(s)) = Len(s) - 1
      /\ \A i \in 1..(Len(s) - 1) : Tail(s)[i] = s[i + 1]
      /\ Len(s) \in Nat /\ Len(s) # 0
  BY HeadTailProperties
<1>2. Head(s) = s[1] /\ DOMAIN s = 1..Len(s) /\ DOMAIN Tail(s) = 1..(Len(s) - 1)
  BY <1>1
<1>3. ASSUME NEW i \in DOMAIN s
      PROVE  s[i] \in {Head(s)} \union ToSet(Tail(s))
  <2>1. CASE i = 1
    BY <1>2, <2>1
  <2>2. CASE i # 1
    <3>1. i - 1 \in 1..(Len(s) - 1) /\ (i - 1) + 1 = i
      BY <1>1, <1>2, <2>2
    <3>2. Tail(s)[i - 1] = s[i]
      BY <1>1, <3>1
    <3> QED
      BY <1>2, <3>1, <3>2 DEF ToSet
  <2> QED
    BY <2>1, <2>2
<1>4. ASSUME NEW i \in DOMAIN Tail(s)
      PROVE  Tail(s)[i] \in ToSet(s)
  <2>1. i + 1 \in DOMAIN s /\ Tail(s)[i] = s[i + 1]
    BY <1>1, <1>2
  <2> QED
    BY <2>1 DEF ToSet
<1>5. Head(s) \in ToSet(s)
  BY <1>1, <1>2 DEF ToSet
<1> QED
  BY <1>3, <1>4, <1>5 DEF ToSet

\* The calls of a stack with a call put on top.
LEMMA CallsWithNewTop ==
  ASSUME NEW F, NEW f \in F, NEW rest \in Seq(F)
  PROVE  ToSet(<<f>> \o rest) = {f} \union ToSet(rest)
<1> DEFINE s == <<f>>
<1>1. s \in Seq(F) /\ Range(s) = {f}
  BY DEF Range
<1> HIDE DEF s
<1>2. Range(s \o rest) = Range(s) \union Range(rest)
  BY <1>1, RangeConcatenation
<1>3. ToSet(s \o rest) = Range(s \o rest) /\ ToSet(rest) = Range(rest)
  BY DEF ToSet, Range
<1> QED
  BY <1>1, <1>2, <1>3 DEF s

-----------------------------------------------------------------------------
(***************************************************************************)
(* What is done stays done                                                 *)
(***************************************************************************)

\* The queries answer the same as long as the scope is the same.
LEMMA QueriesStay ==
  ASSUME UNCHANGED scope
  PROVE  /\ \A r : selectMatchingVarsWithProvides(r)' = selectMatchingVarsWithProvides(r)
         /\ \A v : VersionsOf(v)' = VersionsOf(v)
         /\ \A v : whatDependAmongInstalled(v)' = whatDependAmongInstalled(v)
<1>1. \A r : selectMatchingVarsWithProvides(r)' = selectMatchingVarsWithProvides(r)
  BY DEF selectMatchingVarsWithProvides, MatchesByName, MatchesByProvide
<1>2. \A v : VersionsOf(v)' = VersionsOf(v)
  BY DEF VersionsOf
<1>3. \A v : whatDependAmongInstalled(v)' = whatDependAmongInstalled(v)
  BY <1>1 DEF whatDependAmongInstalled
<1> QED
  BY <1>1, <1>2, <1>3

\* The clauses of v stay and so do the germs that list it.
Keeps(v) ==
  /\ UNCHANGED <<scope, userTaskInstall, userTaskRemove>>
  /\ sat[v] \subseteq sat'[v]
  /\ \A w : GermOf(w, v) => GermOf(w, v)'

LEMMA DoneStays ==
  ASSUME NEW v, Keeps(v)
  PROVE  /\ \A w : KeptOut(v, w) => KeptOut(v, w)'
         /\ \A r : RequireDone(v, r) => RequireDone(v, r)'
         /\ \A o : DependentDone(v, o) => DependentDone(v, o)'
<1>1. \A r : selectMatchingVarsWithProvides(r)' = selectMatchingVarsWithProvides(r)
  BY QueriesStay DEF Keeps
<1>2. \A w : KeptOut(v, w) => KeptOut(v, w)'
  BY DEF Keeps, KeptOut
<1>3. ASSUME NEW r, RequireDone(v, r)
      PROVE  RequireDone(v, r)'
  <2> DEFINE A == selectMatchingVarsWithProvides(r) \ userTaskRemove
  <2>1. A' = A
    BY <1>1 DEF Keeps
  <2>2. \/ A \intersect userTaskInstall # {}
        \/ \E g \in A \intersect scope.installed : GermOf(g, v)
        \/ onRequire(v, A) \in sat[v]
    BY <1>3 DEF RequireDone
  <2> SUFFICES \/ A' \intersect userTaskInstall' # {}
               \/ \E g \in A' \intersect scope'.installed : GermOf(g, v)'
               \/ onRequire(v, A') \in sat'[v]
    BY DEF RequireDone
  <2> HIDE DEF A
  <2> QED
    BY <2>1, <2>2 DEF Keeps
<1>4. ASSUME NEW o, DependentDone(v, o)
      PROVE  DependentDone(v, o)'
  <2> DEFINE A == selectMatchingVarsWithProvides(o.rel) \ ({v} \union userTaskRemove)
  <2>1. A' = A
    BY <1>1 DEF Keeps
  <2>2. \/ o.owner \in userTaskRemove
        \/ A \intersect userTaskInstall # {}
        \/ \E g \in A \intersect scope.installed : GermOf(g, v)
        \/ onDependent(v, o.owner, A) \in sat[v]
    BY <1>4 DEF DependentDone
  <2> SUFFICES \/ o.owner \in userTaskRemove'
               \/ A' \intersect userTaskInstall' # {}
               \/ \E g \in A' \intersect scope'.installed : GermOf(g, v)'
               \/ onDependent(v, o.owner, A') \in sat'[v]
    BY DEF DependentDone
  <2> HIDE DEF A
  <2> QED
    BY <2>1, <2>2 DEF Keeps
<1> QED
  BY <1>2, <1>3, <1>4

LEMMA LoopsStay ==
  ASSUME NEW v, Keeps(v)
  PROVE  /\ OthersDone(v) => OthersDone(v)'
         /\ \A left : RequiresDone(v, left) => RequiresDone(v, left)'
         /\ \A left : ConflictsDone(v, left) => ConflictsDone(v, left)'
         /\ \A left : DependentsDone(v, left) => DependentsDone(v, left)'
<1>1. /\ \A r : selectMatchingVarsWithProvides(r)' = selectMatchingVarsWithProvides(r)
      /\ VersionsOf(v)' = VersionsOf(v)
      /\ whatDependAmongInstalled(v)' = whatDependAmongInstalled(v)
      /\ scope' = scope
  BY QueriesStay DEF Keeps
<1>2. /\ \A w : KeptOut(v, w) => KeptOut(v, w)'
      /\ \A r : RequireDone(v, r) => RequireDone(v, r)'
      /\ \A o : DependentDone(v, o) => DependentDone(v, o)'
  BY DoneStays
<1>3. \A r : ConflictDone(v, r) => ConflictDone(v, r)'
  BY <1>1, <1>2 DEF ConflictDone
<1>4. OthersDone(v) => OthersDone(v)'
  BY <1>1, <1>2 DEF OthersDone
<1>5. \A left : RequiresDone(v, left) => RequiresDone(v, left)'
  BY <1>1, <1>2 DEF RequiresDone
<1>6. \A left : ConflictsDone(v, left) => ConflictsDone(v, left)'
  BY <1>1, <1>3 DEF ConflictsDone
<1>7. \A left : DependentsDone(v, left) => DependentsDone(v, left)'
  BY <1>1, <1>2 DEF DependentsDone
<1> QED
  BY <1>4, <1>5, <1>6, <1>7

LEMMA WrittenStays ==
  ASSUME NEW v, Keeps(v), sat'[v] = sat[v], Written(v)
  PROVE  Written(v)'
<1>1. scope' = scope
  BY DEF Keeps
<1>2. CASE v \in scope.installed
  BY <1>1, <1>2, LoopsStay DEF Written
<1>3. CASE v \notin scope.installed
  <2>1. InstallDone(v) => InstallDone(v)'
    BY LoopsStay DEF InstallDone
  <2> QED
    BY <1>1, <1>3, <2>1 DEF Written
<1> QED
  BY <1>2, <1>3

-----------------------------------------------------------------------------
(***************************************************************************)
(* The pieces of a visit                                                   *)
(***************************************************************************)

\* What a step of the visit to v leaves to every other package.
VisitOnly(v) ==
  /\ UNCHANGED <<scope, userTaskInstall, userTaskRemove>>
  /\ FullEntry' = FullEntry
  /\ \A w \in Var : ToSet(reconstruct[w]) \subseteq ToSet(reconstruct'[w])
  /\ \A u \in Var \ {v} : sat'[u] = sat[u]

LEMMA VisitOnlyKeeps ==
  ASSUME NEW v, VisitOnly(v)
  PROVE  /\ \A u \in Var \ {v} : Keeps(u) /\ sat'[u] = sat[u]
         /\ sat[v] \subseteq sat'[v] => Keeps(v)
<1>1. \A u, w : GermOf(w, u) => GermOf(w, u)'
  BY DEF VisitOnly, GermOf
<1> QED
  BY <1>1 DEF VisitOnly, Keeps

\* The elements of a sequence with one more at its end.
LEMMA ToSetOfAppend ==
  ASSUME NEW s \in Seq(Var), NEW v \in Var
  PROVE  ToSet(Append(s, v)) = ToSet(s) \union {v}
<1>1. /\ Len(Append(s, v)) = Len(s) + 1
      /\ \A i \in 1..Len(s) : Append(s, v)[i] = s[i]
      /\ Append(s, v)[Len(s) + 1] = v
      /\ DOMAIN Append(s, v) = 1..(Len(s) + 1) /\ DOMAIN s = 1..Len(s) /\ Len(s) \in Nat
  BY AppendProperties
<1>2. \A i \in 1..(Len(s) + 1) : i \in 1..Len(s) \/ i = Len(s) + 1
  BY <1>1
<1>3. 1..Len(s) \subseteq 1..(Len(s) + 1) /\ Len(s) + 1 \in 1..(Len(s) + 1)
  BY <1>1
<1> QED
  BY <1>1, <1>2, <1>3 DEF ToSet

\* A germ lists the package useGerms() was called for.
LEMMA UseGermsLists ==
  ASSUME TypeOK, NEW S, S \subseteq Var, NEW v \in Var, useGerms(S, v)
  PROVE  /\ FullEntry' = FullEntry
         /\ \A w \in Var : ToSet(reconstruct[w]) \subseteq ToSet(reconstruct'[w])
         /\ \A w \in GermsAmong(S) : w \in Var \ FullEntry /\ v \in ToSet(reconstruct'[w])
<1>1. GermsAmong(S) \intersect FullEntry = {} /\ GermsAmong(S) \subseteq Var
  BY DEF GermsAmong
<1>2. FullEntry' = FullEntry
  BY <1>1 DEF useGerms, FullEntry
<1>3. \A w \in Var : ToSet(Append(reconstruct[w], v)) = ToSet(reconstruct[w]) \union {v}
  BY ToSetOfAppend DEF TypeOK
<1>4. ASSUME NEW w \in Var
      PROVE  /\ ToSet(reconstruct[w]) \subseteq ToSet(reconstruct'[w])
             /\ w \in GermsAmong(S) => v \in ToSet(reconstruct'[w])
  <2>1. reconstruct'[w] = IF w \in GermsAmong(S) /\ v \notin ToSet(reconstruct[w])
                          THEN Append(reconstruct[w], v) ELSE reconstruct[w]
    BY DEF useGerms
  <2> QED
    BY <1>3, <2>1
<1> QED
  BY <1>1, <1>2, <1>4

LEMMA BlockKeepsOut ==
  ASSUME TypeOK, NEW S, S \subseteq Var, NEW v \in Var, Block(S, v),
         UNCHANGED <<scope, userTaskInstall, userTaskRemove>>
  PROVE  /\ VisitOnly(v) /\ Keeps(v)
         /\ \A w \in S : KeptOut(v, w)'
<1> DEFINE uninstalled == S \ scope.installed
           blocked == S \ GermsAmong(uninstalled)
<1>1. /\ FullEntry' = FullEntry
      /\ \A w \in Var : ToSet(reconstruct[w]) \subseteq ToSet(reconstruct'[w])
      /\ \A w \in GermsAmong(uninstalled) : w \in Var \ FullEntry /\ v \in ToSet(reconstruct'[w])
  BY UseGermsLists DEF Block
<1>2. sat' = [sat EXCEPT ![v] = @ \union {onConflict(v, w) : w \in blocked}]
  BY DEF Block
<1>3. /\ sat'[v] = sat[v] \union {onConflict(v, w) : w \in blocked}
      /\ \A u \in Var \ {v} : sat'[u] = sat[u]
  BY <1>2 DEF TypeOK
<1>4. VisitOnly(v) /\ Keeps(v)
  BY <1>1, <1>3, VisitOnlyKeeps DEF VisitOnly
<1>5. ASSUME NEW w \in S
      PROVE  KeptOut(v, w)'
  <2>1. CASE w \in GermsAmong(uninstalled)
    BY <1>1, <2>1 DEF KeptOut, GermOf, GermsAmong
  <2>2. CASE w \in blocked
    BY <1>3, <2>2 DEF KeptOut
  <2> QED
    BY <2>1, <2>2
<1> QED
  BY <1>4, <1>5

LEMMA RequireClauseDone ==
  ASSUME TypeOK, NEW v \in Var, NEW A, A \subseteq Var, NEW last, NEW clause,
         RequireClause(v, A, last, clause),
         UNCHANGED <<scope, userTaskInstall, userTaskRemove>>
  PROVE  /\ VisitOnly(v) /\ Keeps(v)
         /\ (\E g \in A \intersect scope.installed : GermOf(g, v)') \/ clause \in sat'[v]
<1> DEFINE installed == A \intersect scope.installed
<1>1. /\ FullEntry' = FullEntry
      /\ \A w \in Var : ToSet(reconstruct[w]) \subseteq ToSet(reconstruct'[w])
      /\ \A w \in GermsAmong(installed) : w \in Var \ FullEntry /\ v \in ToSet(reconstruct'[w])
  BY UseGermsLists DEF RequireClause
<1>2. CASE GermsAmong(installed) # {}
  <2>1. sat' = sat
    BY <1>2 DEF RequireClause
  <2>2. VisitOnly(v) /\ Keeps(v)
    BY <1>1, <2>1, VisitOnlyKeeps DEF VisitOnly
  <2>3. \E g \in A \intersect scope.installed : GermOf(g, v)'
    BY <1>1, <1>2 DEF GermOf, GermsAmong
  <2> QED
    BY <2>2, <2>3
<1>3. CASE GermsAmong(installed) = {}
  <2>1. sat' = [sat EXCEPT ![v] = @ \union {clause}]
    BY <1>3 DEF RequireClause
  <2>2. sat'[v] = sat[v] \union {clause} /\ \A u \in Var \ {v} : sat'[u] = sat[u]
    BY <2>1 DEF TypeOK
  <2>3. VisitOnly(v) /\ Keeps(v)
    BY <1>1, <2>2, VisitOnlyKeeps DEF VisitOnly
  <2> QED
    BY <2>2, <2>3
<1> QED
  BY <1>2, <1>3

-----------------------------------------------------------------------------
(***************************************************************************)
(* The visit goes on, ends or hands over                                   *)
(***************************************************************************)

\* A stack of calls in progress, taken apart.
LEMMA CallsInProgress ==
  ASSUME WritingInv, stack # <<>>
  PROVE  /\ top \in WorkFrame
         /\ Tail(stack) \in Seq(WaitingFrame) /\ Tail(stack) \in Seq(WorkFrame)
         /\ ToSet(stack) = {top} \union ToSet(Tail(stack))
         /\ ToBeRewritten = InWork(top) \union UNION {InWork(g) : g \in ToSet(Tail(stack))}
         /\ \A g \in ToSet(Tail(stack)) : g.pc = "reconstruct"
<1>1. stack \in Seq(WorkFrame) /\ Tail(stack) \in Seq(WaitingFrame)
  BY DEF WritingInv
<1>2. top \in WorkFrame /\ Tail(stack) \in Seq(WorkFrame)
  BY <1>1, TopOfStack
<1>3. ToSet(stack) = {top} \union ToSet(Tail(stack))
  BY <1>1, ToSetOfTail DEF top
<1>4. ToBeRewritten = InWork(top) \union UNION {InWork(g) : g \in ToSet(Tail(stack))}
  BY <1>3 DEF ToBeRewritten
<1>5. \A g \in ToSet(Tail(stack)) : g \in WaitingFrame
  BY <1>1 DEF ToSet
<1> QED
  BY <1>1, <1>2, <1>3, <1>4, <1>5 DEF WaitingFrame

\* The running call is replaced by another one, or by none; whoever is not
\* to be rewritten any more has its clauses.
LEMMA TopReplaced ==
  ASSUME WritingInv, stack # <<>>, phase # "built", UNCHANGED scope,
         NEW f \in WorkFrame, stack' = <<f>> \o Tail(stack),
         WrittenUpTo(f)',
         \A u \in FullEntry' \ (InWork(f) \union UNION {InWork(g) : g \in ToSet(Tail(stack))}) :
           Written(u)'
  PROVE  WritingInv'
<1>1. Tail(stack) \in Seq(WaitingFrame) /\ Tail(stack) \in Seq(WorkFrame)
      /\ \A g \in ToSet(Tail(stack)) : g.pc = "reconstruct"
  BY CallsInProgress
<1>2. WorkFrame' = WorkFrame /\ WaitingFrame' = WaitingFrame
  BY DEF WorkFrame, WaitingFrame
<1>3. stack' \in Seq(WorkFrame) /\ stack' # <<>> /\ Tail(stack') = Tail(stack)
  BY <1>1, ReplaceTop
<1>4. ToSet(stack') = {f} \union ToSet(Tail(stack))
  <2>1. PICK F, rest : F = WorkFrame /\ rest = Tail(stack)
    OBVIOUS
  <2>2. f \in F /\ rest \in Seq(F)
    BY <1>1, <2>1
  <2>3. ToSet(<<f>> \o rest) = {f} \union ToSet(rest)
    BY <2>2, CallsWithNewTop
  <2>. QED BY <2>1, <2>3
<1>5. ToBeRewritten' = InWork(f) \union UNION {InWork(g) : g \in ToSet(Tail(stack))}
  BY <1>4 DEF ToBeRewritten
<1>6. ASSUME NEW g \in ToSet(stack')
      PROVE  WrittenUpTo(g)'
  <2>1. CASE g = f
    BY <2>1
  <2>2. CASE g \in ToSet(Tail(stack))
    BY <1>1, <2>2 DEF WrittenUpTo
  <2> QED
    BY <1>4, <2>1, <2>2
<1> QED
  BY <1>1, <1>2, <1>3, <1>5, <1>6 DEF WritingInv

LEMMA TopReturned ==
  ASSUME WritingInv, stack # <<>>, phase # "built", UNCHANGED scope, stack' = Tail(stack),
         \A u \in FullEntry' \ UNION {InWork(g) : g \in ToSet(Tail(stack))} : Written(u)'
  PROVE  WritingInv'
<1>1. Tail(stack) \in Seq(WaitingFrame) /\ Tail(stack) \in Seq(WorkFrame)
      /\ \A g \in ToSet(Tail(stack)) : g.pc = "reconstruct"
  BY CallsInProgress
<1>2. WorkFrame' = WorkFrame /\ WaitingFrame' = WaitingFrame
  BY DEF WorkFrame, WaitingFrame
<1>3. stack' # <<>> => Tail(stack') \in Seq(WaitingFrame)
  BY <1>1, HeadTailProperties
<1>4. ToBeRewritten' = UNION {InWork(g) : g \in ToSet(Tail(stack))}
  BY DEF ToBeRewritten
<1>5. \A g \in ToSet(stack') : WrittenUpTo(g)'
  BY <1>1 DEF WrittenUpTo
<1> QED
  BY <1>1, <1>2, <1>3, <1>4, <1>5 DEF WritingInv

\* The visit goes on at "next" with the loop over "todo".
LEMMA VisitGoesOn ==
  ASSUME TypeOK, WritingInv, NEW op, NEW pc, pc # "enter", At(op, pc), top.calls = <<>>,
         NEW v, v = top.var, VisitOnly(v),
         NEW next \in {"others", "requires", "conflicts", "installedConflicts", "dependents"},
         NEW todo, todo \subseteq OwnedRel, Goto(next, todo),
         NEW f, f = [top EXCEPT !.pc = next, !.todo = todo], WrittenUpTo(f)'
  PROVE  WritingInv'
<1>1. stack # <<>> /\ top.pc = pc /\ phase # "built"
  BY DEF At, Building
<1>2. top \in WorkFrame /\ top \in Frame
  BY <1>1, CallsInProgress DEF WorkFrame
<1>3. /\ f \in Frame
      /\ f.op = top.op /\ f.var = top.var /\ f.calls = <<>> /\ f.pc = next
  BY <1>2 DEF Frame
<1>4. f \in WorkFrame
  BY <1>1, <1>2, <1>3 DEF WorkFrame
<1>5. InWork(f) = InWork(top) /\ v \in InWork(f)
  BY <1>3 DEF InWork
<1>6. ASSUME NEW u \in FullEntry' \ (InWork(f) \union UNION {InWork(g) : g \in ToSet(Tail(stack))})
      PROVE  Written(u)'
  <2>1. u \in FullEntry /\ u \notin ToBeRewritten /\ u # v /\ u \in Var
    BY <1>1, <1>5, CallsInProgress DEF VisitOnly, FullEntry, TypeOK
  <2>2. Written(u)
    BY <1>1, <2>1 DEF WritingInv
  <2> QED
    BY <2>1, <2>2, VisitOnlyKeeps, WrittenStays
<1>7. stack' = <<f>> \o Tail(stack) /\ UNCHANGED scope
  BY DEF Goto, VisitOnly
<1> QED
  BY <1>1, <1>4, <1>6, <1>7, TopReplaced

\* The visit is over and v has its clauses.
LEMMA VisitEnds ==
  ASSUME TypeOK, WritingInv, NEW op, NEW pc, pc \notin {"enter", "reconstruct"}, At(op, pc),
         NEW v, v = top.var, VisitOnly(v), Written(v)'
  PROVE  /\ stack' = Tail(stack) => WritingInv'
         /\ \A r \in Var : (/\ stack' = <<Call("install", r, v)>> \o Tail(stack)
                            /\ v \in Var) => WritingInv'
<1>1. stack # <<>> /\ top.pc = pc /\ phase # "built" /\ UNCHANGED scope
  BY DEF At, Building, VisitOnly
<1>2. ToSet(<<>>) = {}
  BY DEF ToSet
<1>3. InWork(top) = {v}
  BY <1>1, <1>2, CallsInProgress DEF WorkFrame, InWork
<1>4. ASSUME NEW u \in FullEntry' \ UNION {InWork(g) : g \in ToSet(Tail(stack))}
      PROVE  Written(u)'
  <2>1. CASE u = v
    BY <2>1
  <2>2. CASE u # v
    <3>1. u \in FullEntry /\ u \notin ToBeRewritten /\ u \in Var
      BY <1>1, <1>3, <2>2, CallsInProgress DEF VisitOnly, FullEntry, TypeOK
    <3>2. Written(u)
      BY <1>1, <3>1 DEF WritingInv
    <3> QED
      BY <2>2, <3>1, <3>2, VisitOnlyKeeps, WrittenStays
  <2> QED
    BY <2>1, <2>2
<1>5. stack' = Tail(stack) => WritingInv'
  BY <1>1, <1>4, TopReturned
<1>6. ASSUME NEW r \in Var, stack' = <<Call("install", r, v)>> \o Tail(stack), v \in Var
      PROVE  WritingInv'
  <2> DEFINE f == Call("install", r, v)
  <2>1. f \in WorkFrame /\ f.pc = "enter"
    BY <1>6, EmptySeq DEF Call, WorkFrame, Frame
  <2> HIDE DEF f
  <2>2. WrittenUpTo(f)'
    BY <2>1 DEF WrittenUpTo
  <2> QED
    BY <1>1, <1>4, <1>6, <2>1, <2>2, TopReplaced DEF f
<1> QED
  BY <1>5, <1>6

-----------------------------------------------------------------------------
(***************************************************************************)
(* The steps of toBeInstalled() and toBeRemoved()                          *)
(***************************************************************************)

\* A loop with one iteration less to do.
LEMMA OneIterationLess ==
  ASSUME NEW v, Keeps(v), NEW todo, NEW o
  PROVE  /\ RequiresDone(v, todo) /\ RequireDone(v, o.rel)' => RequiresDone(v, todo \ {o})'
         /\ ConflictsDone(v, todo) /\ ConflictDone(v, o.rel)' => ConflictsDone(v, todo \ {o})'
         /\ DependentsDone(v, todo) /\ DependentDone(v, o)' => DependentsDone(v, todo \ {o})'
<1>1. /\ RequiresDone(v, todo) => RequiresDone(v, todo)'
      /\ ConflictsDone(v, todo) => ConflictsDone(v, todo)'
      /\ DependentsDone(v, todo) => DependentsDone(v, todo)'
  BY LoopsStay
<1>2. RequiresDone(v, todo)' /\ RequireDone(v, o.rel)' => RequiresDone(v, todo \ {o})'
  BY DEF RequiresDone
<1>3. ConflictsDone(v, todo)' /\ ConflictDone(v, o.rel)' => ConflictsDone(v, todo \ {o})'
  BY DEF ConflictsDone
<1>4. DependentsDone(v, todo)' /\ DependentDone(v, o)' => DependentsDone(v, todo \ {o})'
  BY DEF DependentsDone
<1> QED
  BY <1>1, <1>2, <1>3, <1>4

\* What the invariant says of the running call in the middle of its visit.
LEMMA RunningCall ==
  ASSUME TypeOK, WritingInv, NEW op, NEW pc, pc # "enter", At(op, pc)
  PROVE  /\ WrittenUpTo(top)
         /\ top.op = op /\ top.pc = pc /\ stack # <<>>
         /\ op = "install" => top.var \in Var \ scope.installed
         /\ op = "remove" => top.var \in scope.installed
         /\ pc # "reconstruct" => top.calls = <<>>
<1>1. stack # <<>> /\ top.op = op /\ top.pc = pc /\ phase # "built"
  BY DEF At, Building
<1>2. top \in WorkFrame /\ top \in ToSet(stack) /\ top.var \in Var
  BY <1>1, CallsInProgress, VisitTypes
<1> QED
  BY <1>1, <1>2 DEF WorkFrame, WritingInv

\* Giving up ends the visit with the one clause that it may.
LEMMA GiveUpEnds ==
  ASSUME TypeOK, WritingInv, NEW op, NEW pc, pc \notin {"enter", "reconstruct"}, At(op, pc),
         NEW v \in Var, v = top.var, UNCHANGED <<scope, userTaskInstall, userTaskRemove>>,
         NEW clause, GiveUp(v, clause),
         clause = IF v \in scope.installed THEN unremovable(v) ELSE uninstallable(v)
  PROVE  WritingInv'
<1>1. sat' = [sat EXCEPT ![v] = {clause}] /\ stack' = Tail(stack)
      /\ UNCHANGED <<hasEntry, germ, reconstruct>>
  BY DEF GiveUp, Return
<1>2. sat'[v] = {clause} /\ \A u \in Var \ {v} : sat'[u] = sat[u]
  BY <1>1 DEF TypeOK
<1>3. VisitOnly(v)
  BY <1>1, <1>2 DEF VisitOnly, FullEntry
<1>4. Written(v)'
  BY <1>2 DEF Written, uninstallable, unremovable
<1> QED
  BY <1>1, <1>3, <1>4, VisitEnds

\* A step that touches neither the calls nor the table.
LEMMA NothingWritten ==
  ASSUME WritingInv, phase # "built",
         UNCHANGED <<scope, userTaskInstall, userTaskRemove, stack, hasEntry, germ, sat, reconstruct>>
  PROVE  WritingInv'
<1>1. \A u : Keeps(u) /\ sat'[u] = sat[u]
  BY DEF Keeps, GermOf, FullEntry
<1>2. ASSUME NEW f, WrittenUpTo(f)
      PROVE  WrittenUpTo(f)'
  <2>1. Keeps(f.var)
    BY <1>1
  <2> QED
    BY <1>2, <2>1, LoopsStay DEF WrittenUpTo
<1>3. \A f \in ToSet(stack) : WrittenUpTo(f)'
  BY <1>2 DEF WritingInv
<1>4. \A u \in FullEntry \ ToBeRewritten : Written(u)'
  BY <1>1, WrittenStays DEF WritingInv
<1>5. /\ WorkFrame' = WorkFrame /\ WaitingFrame' = WaitingFrame
      /\ FullEntry' = FullEntry /\ ToBeRewritten' = ToBeRewritten
  BY DEF WorkFrame, WaitingFrame, FullEntry, ToBeRewritten
<1> QED
  BY <1>3, <1>4, <1>5 DEF WritingInv

\* The loop over the other versions blocks every one of them.
LEMMA BlockOtherVersionsWrites ==
  ASSUME TypeOK, WritingInv, BlockOtherVersions
  PROVE  WritingInv'
<1> USE DEF taskVars
<1>1. At("install", "others") /\ UNCHANGED <<scope, userTaskInstall, userTaskRemove>>
  BY DEF BlockOtherVersions
<1>2. PICK v \in Var : v = top.var
  BY <1>1, VisitTypes
<1> DEFINE others == VersionsOf(v) \ ({v} \union userTaskRemove)
<1>3. v \notin scope.installed /\ top.calls = <<>>
  BY <1>1, <1>2, RunningCall
<1>4. CASE GiveUp(v, uninstallable(v))
  BY <1>1, <1>2, <1>3, <1>4, GiveUpEnds
<1>5. CASE Block(others, v) /\ Goto("requires", RelsOf(v, getRequires(v)))
  <2>1. others \subseteq Var /\ scope \in PkgScopeType
    BY DEF VersionsOf, TypeOK
  <2>2. VisitOnly(v) /\ Keeps(v) /\ \A w \in others : KeptOut(v, w)'
    BY <1>1, <1>5, <2>1, BlockKeepsOut
  <2>3. OthersDone(v)'
    <3>1. \A w \in userTaskRemove : KeptOut(v, w)'
      BY <1>1 DEF KeptOut
    <3>2. VersionsOf(v)' = VersionsOf(v)
      BY <1>1, QueriesStay
    <3> QED
      BY <2>2, <3>1, <3>2 DEF OthersDone
  <2>4. PICK todo : todo = RelsOf(v, scope.requires[v])
    OBVIOUS
  <2>5. todo \subseteq OwnedRel /\ Goto("requires", todo)
    BY <1>5, <2>1, <2>4, ScopeTypes DEF getRequires
  <2>6. PICK f : f = [top EXCEPT !.pc = "requires", !.todo = todo]
    OBVIOUS
  <2>7. f.pc = "requires" /\ f.var = v /\ f.todo = todo /\ f.op = "install"
    BY <1>1, <1>2, <2>6, VisitTypes, RunningCall DEF Frame
  <2>8. RequiresDone(v, todo)'
    BY <1>1, <2>4 DEF RequiresDone
  <2>9. WrittenUpTo(f)'
    BY <2>3, <2>7, <2>8 DEF WrittenUpTo
  <2> QED
    BY <1>1, <1>2, <1>3, <2>2, <2>5, <2>6, <2>9, VisitGoesOn
<1> QED
  BY <1>2, <1>4, <1>5 DEF BlockOtherVersions

\* A require is done when its clause is written, when the user task meets it
\* or when the germ of a package that meets it lists v.
LEMMA RequireWrites ==
  ASSUME TypeOK, WritingInv, NEW o \in loop, Require(o)
  PROVE  WritingInv'
<1> USE DEF taskVars
<1>1. At("install", "requires") /\ UNCHANGED <<scope, userTaskInstall, userTaskRemove>>
  BY DEF Require
<1>2. PICK v \in Var : v = top.var
  BY <1>1, VisitTypes
<1>3. PICK todo : todo = top.todo
  OBVIOUS
<1>4. /\ v \notin scope.installed /\ top.calls = <<>> /\ phase # "built"
      /\ OthersDone(v) /\ RequiresDone(v, todo)
      /\ top.op = "install" /\ top.pc = "requires"
  BY <1>1, <1>2, <1>3, RunningCall DEF WrittenUpTo, At, Building
<1> DEFINE alternatives == selectMatchingVarsWithProvides(o.rel) \ userTaskRemove
<1>5. CASE UNCHANGED <<stack, hasEntry, germ, sat, reconstruct>>
  BY <1>1, <1>4, <1>5, NothingWritten
<1>6. CASE GiveUp(v, uninstallable(v))
  BY <1>1, <1>2, <1>4, <1>6, GiveUpEnds
<1>7. ASSUME NextIteration(o), VisitOnly(v), Keeps(v), RequireDone(v, o.rel)'
      PROVE  WritingInv'
  <2>1. PICK rest : rest = todo \ {o}
    OBVIOUS
  <2>2. rest \subseteq OwnedRel /\ Goto("requires", rest)
    BY <1>1, <1>3, <1>4, <1>7, <2>1, VisitTypes DEF NextIteration
  <2>3. PICK f : f = [top EXCEPT !.pc = "requires", !.todo = rest]
    OBVIOUS
  <2>4. f.pc = "requires" /\ f.var = v /\ f.todo = rest /\ f.op = "install"
    BY <1>1, <1>2, <1>4, <2>3, VisitTypes DEF Frame
  <2>5. OthersDone(v)' /\ RequiresDone(v, rest)'
    BY <1>4, <1>7, <2>1, LoopsStay, OneIterationLess
  <2>6. WrittenUpTo(f)'
    BY <2>4, <2>5 DEF WrittenUpTo
  <2> QED
    BY <1>1, <1>2, <1>4, <1>7, <2>2, <2>3, <2>6, VisitGoesOn
<1>8. CASE /\ alternatives \intersect userTaskInstall # {}
           /\ NextIteration(o)
           /\ UNCHANGED <<pending, hasEntry, germ, sat, reconstruct>>
  <2>1. VisitOnly(v) /\ Keeps(v)
    BY <1>1, <1>8, VisitOnlyKeeps DEF VisitOnly, FullEntry
  <2>2. RequireDone(v, o.rel)
    BY <1>8 DEF RequireDone
  <2>3. RequireDone(v, o.rel)'
    BY <2>1, <2>2, DoneStays
  <2> QED
    BY <1>7, <1>8, <2>1, <2>3
<1>9. CASE /\ NextIteration(o)
           /\ RequireClause(v, alternatives, <<>>, onRequire(v, alternatives))
  <2>1. PICK A \in SUBSET Var : A = alternatives
    BY <1>1, VisitTypes, ScopeTypes
  <2>2. /\ VisitOnly(v) /\ Keeps(v)
        /\ (\E g \in A \intersect scope.installed : GermOf(g, v)') \/ onRequire(v, A) \in sat'[v]
    BY <1>1, <1>9, <2>1, RequireClauseDone
  <2>3. A = selectMatchingVarsWithProvides(o.rel)' \ userTaskRemove' /\ scope' = scope
    BY <1>1, <2>1, QueriesStay
  <2>4. RequireDone(v, o.rel)'
    BY <2>2, <2>3 DEF RequireDone
  <2> QED
    BY <1>7, <1>9, <2>2, <2>4
<1> QED
  BY <1>2, <1>5, <1>6, <1>8, <1>9 DEF Require

\* A conflict is done when every package it is with is kept out.
LEMMA ConflictWrites ==
  ASSUME TypeOK, WritingInv, NEW o \in loop, Conflict(o)
  PROVE  WritingInv'
<1> USE DEF taskVars
<1>1. At("install", "conflicts") /\ UNCHANGED <<scope, userTaskInstall, userTaskRemove>>
  BY DEF Conflict
<1>2. PICK v \in Var : v = top.var
  BY <1>1, VisitTypes
<1>3. PICK todo : todo = top.todo
  OBVIOUS
<1>4. /\ v \notin scope.installed /\ top.calls = <<>> /\ phase # "built"
      /\ OthersDone(v) /\ RequiresDone(v, {}) /\ ConflictsDone(v, todo)
      /\ top.op = "install" /\ top.pc = "conflicts"
  BY <1>1, <1>2, <1>3, RunningCall DEF WrittenUpTo, At, Building
<1> DEFINE others == selectMatchingVarsWithProvides(o.rel) \ ({v} \union userTaskRemove)
<1>5. GiveUp(v, uninstallable(v)) \/ (Block(others, v) /\ NextIteration(o))
  BY <1>2 DEF Conflict
<1>6. CASE GiveUp(v, uninstallable(v))
  BY <1>1, <1>2, <1>4, <1>6, GiveUpEnds
<1>7. CASE Block(others, v) /\ NextIteration(o)
  <2>1. others \subseteq Var
    BY <1>1, VisitTypes, ScopeTypes
  <2>2. VisitOnly(v) /\ Keeps(v) /\ \A w \in others : KeptOut(v, w)'
    BY <1>1, <1>7, <2>1, BlockKeepsOut
  <2>3. ConflictDone(v, o.rel)'
    <3>1. \A w \in userTaskRemove : KeptOut(v, w)'
      BY <1>1 DEF KeptOut
    <3>2. selectMatchingVarsWithProvides(o.rel)' = selectMatchingVarsWithProvides(o.rel)
      BY <1>1, QueriesStay
    <3> QED
      BY <2>2, <3>1, <3>2 DEF ConflictDone
  <2>4. PICK rest : rest = todo \ {o}
    OBVIOUS
  <2>5. rest \subseteq OwnedRel /\ Goto("conflicts", rest)
    BY <1>1, <1>3, <1>4, <1>7, <2>4, VisitTypes DEF NextIteration
  <2>6. PICK f : f = [top EXCEPT !.pc = "conflicts", !.todo = rest]
    OBVIOUS
  <2>7. f.pc = "conflicts" /\ f.var = v /\ f.todo = rest /\ f.op = "install"
    BY <1>1, <1>2, <1>4, <2>6, VisitTypes DEF Frame
  <2>8. OthersDone(v)' /\ RequiresDone(v, {})' /\ ConflictsDone(v, rest)'
    BY <1>4, <2>2, <2>3, <2>4, LoopsStay, OneIterationLess
  <2>9. WrittenUpTo(f)'
    BY <2>7, <2>8 DEF WrittenUpTo
  <2> QED
    BY <1>1, <1>2, <1>4, <2>2, <2>5, <2>6, <2>9, VisitGoesOn
<1> QED
  BY <1>5, <1>6, <1>7

\* The last loop of toBeInstalled() only adds clauses.
LEMMA InstalledConflictWrites ==
  ASSUME TypeOK, WritingInv, NEW o \in loop, InstalledConflict(o)
  PROVE  WritingInv'
<1> USE DEF taskVars
<1>1. At("install", "installedConflicts")
      /\ UNCHANGED <<scope, userTaskInstall, userTaskRemove>>
  BY DEF InstalledConflict
<1>2. PICK v \in Var : v = top.var
  BY <1>1, VisitTypes
<1>3. /\ v \notin scope.installed /\ top.calls = <<>> /\ phase # "built"
      /\ OthersDone(v) /\ RequiresDone(v, {}) /\ ConflictsDone(v, {})
      /\ top.op = "install" /\ top.pc = "installedConflicts"
  BY <1>1, <1>2, RunningCall DEF WrittenUpTo, At, Building
<1>4. CASE GiveUp(v, uninstallable(v))
  BY <1>1, <1>2, <1>3, <1>4, GiveUpEnds
<1>5. CASE /\ NextIteration(o)
           /\ \/ sat' = [sat EXCEPT ![v] = @ \union {onConflict(v, o.owner)}]
              \/ UNCHANGED sat
           /\ UNCHANGED <<hasEntry, germ, reconstruct>>
  <2>1. sat[v] \subseteq sat'[v] /\ \A u \in Var \ {v} : sat'[u] = sat[u]
    BY <1>5 DEF TypeOK
  <2>2. VisitOnly(v) /\ Keeps(v)
    BY <1>1, <1>5, <2>1, VisitOnlyKeeps DEF VisitOnly, FullEntry
  <2>3. PICK rest : rest = top.todo \ {o}
    OBVIOUS
  <2>4. rest \subseteq OwnedRel /\ Goto("installedConflicts", rest)
    BY <1>1, <1>3, <1>5, <2>3, VisitTypes DEF NextIteration
  <2>5. PICK f : f = [top EXCEPT !.pc = "installedConflicts", !.todo = rest]
    OBVIOUS
  <2>6. f.pc = "installedConflicts" /\ f.var = v /\ f.todo = rest /\ f.op = "install"
    BY <1>1, <1>2, <1>3, <2>5, VisitTypes DEF Frame
  <2>7. OthersDone(v)' /\ RequiresDone(v, {})' /\ ConflictsDone(v, {})'
    BY <1>3, <2>2, LoopsStay
  <2>8. WrittenUpTo(f)'
    BY <2>6, <2>7 DEF WrittenUpTo
  <2> QED
    BY <1>1, <1>2, <1>3, <2>2, <2>4, <2>5, <2>8, VisitGoesOn
<1> QED
  BY <1>2, <1>4, <1>5 DEF InstalledConflict

\* Between its loops a visit touches no clause of a package, but starts with
\* none for its own.
LEMMA BetweenLoopsWrites ==
  ASSUME TypeOK, WritingInv,
         BeginInstall \/ EndRequires \/ EndConflicts \/ EndInstall \/ BeginRemove
  PROVE  WritingInv'
<1> USE DEF taskVars, tableVars
<1>1. CASE BeginInstall \/ BeginRemove
  <2>1. PICK op \in {"install", "remove"} :
          /\ At(op, "reconstruct") /\ top.calls = <<>>
          /\ \/ op = "install" /\ Goto("others", {})
             \/ op = "remove" /\ Goto("dependents", whatDependAmongInstalled(top.var))
    BY <1>1 DEF BeginInstall, BeginRemove
  <2>2. PICK v \in Var : v = top.var
    BY <2>1, VisitTypes
  <2>3. UNCHANGED <<scope, userTaskInstall, userTaskRemove, hasEntry, germ, reconstruct>>
        /\ sat' = [sat EXCEPT ![v] = {}]
    BY <1>1, <2>2 DEF BeginInstall, BeginRemove
  <2>4. VisitOnly(v)
    BY <2>3 DEF VisitOnly, FullEntry, TypeOK
  <2>5. PICK next, todo : /\ next = (IF op = "install" THEN "others" ELSE "dependents")
                          /\ todo = (IF op = "install" THEN {} ELSE whatDependAmongInstalled(v))
    OBVIOUS
  <2>6. todo \subseteq OwnedRel /\ Goto(next, todo) /\ next \in {"others", "dependents"}
    BY <2>1, <2>2, <2>5, VisitTypes, ScopeTypes
  <2>7. PICK f : f = [top EXCEPT !.pc = next, !.todo = todo]
    OBVIOUS
  <2>8. f.pc = next /\ f.var = v /\ f.todo = todo /\ f.op = op
    BY <2>1, <2>2, <2>7, VisitTypes, RunningCall DEF Frame
  <2>9. op = "remove" => DependentsDone(v, todo)'
    <3>1. whatDependAmongInstalled(v)' = whatDependAmongInstalled(v)
      BY <2>3, QueriesStay
    <3> QED
      BY <2>5, <3>1 DEF DependentsDone
  <2>10. WrittenUpTo(f)'
    BY <2>1, <2>5, <2>8, <2>9 DEF WrittenUpTo
  <2> QED
    BY <2>1, <2>2, <2>4, <2>6, <2>7, <2>10, VisitGoesOn
<1>2. CASE EndRequires \/ EndConflicts \/ EndInstall
  <2>1. PICK pc \in {"requires", "conflicts", "installedConflicts"} :
          /\ At("install", pc) /\ top.todo = {}
          /\ \/ pc = "requires"
                /\ Goto("conflicts", RelsOf(top.var, getConflicts(top.var)))
             \/ pc = "conflicts"
                /\ Goto("installedConflicts", whatConflictAmongInstalled(top.var))
             \/ pc = "installedConflicts" /\ stack' = Tail(stack)
    BY <1>2 DEF EndRequires, EndConflicts, EndInstall, Return
  <2>2. PICK v \in Var : v = top.var
    BY <2>1, VisitTypes
  <2>3. UNCHANGED <<scope, userTaskInstall, userTaskRemove, hasEntry, germ, reconstruct, sat>>
    BY <1>2 DEF EndRequires, EndConflicts, EndInstall
  <2>4. VisitOnly(v) /\ Keeps(v)
    BY <2>3, VisitOnlyKeeps DEF VisitOnly, FullEntry
  <2>5. v \notin scope.installed /\ top.calls = <<>> /\ WrittenUpTo(top) /\ top.op = "install"
        /\ top.pc = pc
    BY <2>1, <2>2, RunningCall
  <2>6. OthersDone(v)' /\ RequiresDone(v, {})'
    <3>1. OthersDone(v) /\ RequiresDone(v, {})
      BY <2>1, <2>2, <2>5 DEF WrittenUpTo
    <3> QED
      BY <2>4, <3>1, LoopsStay
  <2>7. pc # "requires" => ConflictsDone(v, {})'
    <3>1. pc # "requires" => ConflictsDone(v, {})
      BY <2>1, <2>2, <2>5 DEF WrittenUpTo
    <3> QED
      BY <2>4, <3>1, LoopsStay
  <2>8. CASE pc = "installedConflicts"
    <3>1. Written(v)'
      BY <2>3, <2>5, <2>6, <2>7, <2>8 DEF Written, InstallDone
    <3> QED
      BY <2>1, <2>2, <2>4, <2>8, <3>1, VisitEnds
  <2>9. CASE pc # "installedConflicts"
    <3>1. PICK next, todo :
            /\ next = (IF pc = "requires" THEN "conflicts" ELSE "installedConflicts")
            /\ todo = (IF pc = "requires" THEN RelsOf(v, getConflicts(v))
                                          ELSE whatConflictAmongInstalled(v))
      OBVIOUS
    <3>2. todo \subseteq OwnedRel /\ Goto(next, todo)
          /\ next \in {"conflicts", "installedConflicts"}
      BY <2>1, <2>2, <2>9, <3>1, VisitTypes, ScopeTypes
    <3>3. PICK f : f = [top EXCEPT !.pc = next, !.todo = todo]
      OBVIOUS
    <3>4. f.pc = next /\ f.var = v /\ f.todo = todo /\ f.op = "install"
      BY <2>1, <2>2, <2>5, <3>3, VisitTypes DEF Frame
    <3>5. pc = "requires" => ConflictsDone(v, todo)'
      BY <2>3, <3>1 DEF ConflictsDone, getConflicts
    <3>6. WrittenUpTo(f)'
      BY <2>6, <2>7, <2>9, <3>1, <3>4, <3>5 DEF WrittenUpTo
    <3> QED
      BY <2>1, <2>2, <2>4, <2>5, <3>2, <3>3, <3>6, VisitGoesOn
  <2> QED
    BY <2>8, <2>9
<1> QED
  BY <1>1, <1>2

\* A dependent is done when it goes as well, when its clause is written, when
\* the user task meets its require, or when the germ of a package that meets
\* it lists v.
LEMMA DependentWrites ==
  ASSUME TypeOK, WritingInv, NEW o \in loop, Dependent(o)
  PROVE  WritingInv'
<1> USE DEF taskVars
<1>1. At("remove", "dependents") /\ UNCHANGED <<scope, userTaskInstall, userTaskRemove>>
  BY DEF Dependent
<1>2. PICK v \in Var : v = top.var
  BY <1>1, VisitTypes
<1>3. PICK todo : todo = top.todo
  OBVIOUS
<1>4. /\ v \in scope.installed /\ top.calls = <<>> /\ phase # "built"
      /\ DependentsDone(v, todo) /\ top.op = "remove" /\ top.pc = "dependents"
  BY <1>1, <1>2, <1>3, RunningCall DEF WrittenUpTo, At, Building
<1> DEFINE alternatives == selectMatchingVarsWithProvides(o.rel) \ ({v} \union userTaskRemove)
<1>5. CASE GiveUp(v, unremovable(v))
  BY <1>1, <1>2, <1>4, <1>5, GiveUpEnds
<1>6. ASSUME NextIteration(o), VisitOnly(v), Keeps(v), DependentDone(v, o)'
      PROVE  WritingInv'
  <2>1. PICK rest : rest = todo \ {o}
    OBVIOUS
  <2>2. rest \subseteq OwnedRel /\ Goto("dependents", rest)
    BY <1>1, <1>3, <1>4, <1>6, <2>1, VisitTypes DEF NextIteration
  <2>3. PICK f : f = [top EXCEPT !.pc = "dependents", !.todo = rest]
    OBVIOUS
  <2>4. f.pc = "dependents" /\ f.var = v /\ f.todo = rest /\ f.op = "remove"
    BY <1>1, <1>2, <1>4, <2>3, VisitTypes DEF Frame
  <2>5. DependentsDone(v, rest)'
    BY <1>4, <1>6, <2>1, OneIterationLess
  <2>6. WrittenUpTo(f)'
    BY <2>4, <2>5 DEF WrittenUpTo
  <2> QED
    BY <1>1, <1>2, <1>4, <1>6, <2>2, <2>3, <2>6, VisitGoesOn
<1>7. CASE /\ o.owner \in userTaskRemove \/ alternatives \intersect userTaskInstall # {}
           /\ NextIteration(o)
           /\ UNCHANGED <<pending, hasEntry, germ, sat, reconstruct>>
  <2>1. VisitOnly(v) /\ Keeps(v)
    BY <1>1, <1>7, VisitOnlyKeeps DEF VisitOnly, FullEntry
  <2>2. DependentDone(v, o)
    BY <1>7 DEF DependentDone
  <2>3. DependentDone(v, o)'
    BY <2>1, <2>2, DoneStays
  <2> QED
    BY <1>6, <1>7, <2>1, <2>3
<1>8. CASE /\ NextIteration(o)
           /\ RequireClause(v, alternatives, <<o.owner>>, onDependent(v, o.owner, alternatives))
  <2>1. PICK A \in SUBSET Var : A = alternatives
    BY <1>1, VisitTypes, ScopeTypes
  <2>2. /\ VisitOnly(v) /\ Keeps(v)
        /\ (\E g \in A \intersect scope.installed : GermOf(g, v)')
             \/ onDependent(v, o.owner, A) \in sat'[v]
    BY <1>1, <1>8, <2>1, RequireClauseDone
  <2>3. A = selectMatchingVarsWithProvides(o.rel)' \ ({v} \union userTaskRemove')
        /\ scope' = scope
    BY <1>1, <2>1, QueriesStay
  <2>4. DependentDone(v, o)'
    BY <2>2, <2>3 DEF DependentDone
  <2> QED
    BY <1>6, <1>8, <2>2, <2>4
<1> QED
  BY <1>2, <1>5, <1>7, <1>8 DEF Dependent

\* After its last iteration toBeRemoved() may call toBeInstalled().
LEMMA ReplaceWrites ==
  ASSUME TypeOK, WritingInv, Replace
  PROVE  WritingInv'
<1> USE DEF taskVars, tableVars
<1>1. /\ At("remove", "dependents") /\ top.todo = {}
      /\ UNCHANGED <<scope, userTaskInstall, userTaskRemove, hasEntry, germ, reconstruct, sat>>
  BY DEF Replace
<1>2. PICK v \in Var : v = top.var
  BY <1>1, VisitTypes
<1>3. VisitOnly(v) /\ Keeps(v)
  BY <1>1, VisitOnlyKeeps DEF VisitOnly, FullEntry
<1>4. v \in scope.installed /\ DependentsDone(v, {})
  BY <1>1, <1>2, RunningCall DEF WrittenUpTo
<1>5. Written(v)'
  BY <1>1, <1>3, <1>4, LoopsStay DEF Written
<1>6. \/ stack' = Tail(stack)
      \/ \E r \in Var : stack' = <<Call("install", r, v)>> \o Tail(stack)
  BY <1>2 DEF Replace, Return, selectTheNewest, VersionsOf
<1> QED
  BY <1>1, <1>2, <1>3, <1>5, <1>6, VisitEnds

-----------------------------------------------------------------------------
(***************************************************************************)
(* The steps that begin a visit                                            *)
(***************************************************************************)

\* The call CallFor() makes, among the calls of a stack.
LEMMA CallForWork ==
  ASSUME NEW v \in Var
  PROVE  /\ CallFor(v) \in WorkFrame /\ InWork(CallFor(v)) = {v}
         /\ CallFor(v).pc = "enter"
<1>1. /\ CallFor(v) \in Frame /\ CallFor(v).pc = "enter" /\ CallFor(v).var = v
      /\ CallFor(v).calls = <<>> /\ (CallFor(v).op = "remove" => v \in scope.installed)
  BY CallForType DEF CallFor, Call, isInstalled
<1>2. CallFor(v) \in WorkFrame
  BY <1>1 DEF WorkFrame
<1>3. InWork(CallFor(v)) = {v}
  BY <1>1 DEF InWork, ToSet
<1> QED
  BY <1>1, <1>2, <1>3

\* A visit begins from an empty stack, or the next package is skipped.
LEMMA VisitBegins ==
  ASSUME TypeOK, WritingInv, phase # "built", stack = <<>>,
         NEW v \in Var, stack' = <<>> \/ stack' = <<CallFor(v)>>,
         UNCHANGED <<scope, userTaskInstall, userTaskRemove, hasEntry, germ, sat, reconstruct>>
  PROVE  WritingInv'
<1>1. \A u : Keeps(u) /\ sat'[u] = sat[u]
  BY DEF Keeps, GermOf, FullEntry
<1>2. ToBeRewritten = {} /\ FullEntry' = FullEntry
  BY DEF ToBeRewritten, ToSet, FullEntry
<1>3. \A u \in FullEntry : Written(u)'
  BY <1>1, <1>2, WrittenStays DEF WritingInv
<1>4. WorkFrame' = WorkFrame /\ WaitingFrame' = WaitingFrame
  BY DEF WorkFrame, WaitingFrame
<1>5. CASE stack' = <<>>
  BY <1>2, <1>3, <1>4, <1>5, EmptySeq DEF WritingInv, ToSet
<1>6. CASE stack' = <<CallFor(v)>>
  <2>1. PICK f : f = CallFor(v)
    OBVIOUS
  <2>2. f \in WorkFrame /\ f.pc = "enter"
    BY <2>1, CallForWork
  <2>3. stack' \in Seq(WorkFrame) /\ Tail(stack') = <<>> /\ ToSet(stack') = {f}
    BY <1>6, <2>1, <2>2 DEF ToSet
  <2>4. \A g \in ToSet(stack') : WrittenUpTo(g)'
    BY <2>2, <2>3 DEF WrittenUpTo
  <2> QED
    BY <1>2, <1>3, <1>4, <2>3, <2>4, EmptySeq DEF WritingInv
<1> QED
  BY <1>5, <1>6

\* The list of a germ becomes that of the call: whoever relied on the germ is
\* rewritten before the call goes on.
LEMMA EnterWrites ==
  ASSUME TypeOK, WritingInv, Enter
  PROVE  WritingInv'
<1> USE DEF taskVars
<1>1. /\ stack # <<>> /\ phase # "built" /\ top.pc = "enter" /\ FailedAssert = ""
      /\ UNCHANGED <<scope, userTaskInstall, userTaskRemove, sat>>
  BY DEF Enter, Building
<1>2. top \in WorkFrame /\ top \in Frame /\ top.calls = <<>>
  BY <1>1, CallsInProgress DEF WorkFrame
<1>3. PICK v \in Var : v = top.var
  BY <1>2 DEF Frame
<1>4. PICK f : f = [top EXCEPT !.pc = "reconstruct", !.calls = reconstruct[v]]
  OBVIOUS
<1>5. /\ f \in Frame /\ f.pc = "reconstruct" /\ f.calls = reconstruct[v]
      /\ f.op = top.op /\ f.var = v
  BY <1>2, <1>3, <1>4 DEF Frame, TypeOK
<1>6. f \in WorkFrame
  BY <1>1, <1>2, <1>3, <1>5 DEF WorkFrame, FailedAssert, isInstalled
<1>7. /\ FullEntry' = FullEntry \union {v}
      /\ \A w \in Var \ {v} : reconstruct'[w] = reconstruct[w]
  BY <1>3 DEF Enter, FullEntry, TypeOK
<1>8. ASSUME NEW u \in FullEntry' \ (InWork(f) \union UNION {InWork(g) : g \in ToSet(Tail(stack))})
      PROVE  Written(u)'
  <2>1. u \notin ToSet(reconstruct[v]) /\ u # v
    BY <1>5 DEF InWork
  <2>2. InWork(top) = {v}
    BY <1>2, <1>3 DEF InWork, ToSet
  <2>3. u \in FullEntry /\ u \notin ToBeRewritten
    BY <1>1, <1>7, <2>1, <2>2, CallsInProgress
  <2>4. \A w : GermOf(w, u) => GermOf(w, u)'
    BY <1>7, <2>1 DEF GermOf
  <2>5. Keeps(u) /\ sat'[u] = sat[u]
    BY <1>1, <2>4 DEF Keeps
  <2>6. Written(u)
    BY <1>1, <2>3 DEF WritingInv
  <2> QED
    BY <2>5, <2>6, WrittenStays
<1>9. WrittenUpTo(f)'
  BY <1>5 DEF WrittenUpTo
<1>10. stack' = <<f>> \o Tail(stack)
  BY <1>3, <1>4 DEF Enter
<1> QED
  BY <1>1, <1>6, <1>8, <1>9, <1>10, TopReplaced

\* Rewriting moves a package from the list of the call to a call of its own.
LEMMA ReconstructWrites ==
  ASSUME TypeOK, WritingInv, Reconstruct
  PROVE  WritingInv'
<1> USE DEF taskVars, tableVars
<1>1. /\ stack # <<>> /\ phase # "built" /\ top.pc = "reconstruct" /\ top.calls # <<>>
      /\ UNCHANGED <<scope, userTaskInstall, userTaskRemove, hasEntry, germ, sat, reconstruct>>
  BY DEF Reconstruct, Building
<1>2. /\ top \in WorkFrame /\ top \in Frame
      /\ Tail(stack) \in Seq(WaitingFrame) /\ Tail(stack) \in Seq(WorkFrame)
  BY <1>1, CallsInProgress DEF WorkFrame
<1>3. PICK h \in Var : h = Head(top.calls)
  BY <1>1, <1>2, HeadTailProperties DEF Frame
<1>4. Tail(top.calls) \in Seq(Var) /\ ToSet(top.calls) = {h} \union ToSet(Tail(top.calls))
  BY <1>1, <1>2, <1>3, HeadTailProperties, ToSetOfTail DEF Frame
<1>5. CASE UNCHANGED stack
  BY <1>1, <1>5, NothingWritten
<1>6. CASE stack' = <<CallFor(h), [top EXCEPT !.calls = Tail(top.calls)]>> \o Tail(stack)
  <2>1. PICK f, g : f = CallFor(h) /\ g = [top EXCEPT !.calls = Tail(top.calls)]
    OBVIOUS
  <2>2. f \in WorkFrame /\ InWork(f) = {h} /\ f.pc = "enter"
    BY <2>1, CallForWork
  <2>3. /\ g \in WaitingFrame /\ g.pc = "reconstruct"
        /\ InWork(g) = {top.var} \union ToSet(Tail(top.calls))
    <3>1. /\ g \in Frame /\ g.pc = "reconstruct" /\ g.calls = Tail(top.calls)
          /\ g.op = top.op /\ g.var = top.var
      BY <1>1, <1>2, <1>4, <2>1 DEF Frame
    <3>2. g \in WaitingFrame
      BY <1>1, <1>2, <3>1 DEF WaitingFrame, WorkFrame
    <3> QED
      BY <3>1, <3>2 DEF InWork
  <2>4. PICK rest : rest = <<g>> \o Tail(stack)
    OBVIOUS
  <2>5. rest \in Seq(WaitingFrame) /\ ToSet(rest) = {g} \union ToSet(Tail(stack))
    <3>1. rest \in Seq(WaitingFrame)
      BY <1>2, <2>3, <2>4, ReplaceTop
    <3>2. g \in WaitingFrame /\ Tail(stack) \in Seq(WaitingFrame)
      BY <1>2, <2>3
    <3>3. ToSet(<<g>> \o Tail(stack)) = {g} \union ToSet(Tail(stack))
      BY <3>2, CallsWithNewTop, Zenon
    <3> QED
      BY <2>4, <3>1, <3>3
  <2>6. rest \in Seq(WorkFrame)
    BY <2>5, SeqMonotonic DEF WaitingFrame
  <2>7. stack' = <<f>> \o rest
    <3>1. <<f>> \in Seq(WorkFrame) /\ <<g>> \in Seq(WorkFrame)
      BY <2>2, <2>3 DEF WaitingFrame
    <3>2. <<f, g>> = <<f>> \o <<g>>
      <4> DEFINE s == <<f>>
                 t == <<g>>
      <4>1. /\ s \in Seq(WorkFrame) /\ t \in Seq(WorkFrame)
            /\ Len(s) = 1 /\ Len(t) = 1 /\ s[1] = f /\ t[1] = g
        BY <3>1
      <4> HIDE DEF s, t
      <4>2. /\ s \o t \in Seq(WorkFrame) /\ Len(s \o t) = 2
            /\ (s \o t)[1] = f /\ (s \o t)[2] = g
        BY <4>1, ConcatProperties
      <4>3. <<f, g>> \in Seq(WorkFrame)
        BY <2>2, <2>3 DEF WaitingFrame
      <4>4. \A q \in Seq(WorkFrame) : Len(q) = 2 /\ q[1] = f /\ q[2] = g => q = s \o t
        BY <4>2, SeqEqual
      <4>5. Len(<<f, g>>) = 2 /\ <<f, g>>[1] = f /\ <<f, g>>[2] = g
        OBVIOUS
      <4> QED
        BY <4>3, <4>4, <4>5 DEF s, t
    <3>3. (<<f>> \o <<g>>) \o Tail(stack) = <<f>> \o (<<g>> \o Tail(stack))
      BY <1>2, <3>1, ConcatAssociative
    <3> QED
      BY <1>6, <2>1, <2>4, <3>2, <3>3
  <2>8. /\ stack' \in Seq(WorkFrame) /\ Tail(stack') = rest
        /\ ToSet(stack') = {f, g} \union ToSet(Tail(stack))
    BY <2>2, <2>5, <2>6, <2>7, ReplaceTop, CallsWithNewTop
  <2>9. ToBeRewritten' = ToBeRewritten
    <3>1. ToBeRewritten' = InWork(f) \union InWork(g)
                             \union UNION {InWork(k) : k \in ToSet(Tail(stack))}
      BY <2>8 DEF ToBeRewritten
    <3>2. InWork(top) = InWork(f) \union InWork(g)
      BY <1>4, <2>2, <2>3 DEF InWork
    <3> QED
      BY <1>1, <3>1, <3>2, CallsInProgress
  <2>10. \A u : Keeps(u) /\ sat'[u] = sat[u]
    BY <1>1 DEF Keeps, GermOf, FullEntry
  <2>11. \A u \in FullEntry' \ ToBeRewritten' : Written(u)'
    BY <1>1, <2>9, <2>10, WrittenStays DEF WritingInv, FullEntry
  <2>12. \A k \in ToSet(stack') : WrittenUpTo(k)'
    BY <1>1, <2>2, <2>3, <2>8, CallsInProgress DEF WrittenUpTo
  <2>13. WorkFrame' = WorkFrame /\ WaitingFrame' = WaitingFrame
    BY <1>1 DEF WorkFrame, WaitingFrame
  <2> QED
    BY <2>5, <2>8, <2>11, <2>12, <2>13 DEF WritingInv
<1> QED
  BY <1>3, <1>5, <1>6 DEF Reconstruct

LEMMA NextKeepsWriting ==
  ASSUME TypeOK, EquationInv, UserTaskInv, WritingInv, Next
  PROVE  WritingInv'
<1> USE DEF taskVars, tableVars
<1>1. CASE OnUserTask
  <2>1. FullEntry = {} /\ FullEntry' = {}
    BY <1>1 DEF OnUserTask, UserTaskInv, FullEntry
  <2>2. \A f \in ToSet(stack) : WrittenUpTo(f)'
    <3>1. \A f \in ToSet(stack) : f \in VisitFrame
      BY DEF EquationInv, ToSet
    <3> QED
      BY <2>1, <3>1 DEF VisitFrame, WrittenUpTo
  <2>3. WorkFrame' = WorkFrame /\ WaitingFrame' = WaitingFrame /\ stack' = stack
    BY <1>1 DEF OnUserTask, WorkFrame, WaitingFrame
  <2> QED
    BY <2>1, <2>2, <2>3 DEF WritingInv
<1>2. ASSUME NEW ph \in {"install", "remove"}, NEW op, NextOfUserTask(ph, op)
      PROVE  WritingInv'
  <2>1. PICK v \in Var : stack' \in {<<>>, <<CallFor(v)>>}
    BY <1>2 DEF NextOfUserTask, TypeOK
  <2> QED
    BY <1>2, <2>1, VisitBegins DEF NextOfUserTask
<1>3. ASSUME NEW ph \in {"install", "remove"}, NEW next, NEW rest, EndOfUserTask(ph, next, rest)
      PROVE  WritingInv'
  BY <1>3, NothingWritten DEF EndOfUserTask
<1>4. CASE OnPending
  <2>1. pending[Len(pending)] \in Var
    BY <1>4 DEF OnPending, TypeOK
  <2>2. PICK v \in Var : stack' \in {<<>>, <<CallFor(v)>>}
    BY <1>4, <2>1 DEF OnPending
  <2> QED
    BY <1>4, <2>2, VisitBegins DEF OnPending
<1>5. CASE FinishBuild
  <2>1. ToBeVisited = FullEntry
    BY <1>5 DEF FinishBuild, ToBeVisited, ToSet
  <2>2. ensureSatCorrect
    BY <2>1 DEF ensureSatCorrect, EquationInv, LiteralsIn, TypeOK
  <2>3. phase' = "built" /\ stack' = <<>>
    BY <1>5, <2>2 DEF FinishBuild
  <2> QED
    BY <2>3, EmptySeq DEF WritingInv
<1>6. CASE AssertFails
  BY <1>6, NothingWritten DEF AssertFails, Building
<1>7. ASSUME NEW o \in loop, Require(o) \/ Conflict(o) \/ InstalledConflict(o) \/ Dependent(o)
      PROVE  WritingInv'
  BY <1>7, RequireWrites, ConflictWrites, InstalledConflictWrites, DependentWrites
<1>8. CASE toBeInstalled
  BY <1>7, <1>8, BetweenLoopsWrites, BlockOtherVersionsWrites DEF toBeInstalled
<1>9. CASE toBeRemoved
  BY <1>7, <1>9, BetweenLoopsWrites, ReplaceWrites DEF toBeRemoved
<1> QED
  BY <1>1, <1>2, <1>3, <1>4, <1>5, <1>6, <1>8, <1>9, EnterWrites, ReconstructWrites DEF Next

\* The invariant is kept along any steps of build().
LEMMA WritingAlways == BuildSteps => []WritingInv
<1>1. Init => WritingInv
  <2> SUFFICES ASSUME Init PROVE WritingInv
    OBVIOUS
  <2>1. stack = <<>> /\ FullEntry = {}
    BY DEF Init, FullEntry
  <2>2. ToSet(stack) = {} /\ stack \in Seq(WorkFrame)
    BY <2>1, EmptySeq DEF ToSet
  <2> QED
    BY <2>1, <2>2 DEF WritingInv
<1>2. TypeOK /\ EquationInv /\ UserTaskInv /\ WritingInv /\ [Next]_vars => WritingInv'
  <2> SUFFICES ASSUME TypeOK, EquationInv, UserTaskInv, WritingInv, [Next]_vars
               PROVE  WritingInv'
    OBVIOUS
  <2>1. CASE Next
    BY <2>1, NextKeepsWriting
  <2>2. CASE UNCHANGED vars
    <3>1. CASE phase = "built"
      BY <2>2, <3>1 DEF vars, taskVars, tableVars, WritingInv, WorkFrame, WaitingFrame
    <3>2. CASE phase # "built"
      BY <2>2, <3>2, NothingWritten DEF vars, taskVars, tableVars
    <3> QED
      BY <3>1, <3>2
  <2> QED
    BY <2>1, <2>2
<1> QED
  BY <1>1, <1>2, TypesAlways, EquationAlways, UserTaskAlways, PTL DEF BuildSteps

\* In every reachable state before build() ends, a package with a full entry
\* has its clauses, up to germs, or is about to be rewritten.
THEOREM EquationIsComplete == Spec => []WritingInv
BY WritingAlways, PTL DEF Spec, BuildSteps

-----------------------------------------------------------------------------
(***************************************************************************)
(* The end of build()                                                      *)
(***************************************************************************)

\* The second loop visits every installed package the task keeps out.
TaskRemovalInv ==
  /\ phase = "remove" =>
       userTaskRemove \intersect scope.installed \subseteq FullEntry \union userLoop \union BeingEntered
  /\ phase = "pending" => userTaskRemove \intersect scope.installed \subseteq FullEntry

LEMMA NextKeepsTaskRemoval ==
  ASSUME TypeOK, TaskRemovalInv, Next
  PROVE  TaskRemovalInv'
<1> USE DEF taskVars, tableVars
<1>1. CASE OnUserTask
  BY <1>1 DEF OnUserTask, Stop, TaskRemovalInv
<1>2. CASE NextOfUserTask("install", "install")
  BY <1>2 DEF NextOfUserTask, TaskRemovalInv
<1>3. CASE NextOfUserTask("remove", "remove")
  <2>1. PICK v \in userLoop :
          /\ userLoop' = userLoop \ {v}
          /\ stack' = IF CallFor(v).op = "remove" THEN <<CallFor(v)>> ELSE stack
    BY <1>3 DEF NextOfUserTask
  <2>2. /\ UNCHANGED <<scope, userTaskRemove, hasEntry, germ, phase>>
        /\ phase = "remove" /\ stack = <<>> /\ v \in Var
    BY <1>3 DEF NextOfUserTask, TypeOK
  <2>3. FullEntry' = FullEntry /\ BeingEntered = {}
    BY <2>2 DEF FullEntry, BeingEntered
  <2>4. v \in scope.installed => v \in BeingEntered'
    <3> SUFFICES ASSUME v \in scope.installed PROVE v \in BeingEntered'
      OBVIOUS
    <3>1. CallFor(v).op = "remove"
      BY DEF CallFor, Call, isInstalled
    <3>2. stack' = <<CallFor(v)>>
      BY <2>1, <3>1
    <3>3. stack' # <<>> /\ top' = CallFor(v)
      BY <3>2 DEF top
    <3> QED
      BY <2>2, <3>3, CallForType DEF BeingEntered
  <2> QED
    BY <2>1, <2>2, <2>3, <2>4 DEF TaskRemovalInv
<1>4. CASE EndOfUserTask("install", "remove", userTaskRemove)
  BY <1>4 DEF EndOfUserTask, TaskRemovalInv
<1>5. CASE EndOfUserTask("remove", "pending", {})
  <2>1. BeingEntered = {} /\ FullEntry' = FullEntry
    BY <1>5 DEF EndOfUserTask, BeingEntered, FullEntry
  <2> QED
    BY <1>5, <2>1 DEF EndOfUserTask, TaskRemovalInv
<1>6. CASE OnPending
  BY <1>6 DEF OnPending, TaskRemovalInv, FullEntry
<1>7. CASE FinishBuild \/ AssertFails
  BY <1>7 DEF FinishBuild, AssertFails, FailedAssert, Stop, TaskRemovalInv
<1>8. CASE Enter
  <2>1. FullEntry' = FullEntry \union {top.var} /\ BeingEntered \subseteq {top.var}
    BY <1>8 DEF Enter, FullEntry, BeingEntered
  <2> QED
    BY <1>8, <2>1 DEF Enter, TaskRemovalInv
<1>9. CASE Reconstruct
  <2>1. FullEntry' = FullEntry /\ BeingEntered = {} /\ phase' \in {phase, "abort"}
    BY <1>9 DEF Reconstruct, FullEntry, BeingEntered, Stop
  <2> QED
    BY <1>9, <2>1 DEF Reconstruct, TaskRemovalInv
<1>10. CASE toBeInstalled \/ toBeRemoved
  <2>1. /\ FullEntry' = FullEntry /\ BeingEntered = {}
        /\ UNCHANGED <<scope, userTaskRemove, userLoop>> /\ phase' \in {phase, "thrown"}
    BY <1>10, VisitMakesGoodGerms DEF GoodGerms
  <2> QED
    BY <2>1 DEF TaskRemovalInv
<1> QED
  BY <1>1, <1>2, <1>3, <1>4, <1>5, <1>6, <1>7, <1>8, <1>9, <1>10 DEF Next

\* What every system the equation allows has.
Surely == userTaskInstall \union (scope.installed \ hasEntry)

\* The clauses of the finished equation: the germs are gone from the table.
KeptOutForGood(v, w) ==
  \/ w \in userTaskRemove
  \/ w \notin scope.installed \union hasEntry
  \/ onConflict(v, w) \in sat[v]

InstallBuilt(v) ==
  /\ \A w \in VersionsOf(v) \ {v} : KeptOutForGood(v, w)
  /\ \A r \in scope.conflicts[v] :
       \A w \in selectMatchingVarsWithProvides(r) \ {v} : KeptOutForGood(v, w)
  /\ \A r \in scope.requires[v] :
       \/ selectMatchingVarsWithProvides(r) \intersect Surely # {}
       \/ \E A \in SUBSET selectMatchingVarsWithProvides(r) : onRequire(v, A) \in sat[v]

RemoveBuilt(v) ==
  \A o \in whatDependAmongInstalled(v) :
    \/ o.owner \in userTaskRemove
    \/ selectMatchingVarsWithProvides(o.rel) \intersect Surely # {}
    \/ \E A \in SUBSET selectMatchingVarsWithProvides(o.rel) :
         onDependent(v, o.owner, A) \in sat[v]

BuiltInv ==
  phase = "built" =>
    /\ germ = {}
    /\ LiteralsIn(hasEntry)
    /\ \A v \in hasEntry :
         IF v \in scope.installed THEN sat[v] = {unremovable(v)} \/ RemoveBuilt(v)
                                  ELSE sat[v] = {uninstallable(v)} \/ InstallBuilt(v)

LEMMA FinishBuildCompletes ==
  ASSUME TypeOK, EquationInv, UserTaskInv, WritingInv, TaskRemovalInv, FinishBuild
  PROVE  BuiltInv'
<1>1. /\ phase = "pending" /\ stack = <<>> /\ pending = <<>>
      /\ UNCHANGED <<scope, sat>>
      /\ userTaskInstall' = userTaskInstall \intersect hasEntry
      /\ userTaskRemove' = userTaskRemove \intersect hasEntry
  BY DEF FinishBuild
<1>2. ToBeVisited = FullEntry /\ ToBeRewritten = {}
  BY <1>1 DEF ToBeVisited, ToBeRewritten, ToSet
<1>3. hasEntry' = FullEntry /\ germ' = {}
  <2>1. ensureSatCorrect
    BY <1>2 DEF ensureSatCorrect, EquationInv, LiteralsIn, TypeOK
  <2> QED
    BY <2>1 DEF FinishBuild
<1>4. /\ userTaskRemove \intersect scope.installed \subseteq FullEntry
      /\ FullEntry \intersect userTaskRemove \subseteq scope.installed
      /\ userTaskInstall \ scope.installed \subseteq FullEntry
      /\ hasEntry \intersect userTaskInstall \intersect scope.installed = {}
      /\ FullEntry \subseteq hasEntry
  BY <1>1 DEF TaskRemovalInv, UserTaskInv, FullEntry
<1>5. /\ \A r : selectMatchingVarsWithProvides(r)' = selectMatchingVarsWithProvides(r)
      /\ \A v : VersionsOf(v)' = VersionsOf(v)
      /\ \A v : whatDependAmongInstalled(v)' = whatDependAmongInstalled(v)
  BY <1>1, QueriesStay
<1>6. LiteralsIn(hasEntry)'
  BY <1>1, <1>2, <1>3 DEF EquationInv, LiteralsIn
<1>7. \A v, w : KeptOut(v, w) => KeptOutForGood(v, w)'
  BY <1>1, <1>3, <1>4 DEF KeptOut, KeptOutForGood, GermOf
<1>8. /\ \A a \in userTaskInstall : a \in Surely'
      /\ \A g \in scope.installed : \A v : GermOf(g, v) => g \in Surely'
  BY <1>1, <1>3, <1>4 DEF Surely, GermOf, TypeOK
<1>9. ASSUME NEW v, NEW r, RequireDone(v, r)
      PROVE  \/ selectMatchingVarsWithProvides(r)' \intersect Surely' # {}
             \/ \E A \in SUBSET selectMatchingVarsWithProvides(r)' : onRequire(v, A) \in sat'[v]
  BY <1>1, <1>5, <1>8, <1>9 DEF RequireDone
<1>10. ASSUME NEW v, NEW o, o.owner \in scope.installed, DependentDone(v, o)
       PROVE  \/ o.owner \in userTaskRemove'
              \/ selectMatchingVarsWithProvides(o.rel)' \intersect Surely' # {}
              \/ \E A \in SUBSET selectMatchingVarsWithProvides(o.rel)' :
                   onDependent(v, o.owner, A) \in sat'[v]
  BY <1>1, <1>4, <1>5, <1>8, <1>10 DEF DependentDone
<1>11. ASSUME NEW v \in FullEntry, v \notin scope.installed, InstallDone(v)
       PROVE  InstallBuilt(v)'
  <2>1. \A w \in VersionsOf(v)' \ {v} : KeptOutForGood(v, w)'
    BY <1>5, <1>7, <1>11 DEF InstallDone, OthersDone
  <2>2. ASSUME NEW r \in scope.conflicts[v],
               NEW w \in selectMatchingVarsWithProvides(r)' \ {v}
        PROVE  KeptOutForGood(v, w)'
    <3>1. PICK o : o = [owner |-> v, rel |-> r]
      OBVIOUS
    <3>2. o \in RelsOf(v, scope.conflicts[v]) /\ o.rel = r
      BY <3>1 DEF RelsOf
    <3>3. ConflictDone(v, r)
      BY <1>11, <3>2 DEF InstallDone, ConflictsDone
    <3> QED
      BY <1>5, <1>7, <3>3 DEF ConflictDone
  <2>3. ASSUME NEW r \in scope.requires[v]
        PROVE  RequireDone(v, r)
    <3>1. PICK o : o = [owner |-> v, rel |-> r]
      OBVIOUS
    <3>2. o \in RelsOf(v, scope.requires[v]) /\ o.rel = r
      BY <3>1 DEF RelsOf
    <3> QED
      BY <1>11, <3>2 DEF InstallDone, RequiresDone
  <2> QED
    BY <1>1, <1>9, <2>1, <2>2, <2>3 DEF InstallBuilt
<1>12. ASSUME NEW v \in FullEntry, DependentsDone(v, {})
       PROVE  RemoveBuilt(v)'
  <2>1. \A o \in whatDependAmongInstalled(v) : o.owner \in scope.installed /\ DependentDone(v, o)
    BY <1>12 DEF DependentsDone, whatDependAmongInstalled, RelsOf
  <2> QED
    BY <1>5, <1>10, <2>1 DEF RemoveBuilt
<1>13. \A v \in FullEntry : Written(v)
  BY <1>1, <1>2 DEF WritingInv
<1> QED
  BY <1>1, <1>3, <1>6, <1>11, <1>12, <1>13 DEF BuiltInv, Written

\* The finished equation never changes.
LEMMA BuiltAlways == BuildSteps => [](BuiltInv /\ TaskRemovalInv)
<1>1. Init => BuiltInv /\ TaskRemovalInv
  BY DEF Init, BuiltInv, TaskRemovalInv
<1>2. /\ TypeOK /\ EquationInv /\ UserTaskInv /\ WritingInv
      /\ BuiltInv /\ TaskRemovalInv /\ [Next]_vars
      => (BuiltInv /\ TaskRemovalInv)'
  <2> SUFFICES ASSUME TypeOK, EquationInv, UserTaskInv, WritingInv, BuiltInv, TaskRemovalInv,
                      [Next]_vars
               PROVE  BuiltInv' /\ TaskRemovalInv'
    OBVIOUS
  <2>1. CASE Next
    <3>1. FinishBuild \/ phase' # "built"
      <4>1. toBeInstalled \/ toBeRemoved => phase' # "built"
        BY VisitMakesGoodGerms DEF Building
      <4> QED
        BY <2>1, <4>1 DEF Next, OnUserTask, NextOfUserTask, EndOfUserTask, OnPending, AssertFails,
                          Enter, Reconstruct, Stop, Building
    <3> QED
      BY <2>1, <3>1, FinishBuildCompletes, NextKeepsTaskRemoval DEF BuiltInv
  <2>2. CASE UNCHANGED vars
    <3>1. TaskRemovalInv'
      BY <2>2 DEF vars, taskVars, tableVars, TaskRemovalInv, FullEntry, BeingEntered, top
    <3>2. BuiltInv'
      <4>1. /\ \A r : selectMatchingVarsWithProvides(r)' = selectMatchingVarsWithProvides(r)
            /\ \A v : VersionsOf(v)' = VersionsOf(v)
            /\ \A v : whatDependAmongInstalled(v)' = whatDependAmongInstalled(v)
        BY <2>2, QueriesStay DEF vars, taskVars
      <4>2. Surely' = Surely /\ \A v, w : KeptOutForGood(v, w)' = KeptOutForGood(v, w)
        BY <2>2 DEF vars, taskVars, tableVars, Surely, KeptOutForGood
      <4>3. \A v : InstallBuilt(v)' = InstallBuilt(v) /\ RemoveBuilt(v)' = RemoveBuilt(v)
        BY <2>2, <4>1, <4>2 DEF vars, taskVars, tableVars, InstallBuilt, RemoveBuilt
      <4> QED
        BY <2>2, <4>3 DEF vars, taskVars, tableVars, BuiltInv, LiteralsIn
    <3> QED
      BY <3>1, <3>2
  <2> QED
    BY <2>1, <2>2
<1> QED
  BY <1>1, <1>2, TypesAlways, EquationAlways, UserTaskAlways, WritingAlways, PTL DEF BuildSteps

\* In every reachable state from the end of build() on, a package with an
\* entry has all the clauses it needs.
THEOREM EquationIsBuilt == Spec => [](BuiltInv /\ TaskRemovalInv)
BY BuiltAlways, PTL DEF Spec, BuildSteps

-----------------------------------------------------------------------------
(***************************************************************************)
(* What the equation allows                                                *)
(***************************************************************************)

\* The queries of the scope and OsIntegrity agree about what meets a relation.
LEMMA MatchesAgree ==
  \A r : selectMatchingVarsWithProvides(r) = {v \in Var : matches(r, v)}
BY DEF selectMatchingVarsWithProvides, MatchesByName, MatchesByProvide, matches

\* What a system the equation allows has and what it has not.
LEMMA SystemsAllowed ==
  ASSUME TypeOK, BuiltInv, UserTaskHasEntries, phase = "built", NEW S \in Models
  PROVE  /\ SystemAfter(S) \subseteq Var
         /\ Surely \subseteq SystemAfter(S)
         /\ userTaskRemove \intersect SystemAfter(S) = {}
         /\ SystemAfter(S) \subseteq scope.installed \union hasEntry
         /\ \A v \in hasEntry : v \in SystemAfter(S) <=> v \in S
         /\ SystemAfter(S) \ scope.installed \subseteq S
         /\ S \subseteq hasEntry
         /\ \A v \in hasEntry : \A c \in sat[v] : Satisfies(S, c)
BY DEF Models, SystemAfter, Surely, UserTaskHasEntries, TypeOK, PkgScopeType

\* A clause is met when what it says of the package itself is false.
LEMMA ClausesSay ==
  ASSUME NEW S, NEW v, NEW w, NEW A
  PROVE  /\ Satisfies(S, uninstallable(v)) => v \notin S
         /\ Satisfies(S, unremovable(v)) => v \in S
         /\ Satisfies(S, onConflict(v, w)) => v \notin S \/ w \notin S
         /\ Satisfies(S, onRequire(v, A)) => v \notin S \/ A \intersect S # {}
         /\ Satisfies(S, onDependent(v, w, A)) => v \in S \/ w \notin S \/ A \intersect S # {}
<1> DEFINE Holds(l) == (l.var \in S) # l.neg
<1>1. /\ \A u : Pos(u).var = u /\ Pos(u).neg = FALSE
      /\ \A u : Neg(u).var = u /\ Neg(u).neg = TRUE
  BY DEF Pos, Neg
<1>2. ASSUME NEW u
      PROVE  (Holds(Pos(u)) <=> u \in S) /\ (Holds(Neg(u)) <=> u \notin S)
  <2>1. Holds(Pos(u)) <=> ((u \in S) # FALSE)
    BY <1>1
  <2>2. Holds(Neg(u)) <=> ((u \in S) # TRUE)
    BY <1>1
  <2>3. ((u \in S) # FALSE) <=> u \in S
    <3>1. (u \in S) \in BOOLEAN
      OBVIOUS
    <3>2. \A b \in BOOLEAN : b # FALSE <=> b = TRUE
      OBVIOUS
    <3> QED
      BY <3>1, <3>2
  <2>4. ((u \in S) # TRUE) <=> u \notin S
    OBVIOUS
  <2> HIDE DEF Holds
  <2> QED
    BY <2>1, <2>2, <2>3, <2>4
<1>3. \A c : Satisfies(S, c) <=> \E l \in c : Holds(l)
  BY DEF Satisfies
<1> HIDE DEF Holds
<1>4. (\E l \in {Pos(a) : a \in A} : Holds(l)) => A \intersect S # {}
  BY <1>2
<1> QED
  BY <1>2, <1>3, <1>4
     DEF uninstallable, unremovable, onConflict, onRequire, onDependent

LEMMA BuiltMeetsRequires ==
  ASSUME TypeOK, BuiltInv, UserTaskHasEntries
  PROVE  ModelsMeetRequires
<1> SUFFICES ASSUME phase = "built", RequiresMet(scope.installed), NEW S \in Models,
                    NEW x \in SystemAfter(S), NEW r \in scope.requires[x]
             PROVE  checkRequire(r, SystemAfter(S))
  BY DEF ModelsMeetRequires, RequiresMet
<1> DEFINE N == SystemAfter(S)
           meeting == selectMatchingVarsWithProvides(r)
<1>1. /\ N \subseteq Var /\ Surely \subseteq N /\ userTaskRemove \intersect N = {}
      /\ \A v \in hasEntry : v \in N <=> v \in S
      /\ N \ scope.installed \subseteq S /\ S \subseteq hasEntry
      /\ \A v \in hasEntry : \A c \in sat[v] : Satisfies(S, c)
      /\ x \in N
  BY SystemsAllowed
<1>2. \A a \in meeting : matches(r, a)
  BY MatchesAgree
<1>3. SUFFICES meeting \intersect N # {}
  BY <1>2 DEF checkRequire
<1>4. scope \in PkgScopeType /\ scope.installed \subseteq Var
  BY DEF TypeOK, PkgScopeType
<1> HIDE DEF N, meeting
<1>5. CASE x \notin scope.installed
  <2>1. x \in S /\ x \in hasEntry
    BY <1>1, <1>5
  <2>2. sat[x] = {uninstallable(x)} \/ InstallBuilt(x)
    BY <1>5, <2>1 DEF BuiltInv
  <2>3. sat[x] # {uninstallable(x)}
    BY <1>1, <2>1, ClausesSay
  <2>4. \/ meeting \intersect Surely # {}
        \/ \E A \in SUBSET meeting : onRequire(x, A) \in sat[x]
    BY <2>2, <2>3 DEF InstallBuilt, meeting
  <2>5. ASSUME NEW A \in SUBSET meeting, onRequire(x, A) \in sat[x]
        PROVE  meeting \intersect N # {}
    <3>1. A \intersect S # {}
      BY <1>1, <2>1, <2>5, ClausesSay
    <3> QED
      BY <1>1, <3>1
  <2> QED
    BY <1>1, <2>4, <2>5
<1>6. CASE x \in scope.installed
  <2>1. PICK w \in scope.installed : matches(r, w)
    BY <1>6 DEF RequiresMet, checkRequire
  <2>2. w \in meeting
    BY <1>4, <2>1, MatchesAgree DEF meeting
  <2>3. CASE w \in N
    BY <2>2, <2>3
  <2>4. CASE w \notin N
    <3>1. w \in hasEntry /\ w \notin S /\ w \in Var
      BY <1>1, <1>4, <2>1, <2>4 DEF Surely
    <3>2. sat[w] = {unremovable(w)} \/ RemoveBuilt(w)
      BY <2>1, <3>1 DEF BuiltInv
    <3>3. sat[w] # {unremovable(w)}
      BY <1>1, <3>1, ClausesSay
    <3>4. PICK o : o = [owner |-> x, rel |-> r]
      OBVIOUS
    <3>5. o \in whatDependAmongInstalled(w) /\ o.owner = x /\ o.rel = r
      <4>1. o \in RelsOf(x, scope.requires[x]) /\ o.owner = x /\ o.rel = r
        BY <3>4 DEF RelsOf
      <4> QED
        BY <1>6, <2>2, <4>1 DEF whatDependAmongInstalled, meeting
    <3>6. \/ x \in userTaskRemove
          \/ meeting \intersect Surely # {}
          \/ \E A \in SUBSET meeting : onDependent(w, x, A) \in sat[w]
      BY <3>2, <3>3, <3>5 DEF RemoveBuilt, meeting
    <3>7. ASSUME NEW A \in SUBSET meeting, onDependent(w, x, A) \in sat[w]
          PROVE  meeting \intersect N # {}
      <4>1. x \in hasEntry
        <5>1. Neg(x) \in onDependent(w, x, A) /\ Neg(x).var = x
          BY DEF onDependent, Neg
        <5> QED
          BY <3>1, <3>7, <5>1 DEF BuiltInv, LiteralsIn
      <4>2. x \in S
        BY <1>1, <4>1
      <4>3. A \intersect S # {}
        BY <1>1, <3>1, <3>7, <4>2, ClausesSay
      <4> QED
        BY <1>1, <4>3
    <3> QED
      BY <1>1, <3>6, <3>7
  <2> QED
    BY <2>3, <2>4
<1> QED
  BY <1>5, <1>6

LEMMA BuiltMeetsNewConflicts ==
  ASSUME TypeOK, BuiltInv, UserTaskHasEntries
  PROVE  ModelsMeetNewConflicts
<1> SUFFICES ASSUME phase = "built", NEW S \in Models,
                    NEW v \in SystemAfter(S) \ scope.installed
             PROVE  /\ \A r \in scope.conflicts[v] : checkConflict(v, r, SystemAfter(S))
                    /\ VersionsOf(v) \intersect SystemAfter(S) = {v}
  BY DEF ModelsMeetNewConflicts, ConflictsMet
<1> DEFINE N == SystemAfter(S)
<1>1. /\ N \subseteq Var /\ userTaskRemove \intersect N = {}
      /\ N \subseteq scope.installed \union hasEntry
      /\ \A u \in hasEntry : u \in N <=> u \in S
      /\ N \ scope.installed \subseteq S /\ S \subseteq hasEntry
      /\ \A u \in hasEntry : \A c \in sat[u] : Satisfies(S, c)
      /\ v \in N
  BY SystemsAllowed
<1> HIDE DEF N
<1>2. v \in S /\ v \in hasEntry /\ v \notin scope.installed
  BY <1>1
<1>3. InstallBuilt(v)
  <2>1. sat[v] = {uninstallable(v)} \/ InstallBuilt(v)
    BY <1>2 DEF BuiltInv
  <2>2. sat[v] # {uninstallable(v)}
    BY <1>1, <1>2, ClausesSay
  <2> QED
    BY <2>1, <2>2
<1>4. ASSUME NEW w, KeptOutForGood(v, w)
      PROVE  w \notin N
  <2>1. CASE onConflict(v, w) \in sat[v]
    <3>1. w \notin S
      BY <1>1, <1>2, <2>1, ClausesSay
    <3>2. Neg(w) \in onConflict(v, w) /\ Neg(w).var = w
      BY DEF onConflict, Neg
    <3>3. w \in hasEntry
      BY <1>2, <2>1, <3>2 DEF BuiltInv, LiteralsIn, TypeOK
    <3> QED
      BY <1>1, <3>1, <3>3
  <2> QED
    BY <1>1, <1>4, <2>1 DEF KeptOutForGood
<1>5. ASSUME NEW r \in scope.conflicts[v]
      PROVE  checkConflict(v, r, N)
  <2>1. \A w \in selectMatchingVarsWithProvides(r) \ {v} : w \notin N
    BY <1>3, <1>4, <1>5 DEF InstallBuilt
  <2> QED
    BY <1>1, <2>1, MatchesAgree DEF checkConflict
<1>6. VersionsOf(v) \intersect N = {v}
  <2>1. \A w \in VersionsOf(v) \ {v} : w \notin N
    BY <1>3, <1>4 DEF InstallBuilt
  <2>2. v \in VersionsOf(v)
    BY <1>1 DEF VersionsOf
  <2> QED
    BY <1>1, <2>1, <2>2
<1> QED
  BY <1>5, <1>6 DEF N

\* The reason why germs and skipped clauses are allowed, for every scope and
\* every task: from a system with no broken require the finished equation
\* allows none with one.
THEOREM RequiresAreMet == Spec => []ModelsMeetRequires
<1>1. TypeOK /\ BuiltInv /\ UserTaskHasEntries => ModelsMeetRequires
  BY BuiltMeetsRequires
<1> QED
  BY <1>1, TypeCorrect, EquationIsBuilt, UserTaskIsKept, PTL

\* No system the finished equation allows has a new package together with one
\* it conflicts with or with another version of it.
THEOREM NewConflictsAreMet == Spec => []ModelsMeetNewConflicts
<1>1. TypeOK /\ BuiltInv /\ UserTaskHasEntries => ModelsMeetNewConflicts
  BY BuiltMeetsNewConflicts
<1> QED
  BY <1>1, TypeCorrect, EquationIsBuilt, UserTaskIsKept, PTL

=============================================================================
