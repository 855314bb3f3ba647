------------------------------ MODULE PkgScope ------------------------------
(***************************************************************************)
(* The package scope: the read-only view of the packages, installed and    *)
(* available, that the task solver queries (PkgScope, PkgScopeBase and     *)
(* PkgScopeMetadata in src/lib/deepsolver).                                *)
(*                                                                         *)
(* A scope is a record.  A VarId is an element of Var: one package of one  *)
(* version.  Versions are numbers, a relation is a record                  *)
(* [pkg, dir, ver] whose dir is the set of bits of VerDirection, empty     *)
(* when the relation puts no restriction on the version.  The order in     *)
(* which a query lists its answers depends on std::sort of equal keys      *)
(* (RevMapItem compares the name only), so a query returns a set.          *)
(***************************************************************************)
EXTENDS Naturals, FiniteSets

CONSTANTS
  Var,      \* the VarIds: one element for every version of every package
  Name,     \* the PkgIds: names of packages and of what they provide
  Version   \* the versions, epoch and release included, in their order

VARIABLE
  scope     \* the scope being queried; never changes

-----------------------------------------------------------------------------
Direction == {"less", "equals", "greater"}

PkgRel == [pkg : Name, dir : SUBSET Direction, ver : Version]

\* A package provides exact versions only: PkgScope::whatDependAmongInstalled
\* and selectTheNewestByProvide assert it of every provide with a version.
PkgProvide == {r \in PkgRel : r.dir \in {{}, {"equals"}}}

PkgScopeType ==
  [ name : [Var -> Name], ver : [Var -> Version], installed : SUBSET Var,
    provides : [Var -> SUBSET PkgProvide], requires : [Var -> SUBSET PkgRel],
    conflicts : [Var -> SUBSET PkgRel] ]

VerRestricted(rel) == rel.dir # {}

\* verOverlap() of the single version v with the subset a relation describes.
VerOverlap(v, rel) ==
  \/ v < rel.ver /\ "less" \in rel.dir
  \/ v = rel.ver /\ "equals" \in rel.dir
  \/ v > rel.ver /\ "greater" \in rel.dir

-----------------------------------------------------------------------------
isInstalled(v) == v \in scope.installed

getRequires(v) == scope.requires[v]

getConflicts(v) == scope.conflicts[v]

pkgIdOfVarId(v) == scope.name[v]

MatchesByName(v, rel) ==
  /\ scope.name[v] = rel.pkg
  /\ VerRestricted(rel) => VerOverlap(scope.ver[v], rel)

\* A relation with a version is met by a provide with a version only.
MatchesByProvide(v, rel) ==
  \E p \in scope.provides[v] :
    /\ p.pkg = rel.pkg
    /\ VerRestricted(rel) => VerRestricted(p) /\ VerOverlap(p.ver, rel)

selectMatchingVarsRealNames(rel) == {v \in Var : MatchesByName(v, rel)}

selectMatchingVarsProvidesOnly(rel) == {v \in Var : MatchesByProvide(v, rel)}

selectMatchingVarsWithProvides(rel) ==
  {v \in Var : MatchesByName(v, rel) \/ MatchesByProvide(v, rel)}

\* Every version of the package v is a version of, v included.
VersionsOf(v) == {w \in Var : scope.name[w] = scope.name[v]}

selectTheNewest(vars) == {v \in vars : \A w \in vars : scope.ver[w] <= scope.ver[v]}

-----------------------------------------------------------------------------
\* A relation together with the package that has it.
OwnedRel == [owner : Var, rel : PkgRel]

RelsOf(v, rels) == {[owner |-> v, rel |-> r] : r \in rels}

\* The reverse maps hold the relations of installed packages only.
whatDependAmongInstalled(v) ==
  {o \in UNION {RelsOf(d, scope.requires[d]) : d \in scope.installed} :
      v \in selectMatchingVarsWithProvides(o.rel)}

whatConflictAmongInstalled(v) ==
  {o \in UNION {RelsOf(d, scope.conflicts[d]) : d \in scope.installed} :
      v \in selectMatchingVarsWithProvides(o.rel)}

=============================================================================
