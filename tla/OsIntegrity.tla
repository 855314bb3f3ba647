----------------------------- MODULE OsIntegrity -----------------------------
(***************************************************************************)
(* When a set of packages makes a sound operating system: class            *)
(* OsIntegrity of src/lib/deepsolver.  It shares no code with the solver:  *)
(* RpmBackEnd::matches() decides anew what meets a relation.               *)
(***************************************************************************)
EXTENDS PkgScope

\* RpmBackEnd::matches() for a relation and a package.
matches(rel, v) ==
  \/ scope.name[v] = rel.pkg /\ (VerRestricted(rel) => VerOverlap(scope.ver[v], rel))
  \/ \E p \in scope.provides[v] :
       p.pkg = rel.pkg /\ (VerRestricted(rel) => VerRestricted(p) /\ VerOverlap(p.ver, rel))

checkRequire(rel, pkgs) == \E w \in pkgs : matches(rel, w)

\* A package cannot conflict with itself.
checkConflict(v, rel, pkgs) == \A w \in pkgs \ {v} : ~ matches(rel, w)

RequiresMet(pkgs) == \A v \in pkgs : \A r \in scope.requires[v] : checkRequire(r, pkgs)

\* The conflicts of the packages of "of" only.
ConflictsMet(of, pkgs) == \A v \in of : \A r \in scope.conflicts[v] : checkConflict(v, r, pkgs)

verify(pkgs) == RequiresMet(pkgs) /\ ConflictsMet(pkgs, pkgs)

=============================================================================
