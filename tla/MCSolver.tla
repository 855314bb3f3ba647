------------------------------ MODULE MCSolver ------------------------------
(***************************************************************************)
(* Small package worlds to check Solver in, and SatBuilder with it: a and  *)
(* b have the versions 1 and 2, c and d have one version, p is a name      *)
(* packages may provide.                                                   *)
(***************************************************************************)
EXTENDS Solver

AnyVer(n) == [pkg |-> n, dir |-> {}, ver |-> 1]
Exact(n, v) == [pkg |-> n, dir |-> {"equals"}, ver |-> v]
AtLeast(n, v) == [pkg |-> n, dir |-> {"equals", "greater"}, ver |-> v]

MCVar == {"a1", "a2", "b1", "b2", "c1", "d1"}
MCName == {"a", "b", "c", "d", "p"}
MCVersion == 1..2

MCNameOf == [a1 |-> "a", a2 |-> "a", b1 |-> "b", b2 |-> "b", c1 |-> "c", d1 |-> "d"]
MCVerOf == [a1 |-> 1, a2 |-> 2, b1 |-> 1, b2 |-> 2, c1 |-> 1, d1 |-> 1]

Rels(a1, a2, b1, b2, c1, d1) ==
  [a1 : a1, a2 : a2, b1 : b1, b2 : b2, c1 : c1, d1 : d1]

None == {{}}
One(r) == {{r}}
Opt(r) == {{}, {r}}

ToInstall(items) == [itemsToInstall |-> items, namesToRemove |-> {}]
ToRemove(names) == [itemsToInstall |-> {}, namesToRemove |-> names]

Worlds(installed, provides, requires, conflicts) ==
  [ name : {MCNameOf}, ver : {MCVerOf}, installed : installed,
    provides : provides, requires : requires, conflicts : conflicts ]

\* a or b is in the way of c, a may be upgraded, and the upgrade may need p.
InTheWay ==
  Worlds({{"a1"}, {"a1", "b1"}, {"a2", "d1"}},
         Rels(None, None, One(AnyVer("p")), None, None, Opt(AnyVer("p"))),
         Rels(None, Opt(AnyVer("p")), {{}, {AnyVer("a")}, {Exact("a", 1)}}, None,
              Opt(AnyVer("p")), None),
         Rels(None, Opt(Exact("b", 1)), None, None,
              {{}, {Exact("a", 1)}, {AnyVer("b")}, {AnyVer("b"), Exact("a", 1)}},
              Opt(AnyVer("c"))))

\* Both a and b are, and the upgrade of each may need that of the other.
Chained ==
  Worlds({{"a1", "b1"}},
         Rels(None, None, None, None, None, None),
         Rels(None, Opt(Exact("b", 2)), None, Opt(Exact("a", 2)), None, None),
         Rels(None, None, None, None, {{Exact("a", 1), Exact("b", 1)}},
              None))

UpgradeTasks ==
  { ToInstall({AnyVer("c")}), ToRemove({"d"}), ToInstall({AnyVer("a")}), ToInstall({AnyVer("p")}),
    [itemsToInstall |-> {AnyVer("c")}, namesToRemove |-> {"d"}] }

-----------------------------------------------------------------------------
\* One version of a package installed at a time, none of b.
OneVersion == {S \in SUBSET {"a1", "a2", "c1", "d1"} : ~ {"a1", "a2"} \subseteq S}

\* Requires of every kind: by name, by provide, by version, in circles and
\* unmet.
RequireWorlds ==
  Worlds(OneVersion,
         Rels(None, Opt(AnyVer("p")), None, None, Opt(AnyVer("p")), None),
         Rels(Opt(AnyVer("p")), {{}, {AnyVer("p")}, {AnyVer("c"), AnyVer("d")}}, None, None,
              {{}, {Exact("a", 1)}, {AnyVer("d")}}, {{}, {AnyVer("a")}, {AtLeast("a", 2)}}),
         Rels(None, None, None, None, None, None))

RequireTasks ==
  { ToInstall({AnyVer("a")}), ToInstall({Exact("a", 1), AnyVer("d")}), ToInstall({AnyVer("p")}),
    ToInstall({Exact("a", 1), AnyVer("a")}), ToInstall({AnyVer("c"), AnyVer("d")}),
    ToRemove({"a"}), ToRemove({"c"}), ToRemove({"c", "d"}) }

\* Conflicts of every kind: with a version, with whatever provides a name,
\* with the package itself, two at a time, of installed packages.
ConflictWorlds ==
  Worlds(OneVersion,
         Rels(None, {{AnyVer("p")}}, None, None, Opt(AnyVer("p")), {{AnyVer("p")}}),
         Rels(Opt(AnyVer("p")), None, None, None, Opt(AnyVer("a")), None),
         Rels(Opt(AnyVer("d")), {{AnyVer("p")}, {AnyVer("c"), AnyVer("d")}}, None, None,
              Opt(Exact("a", 2)), {{}, {AnyVer("a")}, {AnyVer("p")}}))

ConflictTasks ==
  { ToInstall({AnyVer("a")}), ToInstall({AnyVer("c")}), ToInstall({AnyVer("a"), AnyVer("d")}),
    ToInstall({AnyVer("p")}), ToRemove({"d"}),
    [itemsToInstall |-> {AnyVer("a")}, namesToRemove |-> {"c"}] }

MCWorlds == InTheWay \union Chained \union RequireWorlds \union ConflictWorlds

MCTasks == UpgradeTasks \union RequireTasks \union ConflictTasks

=============================================================================
