---------------------------- MODULE MCSatBuilder ----------------------------
(***************************************************************************)
(* The package worlds in which SatBuilder is found to go wrong: package a  *)
(* has the versions 1 and 2, b and c have one version, p is a name         *)
(* packages provide.                                                       *)
(***************************************************************************)
EXTENDS SatBuilder

AnyVer(n) == [pkg |-> n, dir |-> {}, ver |-> 1]
Exact(n, v) == [pkg |-> n, dir |-> {"equals"}, ver |-> v]

MCVar == {"a1", "a2", "b1", "c1"}
MCName == {"a", "b", "c", "p"}
MCVersion == 1..2

MCNameOf == [a1 |-> "a", a2 |-> "a", b1 |-> "b", c1 |-> "c"]
MCVerOf == [a1 |-> 1, a2 |-> 2, b1 |-> 1, c1 |-> 1]

Rels(a1, a2, b1, c1) == [a1 : a1, a2 : a2, b1 : b1, c1 : c1]

\* Every combination of the given requires, provides, conflicts and sets of
\* installed packages.
Worlds(installed, provides, requires, conflicts) ==
  [ name : {MCNameOf}, ver : {MCVerOf}, installed : installed,
    provides : provides, requires : requires, conflicts : conflicts ]

None == {{}}
Opt(r) == {{}, {r}}

ToInstall(items) == [itemsToInstall |-> items, namesToRemove |-> {}]
ToRemove(names) == [itemsToInstall |-> {}, namesToRemove |-> names]

\* a1 is installed, a newer a2 is available, and a is to be removed.
RemoveWorlds ==
  Worlds({{"a1"}}, Rels(None, None, None, None), Rels(None, None, None, None),
         Rels(None, None, None, None))

RemoveTasks == {ToRemove({"a"})}

\* a2 conflicts with p, which b1 and c1 provide; c, installed, is asked for too.
AskedWorlds ==
  Worlds({{"c1"}}, Rels(None, None, {{AnyVer("p")}}, {{AnyVer("p")}}),
         Rels(None, None, None, None), Rels(None, {{AnyVer("p")}}, None, None))

AskedTasks == {ToInstall({AnyVer("a"), AnyVer("c")})}

\* c is installed and conflicts with a, which is to be installed.
RivalWorlds ==
  Worlds({{"c1"}}, Rels(None, None, None, None), Rels(None, None, None, None),
         Rels(None, None, None, Opt(AnyVer("a"))))

RivalTasks == {ToInstall({AnyVer("a")})}

=============================================================================
