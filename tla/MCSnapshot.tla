----------------------------- MODULE MCSnapshot -----------------------------
(***************************************************************************)
(* Small repositories and systems for Snapshot.  The names in their order: *)
(* 1 a package or a file, 2 a package of several versions, 3 a file or     *)
(* provided name, 4 a package others require.                              *)
(***************************************************************************)
EXTENDS Snapshot

Rel(n) == [name |-> n, ver |-> 0]

RelWithVer(n, v) == [name |-> n, ver |-> v]

Package(name, ver, requires, provides, files) ==
  [name |-> name, ver |-> ver, requires |-> requires, provides |-> provides, files |-> files]

\* Two packages that differ in their relations only come from two repositories.
RepoPackages ==
  { Package(2, 1, <<Rel(3)>>, <<>>, <<>>),
    Package(2, 2, <<>>, <<RelWithVer(3, 1), Rel(1)>>, <<>>),
    Package(2, 2, <<Rel(4)>>, <<>>, <<>>),
    Package(4, 1, <<RelWithVer(2, 2), Rel(3)>>, <<Rel(4)>>, <<>>) }

SystemPackages ==
  { Package(2, 1, <<Rel(3)>>, <<>>, <<3>>),
    Package(2, 3, <<>>, <<Rel(3)>>, <<3, 1>>),
    Package(4, 1, <<Rel(2)>>, <<>>, <<1>>),
    Package(1, 1, <<Rel(5)>>, <<>>, <<3, 6>>),
    Package(5, 1, <<>>, <<>>, <<5, 3>>) }

MCRepoLists == UNION {[1 .. n -> RepoPackages] : n \in 0 .. 3}

\* librpm lists a package once.
MCInstalledLists ==
  {s \in UNION {[1 .. n -> SystemPackages] : n \in 0 .. 2} : \A i, j \in DOMAIN s : i # j => s[i] # s[j]}

=============================================================================
