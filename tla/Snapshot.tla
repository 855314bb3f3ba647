------------------------------ MODULE Snapshot ------------------------------
(***************************************************************************)
(* The package snapshot from its construction to the queries: a first      *)
(* program (OperationCore::fetchMetadata) fills it with the packages of    *)
(* the repositories and saves it, a second one (::transaction) loads it,   *)
(* adds what is installed (fillWithhInstalledPackages, enhance), builds    *)
(* the reverse maps and asks for the packages of a name.                   *)
(*                                                                         *)
(* A name is a number, as only the order of names matters, and a PkgId the *)
(* position of a name in pkgNames, counted from 0.  "ver" stands for       *)
(* version, release and build time, the three that are compared (the epoch *)
(* is not).  Requires and provides are modelled; conflicts and obsoletes   *)
(* are stored by the same functions.  Searches run step by step in         *)
(* Dichotomy, those inside of one loop body are taken by their result.     *)
(***************************************************************************)
EXTENDS Dichotomy, SequencesExt

CONSTANTS
  RepoLists,      \* lists of packages the repositories may have
  InstalledLists  \* lists of packages the system may have

\* A package as it is read, with relations by name.
RelType == [name : Int, ver : Nat]
FileType == [name : Int, ver : Nat, requires : Seq(RelType), provides : Seq(RelType), files : Seq(Int)]

\* librpm lists a package of a name, version, release and build time once.
ASSUME ListsAssumption ==
  /\ \A s \in RepoLists \cup InstalledLists : s \in Seq(FileType)
  /\ \A s \in InstalledLists : \A i, j \in DOMAIN s :
       s[i].name = s[j].name /\ s[i].ver = s[j].ver => i = j

VARIABLES
  stage,      \* what the programs are doing
  repoPkgs,   \* the packages of the repositories, in the order they are read
  installed,  \* packages of the system, in the order librpm lists them
  todo,       \* those not yet looked up
  enhanceWith,\* those to add to the snapshot
  pkgNames, pkgs, relations,  \* struct Snapshot
  revMapProvides, revMapInstalledRequires,
  query,      \* the PkgId asked for and whether requires are meant
  answer      \* the VarIds found

snapshotVars == <<pkgNames, pkgs, relations>>
mapVars == <<revMapProvides, revMapInstalledRequires>>
systemVars == <<installed, todo, enhanceWith>>
queryVars == <<query, answer>>

vars == <<stage, repoPkgs, systemVars, snapshotVars, mapVars, queryVars, searchVars>>

-----------------------------------------------------------------------------
BadPkgId == -1

\* The position of a name, from 0.
IdOf(names, n) ==
  IF n \in Range(names) THEN (CHOOSE i \in DOMAIN names : names[i] = n) - 1 ELSE BadPkgId

NamesOf(rels) == [i \in DOMAIN rels |-> rels[i].name]

\* The members of a finite set in order: each at the place that the number of
\* those before it tells.
Ordered(S, before) ==
  [k \in 1 .. Cardinality(S) |-> CHOOSE x \in S : Cardinality({y \in S : <<y, x>> \in before}) = k - 1]

Less(S) == {pair \in S \X S : pair[1] < pair[2]}
Ascending(S) == Ordered(S, Less(S))

\* The members of s at the given positions.
SelectAt(s, places) == [k \in 1 .. Cardinality(places) |-> s[Ascending(places)[k]]]

\* registerName(), for one name after another: known ones have their place.
Registered(names, more) ==
  names \o SelectAt(more, {i \in DOMAIN more : /\ more[i] \notin Range(names)
                                               /\ \A j \in 1 .. i - 1 : more[j] # more[i]})

\* Where count relations written from position pos on are found again.
Span(pos, count) == [pos |-> IF count = 0 THEN 0 ELSE pos, count |-> count]

Related(span) == SubSeq(relations, span.pos + 1, span.pos + span.count)

ToRelations(names, rels) ==
  [i \in DOMAIN rels |-> [pkgId |-> IdOf(names, rels[i].name), ver |-> rels[i].ver]]

\* What std::sort may make of a vector of packages: sorted by PkgId, those of
\* one name in any order.
Sortings(s) ==
  {[i \in DOMAIN s |-> s[order[i]]] : order \in
     {o \in [DOMAIN s -> DOMAIN s] :
       /\ Range(o) = DOMAIN s
       /\ \A i, j \in DOMAIN s : i < j => s[o[i]].pkgId <= s[o[j]].pkgId}}

PkgIds == [i \in DOMAIN pkgs |-> pkgs[i].pkgId]

\* No name is there twice: the names are sorted in one way only.
SortedNames(names) == Ascending(Range(names))

\* rearrangeNames(): an old PkgId becomes the position of its name in order.
Rearranged(names, records) ==
  [i \in DOMAIN records |->
    [records[i] EXCEPT !.pkgId = IdOf(names, pkgNames[records[i].pkgId + 1])]]

-----------------------------------------------------------------------------
Init ==
  /\ stage = "reading"
  /\ repoPkgs \in RepoLists
  /\ installed \in InstalledLists
  /\ todo = <<>>
  /\ enhanceWith = <<>>
  /\ pkgNames = <<>> /\ pkgs = <<>> /\ relations = <<>>
  /\ revMapProvides = <<>> /\ revMapInstalledRequires = <<>>
  /\ query = [pkgId |-> BadPkgId, requires |-> FALSE]
  /\ answer = {}
  /\ vec = <<>> /\ value = 0 /\ many = FALSE /\ at = "idle"
  /\ l = 0 /\ r = 0 /\ fromPos = 0 /\ toPos = 0 /\ found = FALSE

\* PkgRecipientAdapter::onNewPkgFile(), addNewPkg().
AddNewPkg ==
  /\ stage = "reading"
  /\ Len(pkgs) < Len(repoPkgs)
  /\ LET f == repoPkgs[Len(pkgs) + 1]
         rels == f.requires \o f.provides
         names == Registered(pkgNames, <<f.name>> \o NamesOf(rels))
         pos == Len(relations)
     IN  /\ pkgNames' = names
         /\ relations' = relations \o ToRelations(names, rels)
         /\ pkgs' = Append(pkgs,
              [ pkgId |-> IdOf(names, f.name), ver |-> f.ver, installed |-> FALSE,
                requires |-> Span(pos, Len(f.requires)),
                provides |-> Span(pos + Len(f.requires), Len(f.provides)) ])
  /\ UNCHANGED <<stage, repoPkgs, systemVars, mapVars, queryVars, searchVars>>

\* rearrangeNames() and the sort after it; the snapshot is then saved.
Rearrange ==
  /\ stage = "reading"
  /\ Len(pkgs) = Len(repoPkgs)
  /\ LET names == SortedNames(pkgNames) IN
       /\ pkgNames' = names
       /\ relations' = Rearranged(names, relations)
       /\ pkgs' \in Sortings(Rearranged(names, pkgs))
  /\ stage' = "saved"
  /\ UNCHANGED <<repoPkgs, systemVars, mapVars, queryVars, searchVars>>

\* Mutant of Repeats: only the neighbour is compared.
Repeats_OfNeighbour(i) ==
  i > 1 /\ pkgs[i - 1].pkgId = pkgs[i].pkgId /\ pkgs[i - 1].ver = pkgs[i].ver

\* removeEqualPkgs(): of a run of packages of one name, those that repeat an
\* earlier one go.
Repeats(i) ==
  \E k \in 1 .. i - 1 :
    /\ \A j \in k .. i : pkgs[j].pkgId = pkgs[i].pkgId
    /\ pkgs[k].ver = pkgs[i].ver

removeEqualPkgs == SelectAt(pkgs, {i \in DOMAIN pkgs : ~ Repeats(i)})

\* The second program: loadFromFile(), removeEqualPkgs().  Flags are not
\* saved, and none is set yet.
Load ==
  /\ stage = "saved"
  /\ IF pkgs = <<>>
     THEN stage' = "refused" /\ UNCHANGED <<pkgs, todo>>
     ELSE stage' = "marking" /\ pkgs' = removeEqualPkgs /\ todo' = installed
  /\ UNCHANGED <<repoPkgs, installed, enhanceWith, pkgNames, relations>>
  /\ UNCHANGED <<mapVars, queryVars, searchVars>>

\* The next installed package: strToPkgId() of its name.
NextInstalled ==
  /\ stage = "marking"
  /\ todo # <<>>
  /\ Call(pkgNames, Head(todo).name, FALSE)
  /\ stage' = "named"
  /\ UNCHANGED <<repoPkgs, systemVars, snapshotVars, mapVars, queryVars>>

\* locateRange() when the name is known, else the package is new.
Named ==
  /\ stage = "named"
  /\ at = "done"
  /\ IF found
     THEN /\ Call(PkgIds, fromPos, TRUE)
          /\ stage' = "ranged"
          /\ UNCHANGED <<todo, enhanceWith>>
     ELSE /\ enhanceWith' = Append(enhanceWith, Head(todo))
          /\ todo' = Tail(todo)
          /\ stage' = "marking"
          /\ UNCHANGED searchVars
  /\ UNCHANGED <<repoPkgs, installed, snapshotVars, mapVars, queryVars>>

\* theSameVersion() for each of the range; all that are the same are marked.
MarkInstalled ==
  /\ stage = "ranged"
  /\ at = "done"
  /\ LET same == {i \in fromPos + 1 .. toPos : pkgs[i].ver = Head(todo).ver} IN
       /\ pkgs' = [i \in DOMAIN pkgs |->
                    IF i \in same THEN [pkgs[i] EXCEPT !.installed = TRUE] ELSE pkgs[i]]
       /\ enhanceWith' = IF same = {} THEN Append(enhanceWith, Head(todo)) ELSE enhanceWith
  /\ todo' = Tail(todo)
  /\ stage' = "marking"
  /\ UNCHANGED <<repoPkgs, installed, pkgNames, relations, mapVars, queryVars, searchVars>>

\* enhance() begins with the set of the names of packages and of their
\* relations; with those that are known already they are sorted.
NamesToAdd ==
  UNION {{f.name} \cup Range(NamesOf(f.requires)) \cup Range(NamesOf(f.provides)) : f \in Range(enhanceWith)}

\* Mutant of BeginEnhance: names move to their places, relations keep PkgIds.
BeginEnhance_KeepsRelations ==
  /\ stage = "marking"
  /\ todo = <<>>
  /\ IF enhanceWith = <<>>
     THEN stage' = "enhanced" /\ UNCHANGED <<todo, snapshotVars>>
     ELSE /\ stage' = "enhancing"
          /\ todo' = enhanceWith
          /\ LET names == Ascending(Range(pkgNames) \cup NamesToAdd) IN
               /\ pkgNames' = names
               /\ pkgs' = Rearranged(names, pkgs)
  /\ UNCHANGED <<repoPkgs, installed, enhanceWith, relations, mapVars, queryVars, searchVars>>

BeginEnhance ==
  /\ stage = "marking"
  /\ todo = <<>>
  /\ IF enhanceWith = <<>>
     THEN stage' = "enhanced" /\ UNCHANGED <<todo, snapshotVars>>
     ELSE /\ stage' = "enhancing"
          /\ todo' = enhanceWith
          /\ LET names == Ascending(Range(pkgNames) \cup NamesToAdd) IN
               /\ pkgNames' = names
               /\ relations' = Rearranged(names, relations)
               /\ pkgs' = Rearranged(names, pkgs)
  /\ UNCHANGED <<repoPkgs, installed, enhanceWith, mapVars, queryVars, searchVars>>

\* Mutant of FileProvides: every file is registered as a provide, known or not.
FileProvides_All(f) == [i \in DOMAIN f.files |-> [name |-> f.files[i], ver |-> 0]]

\* Mutant of FileProvides: only files that packages read before require.
FileProvides_KnownBefore(f) ==
  LET known == {pkgNames[rel.pkgId + 1] : rel \in Range(relations)}
      files == SelectAt(f.files, {i \in DOMAIN f.files : f.files[i] \in known})
  IN  [i \in DOMAIN files |-> [name |-> files[i], ver |-> 0]]

\* addProvidesForEnhancing(): a file is a provide when its name is known.
FileProvides(f) ==
  LET files == SelectAt(f.files, {i \in DOMAIN f.files : f.files[i] \in Range(pkgNames)})
  IN  [i \in DOMAIN files |-> [name |-> files[i], ver |-> 0]]

\* One more package.
EnhanceWithOne ==
  /\ stage = "enhancing"
  /\ todo # <<>>
  /\ LET f == Head(todo)
         provides == f.provides \o FileProvides(f)
         pos == Len(relations)
     IN  /\ relations' = relations \o ToRelations(pkgNames, f.requires \o provides)
         /\ pkgs' = Append(pkgs,
              [ pkgId |-> IdOf(pkgNames, f.name), ver |-> f.ver, installed |-> TRUE,
                requires |-> Span(pos, Len(f.requires)),
                provides |-> [pos |-> pos + Len(f.requires), count |-> Len(provides)] ])
  /\ todo' = Tail(todo)
  /\ UNCHANGED <<stage, repoPkgs, installed, enhanceWith, pkgNames, mapVars, queryVars, searchVars>>

\* Mutant of EndEnhance: enhance() leaves the new packages at the end.
EndEnhance_NoSort ==
  /\ stage = "enhancing"
  /\ todo = <<>>
  /\ stage' = "enhanced"
  /\ UNCHANGED <<repoPkgs, systemVars, snapshotVars, mapVars, queryVars, searchVars>>

\* Packages are sorted twice, before and after the new ones come.
EndEnhance ==
  /\ stage = "enhancing"
  /\ todo = <<>>
  /\ pkgs' \in Sortings(pkgs)
  /\ stage' = "enhanced"
  /\ UNCHANGED <<repoPkgs, systemVars, pkgNames, relations, mapVars, queryVars, searchVars>>

\* Mutant of RevMapItems: the map holds one item less of each package.
RevMapItems_OffByOne(i, span) ==
  [k \in 1 .. span.count - 1 |-> [first |-> Related(span)[k].pkgId, second |-> i - 1]]

\* Items of a reverse map: the name of a relation and the package that has it.
RevMapItems(i, span) ==
  [k \in DOMAIN Related(span) |-> [first |-> Related(span)[k].pkgId, second |-> i - 1]]

\* Sorted by their names.  Answers are sets, so nothing tells the order of the
\* items of a name, nor one that is there twice.
SortedItems(items) ==
  Ordered(items, {pair \in items \X items :
    \/ pair[1].first < pair[2].first
    \/ pair[1].first = pair[2].first /\ pair[1].second < pair[2].second})

fillRevMapProvides ==
  SortedItems(UNION {Range(RevMapItems(i, pkgs[i].provides)) : i \in DOMAIN pkgs})

fillRevMapRequires ==
  SortedItems(UNION {Range(RevMapItems(i, pkgs[i].requires)) : i \in {i \in DOMAIN pkgs : pkgs[i].installed}})

InitMetadata ==
  /\ stage = "enhanced"
  /\ revMapProvides' = fillRevMapProvides
  /\ revMapInstalledRequires' = fillRevMapRequires
  /\ stage' = "ready"
  /\ UNCHANGED <<repoPkgs, systemVars, snapshotVars, queryVars, searchVars>>

Firsts(map) == [i \in DOMAIN map |-> map[i].first]

\* The VarIds of the range just found.
Seconds(map) == {map[i].second : i \in fromPos + 1 .. toPos}

\* PkgScope::selectVarsToTry() begins with locateRange(), a search for the
\* packages that require a name with findPkgsByRequire().
Ask ==
  /\ stage = "ready"
  /\ \E id \in 0 .. Len(pkgNames) - 1, requires \in BOOLEAN :
       /\ query' = [pkgId |-> id, requires |-> requires]
       /\ IF requires
          THEN Call(Firsts(revMapInstalledRequires), id, TRUE) /\ stage' = "required"
          ELSE Call(PkgIds, id, TRUE) /\ stage' = "located"
  /\ UNCHANGED <<repoPkgs, systemVars, snapshotVars, mapVars, answer>>

\* The assert, the packages of the name, then findProviders().
Located ==
  /\ stage = "located"
  /\ at = "done"
  /\ IF fromPos < Len(pkgs) /\ toPos < Len(pkgs)
     THEN /\ answer' = fromPos .. toPos - 1
          /\ Call(Firsts(revMapProvides), query.pkgId, TRUE)
          /\ stage' = "providers"
     ELSE stage' = "abort" /\ UNCHANGED <<answer, searchVars>>
  /\ UNCHANGED <<repoPkgs, systemVars, snapshotVars, mapVars, query>>

Answered ==
  /\ stage \in {"providers", "required"}
  /\ at = "done"
  /\ answer' = answer \union
       Seconds(IF query.requires THEN revMapInstalledRequires ELSE revMapProvides)
  /\ stage' = "end"
  /\ UNCHANGED <<repoPkgs, systemVars, snapshotVars, mapVars, query, searchVars>>

Next ==
  \/ AddNewPkg
  \/ Rearrange
  \/ Load
  \/ NextInstalled
  \/ Named
  \/ MarkInstalled
  \/ BeginEnhance
  \/ EnhanceWithOne
  \/ EndEnhance
  \/ InitMetadata
  \/ Ask
  \/ Located
  \/ Answered
  \/ Search /\ UNCHANGED <<stage, repoPkgs, systemVars, snapshotVars, mapVars, queryVars>>

\* One thread that waits for nothing.
SnapshotSpec == Init /\ [][Next]_vars /\ WF_vars(Next)

-----------------------------------------------------------------------------
ByName(names, rels) == [i \in DOMAIN rels |-> [name |-> names[rels[i].pkgId + 1], ver |-> rels[i].ver]]

\* The name of the package p, and its relations by name.
NameOf(p) == pkgNames[p.pkgId + 1]
RequiresOf(p) == ByName(pkgNames, Related(p.requires))
ProvidesOf(p) == ByName(pkgNames, Related(p.provides))

Same(p, f) == NameOf(p) = f.name /\ p.ver = f.ver

\* The entry p stands for the package f: nothing lost, nothing of another one.
StandsFor(p, f) ==
  /\ Same(p, f)
  /\ RequiresOf(p) = f.requires
  /\ Len(f.provides) <= Len(ProvidesOf(p))
  /\ SubSeq(ProvidesOf(p), 1, Len(f.provides)) = f.provides
  /\ \A k \in Len(f.provides) + 1 .. Len(ProvidesOf(p)) : ProvidesOf(p)[k].name \in Range(f.files)

PkgType ==
  [ pkgId : Nat, ver : Nat, installed : BOOLEAN, requires : [pos : Nat, count : Nat],
    provides : [pos : Nat, count : Nat] ]

\* Type invariant: every PkgId is one of a name, every span inside of the
\* vector of relations.
SnapshotTypeOK ==
  /\ stage \in { "reading", "saved", "marking", "named", "ranged", "enhancing", "enhanced", "ready",
                 "located", "required", "providers", "end", "refused", "abort" }
  /\ \A i \in DOMAIN pkgs :
       /\ pkgs[i] \in PkgType
       /\ pkgs[i].pkgId < Len(pkgNames)
       /\ pkgs[i].requires.pos + pkgs[i].requires.count <= Len(relations)
       /\ pkgs[i].provides.pos + pkgs[i].provides.count <= Len(relations)
  /\ \A i \in DOMAIN relations : relations[i].pkgId \in 0 .. Len(pkgNames) - 1
  /\ answer \subseteq 0 .. Len(pkgs) - 1

\* Through registration, renumbering, saving, merging and enhancing, every
\* entry keeps the name and relations of a package that was read, of the
\* repositories or of the system, and no package gets lost.
PackagesAreKept ==
  /\ \A i \in DOMAIN pkgs :
       \E f \in Range(repoPkgs) \union Range(installed) : StandsFor(pkgs[i], f)
  /\ stage # "reading" => \A f \in Range(repoPkgs) : \E i \in DOMAIN pkgs : Same(pkgs[i], f)

\* What the task solver takes for the system is the system: once enhanced, the
\* packages marked are those installed, each with one entry, and no package
\* of a repository has two.
MarkedAreInstalled ==
  stage \in {"enhanced", "ready", "located", "required", "providers", "end"} =>
    /\ \A i \in DOMAIN pkgs :
         pkgs[i].installed <=> \E f \in Range(installed) : Same(pkgs[i], f)
    /\ \A f \in Range(installed) \union Range(repoPkgs) :
         \E i \in DOMAIN pkgs : Same(pkgs[i], f) /\ \A j \in DOMAIN pkgs : Same(pkgs[j], f) => j = i

\* addProvidesForEnhancing() drops files whose name is unknown.  Its comment
\* (PkgSnapshot.cpp:327-333) calls that safe: whoever requires a file of an
\* added package finds it among the provides, be it a package of a
\* repository or another added one.
RequiredFilesAreProvided ==
  stage = "ready" =>
    \A f \in Range(enhanceWith), n \in UNION {Range(NamesOf(RequiresOf(p))) : p \in Range(pkgs)} :
      n \in Range(f.files) =>
        \E p \in Range(pkgs) : Same(p, f) /\ n \in Range(NamesOf(ProvidesOf(p)))

\* Dichotomy works on sorted vectors only, and nothing in it would notice
\* another: names after registration and enhance(), packages after
\* renumbering and merging, and the reverse maps are sorted when searched.
SearchedIsSorted == at = "called" => Sorted(vec)

\* A query answers with exactly the packages that match: by name or provide,
\* or the installed ones that require the name.
AnswerIsExact ==
  stage = "end" =>
    LET name == pkgNames[query.pkgId + 1] IN
      answer = {i \in 0 .. Len(pkgs) - 1 :
        LET p == pkgs[i + 1] IN
          IF query.requires
          THEN p.installed /\ name \in Range(NamesOf(RequiresOf(p)))
          ELSE name = NameOf(p) \/ name \in Range(NamesOf(ProvidesOf(p)))}

\* The programs come to an end, searches included.
QueryEnds == <>(stage \in {"end", "refused", "abort"})

\* PkgScope.cpp:96, :110, :539 assert that both positions of a range are valid.
RangeEndsInside == stage # "abort"

=============================================================================
