# Deepsolver in TLA+

A verification project for Deepsolver, the package manager whose source is in
`src/`. It holds TLA+ modules of the program's core logic, configurations for
the TLC model checker and proofs for TLAPS.

    tlc -config MCSolver.cfg MCSolver    # model-check a run
    tlapm SatBuilderProofs.tla           # check the proofs

Paths such as `Solver.cpp:361` are below `src/lib/deepsolver/`.

## 1. The system

Deepsolver installs and removes RPM packages. A *repository index* (package
lists with check sums) is built with `ds-repo`, `ds-patch`, `ds-provides`.
`ds-update` fetches the indices of the configured repositories into one binary
*snapshot* and a list of package URLs. `ds-install` and `ds-remove` read the
snapshot, add what is installed, have the *task solver* find what has to
change, fetch the packages and hand them to librpm. Every program is one thread;
what runs concurrently are programs, which share files and take no locks.

| Component | State | Operations | What makes it correct |
|---|---|---|---|
| SAT builder (`SatBuilder`, `RefCountedEntries`) | the table of entries with clauses, germs and lists to rewrite; `m_pending`; the reduced user task; the call stack | `build`, `onUserTask`, `onPending`, `toBeInstalled`, `toBeRemoved`, `reconstruct`, `useGerm...` | the equation it leaves allows only sound systems, although clauses of packages expected to stay are left out; no assert fails; it ends |
| Task solver (`Solver`) | new states, marks of entries and literals, updates | `doMainWork`, `solveSat`, `filterSolution`, `makeAmbiguousMarks`, `Bfs`, `isInstallableReplacement`, `solve` | filtering keeps a solution a solution; upgrades found are kept; it ends; the answer honours the task |
| SAT adapter (`MinisatSolver`) | clauses, numbers of variables | `addClause`, `solve` | gives values to the variables it was given, satisfies the clauses |
| Package scope (`PkgScope...`) | sorted packages, reverse maps | queries by name, provide, version; dependents and conflicts among installed packages | each query lists exactly the packages that match |
| OS integrity (`OsIntegrity`) | none | `verify` | the program's own definition of a sound system |
| Snapshot (`PkgSnapshot`) | names, packages, relations | `loadFromFile`, `saveToFile`, `enhance`, `rearrangeNames`, `removeEqualPkgs`, `locateRange` | names stay sorted and ids stay theirs; equal packages are merged, different ones are not |
| Operation core (`OperationCore`) | the files of the package data directory | `transaction`, `closure`, `fetchMetadata`, `fillWithhInstalledPackages`, `fillUpgradeDowngrade` | a snapshot and a URL list of the same generation; each change of the solver carried out once |
| Transaction iterator, downloads (`TransactionIterator`, `FilesFetch`, `CurlInterface`, `PkgUrlsFile`) | URLs, local file names, the fetch queue | `fetchPackages`, `makeChanges` | each package installed from the file it was fetched to |
| Repository client (`Repository`, `Md5File`, ...) | fetched index files | `fetchInfoAndChecksum`, `addIndexFilesForFetch`, `loadPackageData` | accepts only what belongs to the check sums |
| Repository index (`IndexCore`, `RepoParams`) | index files and check sums | `buildIndex`, `rebuildIndex`, `refilterProvides` | check sums are those of the files; lists agree with one another |
| Index parameters (`RepoParams`, `InfoFileReader`) | the info file | `writeInfoFile`, `readInfoFile`, `parseLine` | `ds-patch` works with the parameters of `ds-repo` |
| RPM back end (`RpmBackEnd`, `RpmTransaction`, ...) | librpm's database | version comparison, `matches`, `transaction` | carries out what it is told or says that it did not |
| Configuration (`ConfigFile`, `ConfigCenter`) | the parser's state, the parsed values and the tables of their addresses | `loadFromFile`, `processLine`, `onConfigFileValue`, `commit`, `checkValues` | the values are what the files say, whatever order the sections come in |
| Command line (`CliParser`, the parsers of `ds-install` and `ds-patch`) | clusters, mode | `parse`, `recognizeCluster`, `parseCluster` | each word is understood once, as the usage says |
| Programs, support code | | `main`, messages, wrappers of system calls | what is asked for is done, nothing before the user agrees |

How they interact: calls only, inside a program. The solver calls the scope
(read-only) and the SAT adapter; `OperationCore` creates scope and solver and
passes the answer to `TransactionIterator`, which calls the downloads and the
RPM back end. Between programs: the snapshot and the URL list in the package
data directory (`ds-update` writes, `ds-install` and `ds-remove` read), the
index files of a repository (`IndexCore` writes, `Repository` reads).

What is hard in it:

* **The germ optimisation.** A package that is only expected to stay as it is
  gets no clauses. Requires and conflicts that depend on this are left out and
  must be written after all when the expectation fails, which happens in the
  middle of another package's visit, by recursion.
* **Solving in rounds.** Solutions are filtered, replaced and filtered again;
  marks, states and updates of one round are read in the next.
* **Files shared without locks**, rewritten in place, between programs that may
  be stopped at any point: the index of a repository, the temporary directory,
  the URLs and the snapshot of `ds-update`, the package cache of `ds-install`.
* **Addresses of values in growing vectors**, and state of a parser that
  survives from one line to the next.
* **Index arithmetic** in binary searches over unsigned positions.

`PROJECT.json` lists each hazard at its line, with the property that would
catch it.

## 2. Modules

| Module | Models |
|---|---|
| `PkgScope` | the package scope: versions, relations and every query the solver makes |
| `OsIntegrity` | `OsIntegrity::verify()` and what it calls, as predicates on sets of packages |
| `SatBuilder` | class `SatBuilder` with `RefCountedEntries`: the construction of the equation |
| `TaskSolver` | the contract of `AbstractTaskSolver::solve()`: one acceptable answer, or none |
| `Solver` | class `Solver` on top of `SatBuilder`; implements `TaskSolver` |
| `Dichotomy` | the binary search of `utils.h`, one step per turn of a loop |
| `Snapshot` | the package snapshot from the packages of the repositories to a query: `addNewPkg`, `rearrangeNames`, `removeEqualPkgs`, `fillWithhInstalledPackages`, `enhance`, the reverse maps, `selectVarsToTry`, `findPkgsByRequire` |
| `IndexCore` | the index of a repository component and `ds-repo`, `ds-patch`, `ds-provides`: `buildIndex`, `rebuildIndex`, `refilterProvides`, interrupted at any step |
| `RepositoryIndex` | what the manual promises readers of an index |
| `Repository` | class `Repository`, the client of an index, on top of `IndexCore`; together they implement `RepositoryIndex` |
| `PkgUrlsFile` | class `PkgUrlsFile`: the list of URLs as its writers leave it and as it is looked up |
| `MetadataUpdate` | `OperationCore::fetchMetadata()`, several runs of `ds-update` with kills and failures of network and disk |
| `PackageData` | the programs that read the snapshot and the list of URLs, on top of `MetadataUpdate` |
| `Fetching` | `FilesFetch` and `CurlInterface`, with another process in the same directory |
| `Transaction` | from the answer of the solver to the changed system: `fillUpgradeDowngrade`, `ds-install`, `TransactionIterator`, `RpmBackEnd`, `RpmTransaction`, on top of `Fetching` |
| `CliParser` | `CliParser`, `DsInstallCliParser`, `DsPatchCliParser` |
| `ConfigFile`, `ConfigCenter` | the parser of configuration files, and what is made of the parsed values |
| `InfoFile` | `RepoParams` and `InfoFileReader`: the parameters of an index, saved by `ds-repo` and loaded by `ds-patch` |
| `Symbols` | texts as sequences of symbols, with `trim()` |
| `Startup` | the beginning of a program: the command line, then the configuration, or the info file |
| `DsInstall` | `ds-install` from the words typed to the changed system: `Startup`, then `Transaction` |
| `MCSatBuilder`, `MCSolver`, `MCSnapshot`, `MCRepository`, `MCPackageData`, `MCStartup`, `MCDsInstall` | small worlds for TLC |
| `SatBuilderProofs`, `EquationProofs`, `SolverProofs`, `DichotomyProofs`, `RepositoryProofs`, `TransactionProofs`, `SnapshotProofs`, `PackageDataProofs` | theorems, proved with TLAPS |

`PkgScope` is extended by `OsIntegrity`, that by `SatBuilder`, that by `Solver`;
`Solver` instantiates `TaskSolver` with its own variables as refinement mapping.
`Snapshot` extends `Dichotomy` and calls it as the code does: a step of
`Snapshot` starts a search, the steps of the search follow, and the next step
of `Snapshot` reads what it returned.
Operators whose names end in `_` and a phrase (`Enter_NoRewriting`) are
mutants: faulty versions of the definition named first, each of which some
property of a run rejects.

### PkgScope, OsIntegrity

`scope` is a variable that never changes: Init picks any of the worlds of a
run, so one run covers all of them. A package is a `VarId`, versions are
numbers, a relation has a name, a set of directions (the bits of
`VerDirection`) and a version. Queries return sets. The order of the vectors
the code returns depends on how `std::sort` places equal keys
(`PkgScopeMetadata::DichotomyItem` compares names only), so wherever the order
can matter the models allow every order. That a provide has one exact version
is what `PkgScope.cpp:219`, `:399` and `:468` assert. The assert
`toPos < m_pkgs.size()` of `PkgScope.cpp:96`, `:110` and `:539` is taken to hold:
no world queries the last name of its snapshot (the run `range` is about that
assert). An unknown name is a query without answers. That the set-valued
queries are what the code answers is what `AnswerIsExact` of `Snapshot` says.

### SatBuilder

| Code | Model |
|---|---|
| entries of `RefCountedEntries`, `germ`, `sat`, `reconstruct`, `replacementFor` | variables of the same names, `hasEntry` for the non-NULL pointers |
| `oldState` and `newState` of an entry during the build | `isInstalled`: nothing changes them before the solving |
| `m_pending` | `pending`, a sequence used as a stack |
| `m_userTaskInstall`, `m_userTaskRemove` | `userTaskInstall`, `userTaskRemove` |
| the C++ call stack | `stack`, frames with the package, the place in the function and what is left of the loop |
| a clause, `RefCountedEntry::sat` | a set of literals, a set of clauses |
| `TaskException`, a failed assert | `phase = "thrown"` or `"abort"`, with the reason or the line in `failure` |

Asserts are live in this program: `configure.in` does not define `NDEBUG`. A
visit is split at its recursive calls and loop iterations: `Enter` (asserts,
entry, germ flag), `Reconstruct` (one recursive call), `BeginInstall`,
`BlockOtherVersions`, `Require`, `Conflict`, `InstalledConflict`, and
`BeginRemove`, `Dependent`, `Replace`. Left out because nothing can reach it:
`onUserItemToInstall` behind `byProvidesPriorityList()`, which always returns
the first candidate (`ConfigCenter.h:114`).

`StrayLookup` models line 488, where the index of the conflict is used for the
vector of matching packages: any member may be the one looked up, and behind
the end of the vector the comparison may say anything.

### Solver

`at` is the place in `doMainWork()`. `solveSat(fixed)` is the set of new states
libminisat may produce; it gives values to the variables that occur in some
clause and leaves other entries as they are. A filter pass is one step:
`makeAmbiguousMarks()` reads nothing that a pass writes for another entry, so
the order of entries does not matter. Which of several equally good literals
of a clause is kept depends on its position and is left open; two equal clauses
of one entry count as one. `Bfs` is the least set closed under unmarked
literals. `install` and `remove` are the lists `solve()` returns.

### TaskSolver

`Acceptable(I, R)`: what is installed was not there, what is removed was; every
item of the task is met by some package of the new system and no name to remove
is left; if no require was broken none is now; packages that are added have none
of their conflicts with and no other version of themselves in the new system.
Conflicts of packages that were there before are not promised: see the run
`rival`.

### Dichotomy, Snapshot

| Code | Model |
|---|---|
| the vector, value and positions of `findSingle()` and `findMultiple()` | `vec`, `value`, `l`, `r`, `fromPos`, `toPos`, `found`; `at` is the place in the function |
| `struct Snapshot` | `pkgNames`, `pkgs`, `relations` |
| `PkgId`, `VarId`, `requiresPos` and `requiresCount` | positions from 0, as in the code; a span with `pos` and `count` |
| version, release, build time | one number `ver`: they are compared together and for equality only |
| `toInhanceWith`, the iterator over installed packages | `enhanceWith`, `todo` |
| `m_revMapProvides`, `m_revMapInstalledRequires` | `revMapProvides`, `revMapInstalledRequires` |
| the two programs and the place in them | `stage` |

A name is a number, since only the order of names matters. The order of
packages of one name after `std::sort` is left open (`Sortings`); the reverse
maps are used as sets of answers, so their items are sorted in one way and kept
once. `ListsAssumption` says what the lists are made of, and that librpm names a
package of one name, version, release and build time once; the code counts on
it: two that differ in the epoch only would become two entries that
`theSameVersion()` cannot tell apart. Searches of
`fillWithhInstalledPackages()` and of the queries run step by step; those inside
of the bodies of `rearrangeNames()` and `enhance()` are taken by their result.
The epoch is not modelled, as nothing here compares it. Conflicts and obsoletes
are registered, renumbered and stored by the functions that do it for requires
and provides, and are left out. Saving and loading keep the three vectors and
clear the flags.

### IndexCore, Repository, RepositoryIndex

| Code | Model |
|---|---|
| the files `info`, `rpms.data`, `rpms.descr.data`, `rpms.filelist.data`, `srpms.data`, `srpms.descr.data`, `.rpms.complete.data`, `md5sum.txt` and the temporary file | `disk`, from `"info"`, `"packages"`, `"descr"`, `"filelist"`, `"sources"`, `"srcdescr"`, `"complete"`, `"md5"`, `"tmp"` (those that exist) to their content |
| a list | a function from the packages it names to the names its sections provide; lists without provides map to nothing |
| `filterProvidesByRefs`, `filterProvidesByDirs` | `params.byRefs`, `params.byDirs` with `FileDirs`, the files in these directories |
| `Md5File::items` in memory, `md5sum.txt` | `sums`, `disk["md5"]`, from file names to the content the sum was taken of |
| `toAdd` and `toRemove`; the packages found by `ds-repo` | `add`, `del` |
| `externalProvidesRefs`, `internalProvidesRefs` (and `...References`) | `ext`, `refs` |
| the place in a program | `pc`, and `pos` for the list that `rebuildIndex()` is at |
| the client's progress, `m_checksums` | `stage`, `infoContent`, `m_checksums`, `list` |

A step is one operation on the directory: create, write, unlink, move. A
program that is interrupted, or stops at a missing file, undoes nothing. The
programs run one at a time, as one administrator uses them; they take no locks.
The client takes its steps in between. `ds-patch --provides` is a patch followed
by a refilter. A package is its file name: the same name means the same
content. Compression is left out; it renames files and changes nothing else.
References that `collectRefs()` reads from other components are an input, taken
from `ExternalRefs`.

`RepositoryIndex` knows the list a client can load and the list released last.
The first is, by the refinement mapping, the packages list on the disk if the
file of sums has entries for it and for the info file and both match
(`Offered`). From one release to the next either the set of packages changes or
their provides do, never both (`admin.tex`, lines 184 and 200). A list may
disappear while a program works, and stay away when it was interrupted.

### PkgUrlsFile, MetadataUpdate, PackageData

| Code | Model |
|---|---|
| the temporary directory, the list of URLs, the snapshot file | `tmp`, `urls`, `snapshot`; `NoFile` when there is none |
| the packages list of a repository, its check sum | a sequence of packages; the list the sum was taken of |
| `urlToFileName()`, `isLocalFileUrl()` | `layout.temp`, `layout.local`: two URLs may be given the same name |
| the place in `fetchMetadata()` and what it calls | `pc`, with `k` for the repository |
| `info` and `checksums` of a `Repository` | `sums` |
| the loop over `Directory::Iterator` | `entries`, the names the enumeration still has |
| the descriptor of `processFile()` | `fd`, the inode, numbered by the run that made the file |
| a reader at the packages list | `rest` |
| the stream of `PkgUrlsFile`, that of `saveToFile()` | `urlsPos`, `k` as positions; `bad`, the streams that have failed |
| `loadFromFile()`, `readUrls()` of another program | `at`, `parts`, `found` |

A step is one system call or one section of a list. Each of up to `MaxRuns` runs
goes through the function on its own; a killed one leaves its files as they are.
What is written goes to the position the writer has reached, not to the end of
the file: two writers overwrite each other and leave holes (`WriteAt`). A line of
URLs is written at once, as `addPkg()` flushes each; a snapshot is written in
three parts, or one if it has no packages, so a reader and a crash fall in
between. A stream that fails drops all that follows and nobody asks it. A
download is the creation of a file and one write, to the file created even when
that has been unlinked since. `verifyItem()` reads the file and
`createReader()` opens it again. `ensureExists()` asks, then calls `mkdir()`.
Repositories change their lists at any time (`Publish`); a client that loads
halves of two generations is the matter of `Repository`, so here info file and
sums are one step.

`Dirs`, `Lines` and `Sects` are what the directory, the file of URLs and the
snapshot may hold. `ReposAssumption` says that every repository offers a list at
any time, `NothingAssumption` that a missing file, a hole and a missing URL are
none of these values.

`PackageData` adds a reader: `transaction()`, `generateSat()`, `closure()` or a
query, one after another. `loadFromFile()` stops at an assert when the file ends
too early (`InlineIO.h`). The answer of the solver is taken to be what was asked
for and exists; that is the matter of `TaskSolver`.

### Fetching, Transaction

| Code | Model |
|---|---|
| `dir.pkg-cache` | `cache`, from file names to what is there: nothing, a part, a part another process is writing, a whole package, a page of the server |
| `m_currentPartNumber`, `m_partCount`, `m_lastPartPercents`, `m_lastTotalPercents` | `partNumber`, `partCount`, `lastPart`, `lastTotal` |
| `fetchMap` | `fetchMap`, the packages whose files are still to be fetched |
| the vectors and maps of `fillUpgradeDowngrade()` and of `TransactionIterator` | `toInstall`, `toRemove`, `toUpgrade`, `toDowngrade`; `left` is its loop |
| `m_filesInstall`, `m_filesUpgrade`, `m_filesDowngrade` | `files`, with `CacheFile` or `LocalFile` |
| librpm: the transaction set, the database | `elements`, `system` (external: what the code gives to them, and the outcomes it tests for) |
| `throw 0`, exceptions, `exit()` and returns | `result` |

`Answers(S)` is what `TaskSolver` promises without the relations, so the pairs
of removed and installed packages are those a real answer can have. Which
removal is paired with which installation depends on the order of vectors and
is left open, as is which file is fetched first (the map is ordered by URL).
A file name tells name and version (`BaseAssumption`): two builds of a version
share one. The server may answer with a page that says there is no such file,
which is taken for the file: `CURLOPT_FAILONERROR` is not set
(`CurlInterface.cpp`). The progress is computed with the integer division of
`FilesFetch.cpp:59`. A file is opened by name twice, by `RpmTransaction` and by
librpm while it runs; in between, another `ds-install` may change it
(`OtherInstall`). While a transaction has not read its URLs, `ds-update` may
replace the list (`UpdateUrls`).

`DsInstall` puts `Startup` in front: `mode` is what the keys stand for
(`ModeTyped`, the first of `--urls`, `--dry-run` and `--files` that
`doMainWork()` asks for), and a step of `Transaction` needs command line and
configuration to be read, something to install and no `--sat` (`IsTransaction`).
What the solver makes of the items is left open here (`Answers`); that is the
subject of `Solver`.

### CliParser, ConfigFile, ConfigCenter, InfoFile, Startup

| Code | Model |
|---|---|
| `m_params`, `clusterNum` | `words`, `clusters` (their sizes) |
| `mode` of `parse()` | `cliMode` |
| `recognizeCluster()`, `parseCluster()` and those of the derived classes | `Extra`, `Misses`, `...Says`, by `program` |
| files, items and lists a parser collects | `understood`, in the order they come |
| `ConfigFile`'s `m_path`, `m_sectLevel`, `m_sectArg`, `m_paramValue`, `m_assignMode` | `path`, `sectLevel`, `sectArg`, `paramValue`, `adding` |
| the state constants `SECT_...`, `PARAM_...` | `state` |
| `ConfRoot` | `core`, `repo`, `provide` |
| `m_stringValues`, `m_stringListValues`, `m_booleanValues` | `table`: entries with the vector, the index and the size the vector had when the address was taken |
| `RepoParams` of `ds-repo` and of `ds-patch` | `given`, `loaded` |
| the states and the locals of `parseLine()` | `infoState`, `infoName`, `infoValue`; `infoRead` is the map `read()` fills |

A symbol of a line is a character or a word, and a name is a sequence of words
of `Ident` and of `"+"`; characters of one word are never treated differently. A
vector may move whenever it grows: a value written by an address taken at another
size goes nowhere. Numbers have no parameters (`m_uintValues` stays
empty). Errors end the reading; their positions and texts are left out. The
fragments of the configuration directory are read in the order of their names after the main
file. A word behind `--add-list` or `--del-list` stands for the lines of the file
it names.

## 3. Runs

Passing:

* **solver** (`MCSolver.cfg`, 2.3 million states). `SolverSpec` on worlds of two
  kinds. In the first the equation is the subject: one name with two versions, two
  more packages and one provided name; requires by name, by provide, by version,
  circular and unmet; conflicts, with germs of uninstalled packages. In the second
  the rounds are: two names with two versions, conflicts that can be solved by an
  upgrade, upgrades that need each other. Thirteen tasks.
  `ModelsMeetRequires` is the justification of the germ
  optimisation: from a system without broken requires, no assignment that
  satisfies the finished equation leaves one. `ModelsMeetNewConflicts` is the same
  for conflicts of packages that are added. `LiteralsWillBeVisited` and
  `NoInternalAssertFails` say that the table never refers to something
  forgotten, `UserTaskHasEntries` that the reduced task fits the table
  `solveSat()` gets, `BuildEnds` that the recursion and `m_pending` run dry.
  `SolverAssertsHold` covers the asserts of `doMainWork()`,
  `UpdatesReplaceOldVersions` relates the updates of all rounds to the final
  answer, `ImplementsTaskSolver` is the refinement, `SolverEnds` termination.
  `TypeOK` and `SolverTypeOK` are the type invariants of the two modules.

* **snapshot** (`MCSnapshot.cfg`, 780 000 states). Up to three packages of the
  repositories, in every order and with duplicates, up to two installed ones,
  six names, files that are required by packages read before, by packages added
  along with them and by nobody; then any name is queried. `PackagesAreKept`
  follows each package through two renumberings, `MarkedAreInstalled` says that
  what the solver takes for the system is the system,
  `RequiredFilesAreProvided` is the comment of `PkgSnapshot.cpp:327-333`,
  `SearchedIsSorted` what all searches rely on, `AnswerIsExact` what they are
  for, `FindsExactlyThePlaces` and `SearchStaysInside` are the contract of the
  search in the vectors that occur, `QueryEnds` termination. `SnapshotTypeOK`
  is the type invariant.

* **index** (`MCRepository.cfg`, 3.3 million states). Three packages, one of them
  a source package, a provided file; each filter on and off; three runs of the
  programs in any order, one interruption at any step, one client at any time.
  `ImplementsRepositoryIndex` is the refinement. `ClientLoadsPublished` and
  `QuietClientAccepts` are the two sides of the check sums: nothing unreleased
  or outdated is loaded, and what a program left can be loaded.
  `DamageIsNoticed` says that matching sums mean lists that agree,
  `ReferencedProvidesAreListed` that the filter never takes away what a listed
  package refers to. `IndexTypeOK` is the type invariant.

* **update** (`MCPackageData.cfg`, 800 000 states). Two repositories, one of them
  empty at first, both with a package of the same name; remote with two
  temporary files, remote with one for both, or one of them local; three runs of
  `ds-update` with one overlap, kill or failure; any reader at any time.
  `QuietReaderIsServed` says that a reader that is not overtaken gets one whole
  offer of the repositories (a list of each, and all packages of these lists)
  with proper URLs, or stops, whatever earlier runs were killed or failed at;
  `UpdateRepairs` that the next good run repairs what
  they left; `UrlsPointToPublished` that no URL leads to a repository that never
  had the package, even with one temporary file for two lists: the sums catch
  it; `CalmUpdateSucceeds` that a run finds its way through every directory
  another one left and cleans up.
  Readers that are overtaken get a mixture of generations, and overlapping runs
  can leave one: that is why `quiet`, `disturbed` and `alone` are there.

* **install** (`MCDsInstall.cfg`, 3.7 million states). `DsInstallSpec`: all command
  lines of up to four words for each class of parser; all lines of up to five
  symbols and all beginnings of a section; files with two repositories and a
  provide in pieces; lists of directories of up to four symbols, regular
  expressions and user parameters of `ds-repo`. When `ds-install` has something to
  install, the transaction follows: two versions of a
  package, two builds of the later one, another package; six systems with every
  answer for them, `--urls`, `--dry-run`, `--files` or none, five lists of URLs of
  which `ds-update` may change one for another, another process in the cache.

  Of the beginning: `CommandLineIsUnderstood` compares the two passes of the parser
  with the usage read in one; what it leaves out is said below.
  `LinesAreReadAsWritten` compares the states of the parser of lines with
  what a line is, and `ConfigIsAsWritten` what a program begins to work with with
  what is written, in whatever order and pieces, over several files.
  `ParametersComeBack` says that the parameters of `ds-repo` reach `ds-patch`
  through the info file, if they are `Plain`: no backslash in them, and names of
  user parameters that are names to the reader too.

  Of the rest: `PairingLosesNothing`
  and `AnswerIsCarriedOut` follow an answer through the pairs to the system:
  a removal that is paired with another build of the same version is dropped, and
  what librpm then refuses is not carried out; a removal by name takes all
  versions of it. `FilesMatchAnswer` says that each package is installed from its
  own file unless somebody else is at the cache, `ChangesComeLast` that nothing
  is changed before the user agreed and all files are there, `ProgressGrows`
  that the percentages never go back.

Finding something (each checks one property, stated by the code or the manual,
that the code breaks; see `findings` in `PROJECT.json`):

* **remove**: a package of which another version is available cannot be
  removed: `toBeRemoved()` visits the other version as a replacement, although
  the task keeps it out, and the assert of `Solver.cpp:367` fails.
* **asked**: because of line 488 a package the task asks for is put into
  `m_pending`, and the assert of `Solver.cpp:529` fails.
* **rival**: because of the test of line 519 an installed package that conflicts
  with a new one gets no clause against it.
* **range**: `PkgScope.cpp:96`, `:110` and `:539` assert that the end of a range
  is a valid position; for the last name that packages of the snapshot have it
  is the position behind the last package, and the query ends the program.
* **provides**: `ds-provides`, which the manual says repairs the set of provides,
  takes references from binary packages only, where `ds-repo` takes them from
  source packages as well: run on a fresh index it drops a provide. Without
  filtering by references it would also apply the directories to provides that
  are no files (`IndexCore.cpp:760`, unlike `PkgSection.cpp:62-74`), but there
  the manual does not ask for it to be run.
* **params**: the manual (`admin.tex:179-180`) says that the parameters of `ds-repo`
  are saved in the info file and loaded automatically when the index changes
  (`ParametersAreLoaded`). A backslash is saved as two (`RepoParams.cpp:111`), and the
  reader accepts only a number sign behind one (`InfoFileReader.cpp:144`). An index
  built with `-nr` and such an expression (`\.`, for example), or with a user
  parameter whose name has a sign like `.` or is empty, can neither be patched nor
  loaded by a client. `ParametersComeBack` is the same promise for the parameters for
  which it is kept; it would hold of a repaired program as well.
* **dashes**: files are the arguments "mentioned after "--" sequence"
  (`CliParser.h:225`, `FilesAreBehindDashes`), yet a second `--` is in no list. The
  first pass counts it among the words behind the first (`CliParser.cpp:167`), the
  second returns at every `--` (`CliParser.cpp:184`). `Usage`, the reference that
  `CommandLineIsUnderstood` is about, has it as a name, and the property leaves out
  the lines with a second `--`, and the lines of `ds-install` with a relation whose
  left side, behind `--`, is a key or another `--`, since its first pass looks
  neither at its mode nor at `--` (`ds-install.cpp:39-50`).

**Bounds.** Every run bounds only the world: the packages, their relations and
the tasks. Nothing else is bounded; stack and `m_pending` grow as they do in
the code. The worlds are large enough for what the properties are about: in
`solver` germs are created, turned into entries and rewritten
by visits of both kinds, requires are left out and written later, clauses with
several alternatives, one-literal clauses of both signs and every exception
occur; there are filter passes that roll back, update rounds that
follow on another round, that fail, replacements that are not installable, and
equations without a solution. Recursion of `reconstruct()` deeper than two
calls does not occur in these worlds.

`MaxRuns` and `MaxCrashes` bound what happens to an index: three runs are enough
for a build, a patch and a repair after either, and for a program that works on
what an interrupted one left. `Selections` bounds what is added and removed: one
package, another, all, none, in any combination. `RepositoryProofs` has no bound.

In `update`, `MaxRuns` is three: one run to leave something, one to fall over it or
to overlap with it, one to repair it. `MaxFaults` is one, an overlap counting as
one; two were checked once (7.9 million states). At most two runs overlap, and a
reader runs beside one run at most. `PackageDataProofs` needs none of the numbers. In `install`, `Blocks` is two, so a file has
a part that is not whole, and a transfer may stop in the middle. `Tasks` bounds the
lines that are worked out for every system: one for each mode. With others the
system is empty and so is the answer; what was typed makes no other difference
than the mode (`ModeTyped`). In `install` also,
four words hold a relation with its two sides and a word around it or a list
between keys, and five symbols every state of the parser with a blank or a wrong
symbol before and behind.

In `snapshot`, names move in both renumberings, three equal packages of one name
and a duplicate that is not next to its original occur, and searches hit in the
middle, at both ends and not at all.

**Fairness.** `Spec`, `SolverSpec` and `SnapshotSpec` assume weak fairness of the whole
next-state relation: the solver is one thread that waits for nothing, so it
keeps making steps, and which step is next is decided by the data. Deadlock is
not checked, as the function returns. `RepositorySpec` needs no fairness, as all
its properties are safety properties; it may stop when the bounds are reached.
The same holds of `PackageDataSpec`, `TransactionSpec`, `StartupSpec` and `DsInstallSpec`: a program
ends, fails or is killed, and none of the properties asks it to go on.

## 4. Proofs

`SatBuilderProofs` proves for all packages, versions, scopes and tasks, from
`BuilderAssumption` only (finitely many packages, versions are numbers, scopes
and tasks of the right type, `BadVarId` no package):

| Theorem | Says |
|---|---|
| `TypeCorrect` | `Spec => []TypeOK` |
| `InternalAssertsHold` | the asserts of `Solver.cpp:188`, `:255` and `:528` never fail |
| `NoLiteralIsForgotten` | every literal of a written clause belongs to a package that is visited, pending or about to be entered |
| `UserTaskIsKept` | what the reduced task fixes has an entry and is a change |

The argument. `TypeOK` is inductive once the stack is known to hold only
packages with the right state. The next three facts hold each other up, and
`EquationInv` is their conjunction: visits on the stack past their entry have a
full entry; lists to rewrite name full entries only, so `reconstruct()` never
meets a germ; literals are visited or to be visited, so when stack and
`m_pending` are empty every literal has a full entry, and `ensureSatCorrect()`
returns true. A full entry never becomes a germ again, which is what keeps the
parts true. `UserTaskInv` adds that a task variable with an entry after
`onPending()` is not a germ: germs of packages to install or to remove are never
made, as `toBeInstalled()` and `toBeRemoved()` leave them out or have visited
them. TLC checked both invariants on the worlds of the run `solver` before
they were proved. These theorems are about `Spec`, the builder alone; every step
`SolverSpec` makes of it is one of `Spec`, so `SolverProofs` uses them for the whole
of `solve()` (`SolverBuilds`).

Behind `NoInternalAssertFails`, `BuildSteps` gives the type of every variable after
every action, so that later modules cite one lemma instead of the actions.

`EquationProofs` goes from the shape of the equation to what it means, for the
same scopes and tasks:

| Theorem | Says |
|---|---|
| `EquationIsComplete`, `EquationIsBuilt` | no clause is missing at the end of `build()`, and no germ is left |
| `RequiresAreMet` | `Spec => []ModelsMeetRequires` |
| `NewConflictsAreMet` | `Spec => []ModelsMeetNewConflicts` |

The argument. The table has no clauses for a package that is only expected to
stay as it is; what must be shown is that this never matters. `WritingInv`
follows one package through `build()`: a visit writes each clause or leaves it
out because a germ lists the package; when the germ is visited after all, the
package is on the list of the call before the germ is a full entry. So every
package with a full entry has all the clauses it needs, up to germs that are
still germs (`Written`), or waits to be rewritten (`ToBeRewritten`), or is on the
stack (`WrittenUpTo`). At the end nobody waits, the literals of clauses all have
full entries (`EquationInv`), and no germ is in the table: a package without an
entry occurs in no clause and cannot change. That is `BuiltInv`. From it, a system
that satisfies the equation meets the requires and the new conflicts by looking
at the clause that was written for each. `TaskRemovalInv` is the second loop of
`build()`, for the packages the task removes.

`SolverProofs` proves about `doMainWork()`, for the same scopes and tasks and
whatever solutions libminisat returns:

| Theorem | Says |
|---|---|
| `SolverTypeCorrect` | `SolverSpec => []SolverTypeOK` |
| `AssertsOfSolverHold` | the asserts of `Solver.cpp:691`, `:695`, `:719`, `:725` and `:730` never fail |
| `UpdatesAreInstalled` | `SolverSpec => []UpdatesReplaceOldVersions` |
| `SolverMeetsContract` | `SolverSpec => ImplementsTaskSolver`: what `solve()` returns is acceptable |

The argument. The heart is that a pass of `filterSolution()` leaves a solution a
solution, though it looks at no clause as a whole. A pass rolls back the changed
packages the search does not reach from the task and the updates. A clause of a
package that is unchanged afterwards holds because of what it says of the package
itself (`ClauseShape`: every clause of an entry begins with the literal that the
package stays as it is). One of a package that is still changed has a true
literal without a mark (`Supported`), and the package of that literal is either
an unchanged one or one the search reaches from the first, so the pass leaves
the literal true. `SolverInv` carries this through the rounds: the new states are
always a solution with all the updates, a marked entry is an unchanged one, and an
update that can be solved once can be solved again. `AskedInv` and
`ReplacementInv` say what `build()` hands over beyond the equation: the VarIds of
the task stand for what the user asked for, also those it dropped, and
`replacementFor` names an installed package of the same name. With
`RequiresAreMet` and `NewConflictsAreMet` an answer is then `Acceptable`
(`AnswerIsAcceptable`), and every step of `solve()` is the one step of `TaskSolver`
or a stutter.

`DichotomyProofs` proves, for every sorted vector of integers and every value,
from no assumption:

| Theorem | Says |
|---|---|
| `SearchIsRight` | `SearchSpec => []FindsExactlyThePlaces`: found or not, one place, the range of exactly all places |
| `SearchIsSafe` | `SearchSpec => []SearchStaysInside`: the asserts of `utils.h` hold, no unsigned position runs below 0 |

The argument. `SearchInv` says that every place of the value lies between `l`
and `r` while the loop halves, that `adjustBounds()` has only places between
`fromPos` and `toPos` (or has overstepped by one), and that they are exactly the
places when it returns. `CallStartsSearch` and `SearchKeepsInv` are stated
for any step that starts or continues a search, so that they can be cited for
searches `Snapshot` starts.

`SnapshotProofs` proves, for all lists of packages of the repositories and of the
system, every name asked for and every order `std::sort` may choose, from
`ListsAssumption` only:

| Theorem | Says |
|---|---|
| `SnapshotTyped` | `SnapshotSpec => []SnapshotTypeOK`: PkgIds have names, entries find their relations |
| `SnapshotSearchesSorted` | `SnapshotSpec => []SearchedIsSorted` |
| `SnapshotSearchIsRight` | the contract of the search, for the searches these programs make |
| `SnapshotKeepsPackages` | `SnapshotSpec => []PackagesAreKept` |
| `SnapshotMarksInstalled` | `SnapshotSpec => []MarkedAreInstalled` |
| `SnapshotProvidesFiles` | `SnapshotSpec => []RequiredFilesAreProvided` |
| `AnswersAreExact` | `SnapshotSpec => []AnswerIsExact` |

The argument. What is stored is numbers, what it means is names, and both
renumberings change every number. So the proofs look at `says`: the entries with
each PkgId replaced by its name and each span by the relations it leads to. A
renumbering leaves `says` as it is (every name has one place among the old names
and one among the new), a sort permutes it, merging drops members that are the
same as another (`Covers`), and adding appends one. Everything about packages
is then an invariant of `says`, which no number can disturb.

`TypesInv` (types, and `Filled`: every number leads somewhere), `OrderInv` (names in
order once they are all known, entries in order whenever they are searched),
`MapsInv` (a reverse map has exactly the pairs the relations have), `QueryInv`
(which vector is searched, and what of the answer is there) and `SearchInv` of
`DichotomyProofs` make `SearchedInv`, which gives the types, the order and, with
the contract of the search, the answers. `KeptInv` says that each entry tells
what a package that was read tells. For the marks, `QueueInv` follows the installed
packages through `todo` and `enhanceWith`, each in one of them or settled, and
`MarkInv` says that the entries are all different, the marked ones are those of
the settled packages and those to add have none. It needs all of `SearchedInv`:
that a package is looked up in the right range is the contract of the search, and
that merging leaves one entry of each is due to the order of the entries, as
`removeEqualPkgs()` compares inside of a run of equal PkgIds only. `FilesInv`
says that a package that was added provides each of its files with a known name;
it is preserved because `enhance()` makes all names known before it adds the first
package.

`RepositoryProofs` proves, for all packages, parameters, references and any
number of runs and interruptions (`PackagesAssumption` only: source packages and
selections are packages, the bounds are numbers):

| Theorem | Says |
|---|---|
| `InvHolds` | sums on the disk with entries for the packages list and the info file are those of the last release |
| `LoadedIsPublished` | `RepositorySpec => []ClientLoadsPublished` |
| `IndexTypeCorrect` | `RepositorySpec => []IndexTypeOK` |
| `DamageIsAlwaysNoticed` | `RepositorySpec => []DamageIsNoticed` |
| `ReferencedAreListed` | `RepositorySpec => []ReferencedProvidesAreListed` |
| `QuietClientIsServed` | `RepositorySpec => []QuietClientAccepts` |
| `IndexIsImplemented` | `RepositorySpec => ImplementsRepositoryIndex`: every step is one of `RepositoryIndex`, or a stutter |

The argument, first for what a client loads. Sums are taken when the packages
list is on the disk and nothing
changes it until they are written (`PackagesExist`, `SumsAreFresh`): in a patch
it is the first of the lists, and no later step unlinks it. So a file of sums
that vouches for a list is written together with a release of this list
(`SumsAreReleased`); it is emptied before another one is written. A client goes
on only with such sums (`ClientHasReleasedSums`), and later releases do not take
earlier ones away.

The other theorems need to know the whole directory at every step of every
program: `WholeInv`. `SumsInv` says that a program has the sums of the disk in
memory until it has emptied the file, and that sums have entries for all files,
or none for the info file, so a client has no use for them. `ListsInv` says which
packages each list names: the same ones after `ds-repo`, and in `ds-patch` the old
ones or the new ones as the program has come to the list or not; a list that is
missing because a program was interrupted there never comes back with a matching
sum. `CompleteInv` says what the lists provide, `ChangeInv` how the list about to
be released differs from the last one, in packages or in provides but never in
both, and `CalmInv` that nothing is missing if nothing was interrupted. With
them each step of a program maps to a release, to the loss of the list or to
nothing (`Offered` does not change).

`TransactionProofs` proves, for any packages, answer, files of URLs, order of
pairing and choice among several removed packages of a name, and whatever
another process does in the cache:

| Theorem | Says |
|---|---|
| `PairingIsRight` | `TransactionSpec => []PairingLosesNothing` |
| `FilesAreTheirOwn` | `TransactionSpec => []FilesMatchAnswer` |
| `SystemChangesLast` | `TransactionSpec => ChangesComeLast` |
| `TheAnswerIsCarriedOut` | `TransactionSpec => []AnswerIsCarriedOut` |
| `PercentagesGrow` | `TransactionSpec => ProgressGrows` |

The assumptions: versions are integers and installed packages are packages
(`VerAssumption`), a file name tells the name and the version (`BaseAssumption`), a
file of URLs has no other kinds of URLs than `UrlFilesAssumption` names, a file
that is not there is not a package (`AbsentAssumption`), there are finitely many
packages (`PkgsAssumption`) and a file has a block (`BlocksAssumption`).

The argument for the pairing. `PairingLosesNothing` alone is not inductive: a
removal is dropped
when a package of the same version is installed over it, and a later pairing
could take that package out of `toInstall` again. `DroppedRemovals` says that
this package has been seen, so it is not among the `left` ones that a pairing may
take; `ListsOfAnswer` adds that every package in `left` is still to be installed,
so none of them is in a map yet. Only `Pair` and `Unpaired` change these lists
(`OthersKeepTask`).

For the files, packages of an answer have different names, hence different
files (`OwnFiles`), so what is fetched for one does not spoil another:
`ArrivedInv` says that without another process at the cache every file that is
neither to be fetched nor being fetched is there, `CacheInv` that a whole package
is in a file of its own base name only, whoever fetched it. `FilesInv` and
`AddInv` say what rpm is told of these files and what to erase. For the end,
`ErasedAreGone`: what is erased is every installed package of a name that is
removed. The case to look at is a removal that was dropped for another build of the
same version; it is the absence of problems, tested by librpm, from which it
follows that the package is erased nevertheless.

The theorems are about `TransactionSpec`. The run `install` checks the same properties
under `DsInstallSpec`, of which the steps behind `transaction()` are those of
`TransactionNext`, from states of `TransactionInit` with the mode the words stand for.

For the percentages, `CountInv` says that the parts done, in work and to be done
add up, and `ToldInv` that no more was told than has come: the share of a file is
rounded down once for all, so the shares never exceed 100, and the part told of
a file never exceeds its share.

`PackageDataProofs` proves, for any repositories, lists, layouts of their URLs, number
of runs, kills and faults, from `ReposAssumption`, `NothingAssumption` and
`RunsAssumption`:

| Theorem | Says |
|---|---|
| `PackageDataIsInductive` | `PackageDataSpec => []PackageDataInv`, with the type of every variable |
| `NoWrongUrl` | `PackageDataSpec => []UrlsPointToPublished` |
| `CalmRunsEndWell` | `PackageDataSpec => []CalmUpdateSucceeds` |
| `QuietReaders` | `PackageDataSpec => []QuietReaderIsServed` |
| `UpdatesRepair` | `PackageDataSpec => []UpdateRepairs` |

The argument. Nothing is promised of runs that overlap, so the invariant follows
the runs that are alone, and must not lose track of what others have left.
`OrderInv` says when a run is the only one: a run that is alone at its end has had
no other beside it since it started, and if it is the last one that started,
nobody has written after it. `WorkInv` follows such a run: what it has collected
is what the first repositories offer together, each with one of its lists
(`Collected`), since a list that passes `Verify` has the sum of a list the
repository once had; and the files it has opened are its own, so its position in
the file of URLs is behind the end, every package it has collected has a line, and
the snapshot is the beginning of one of these packages (`Written`). A stream that
has failed leaves a beginning, never anything else. `FilesInv` keeps of this what
holds when the run is over, killed or failed: the file of URLs has good lines, the
snapshot is a beginning of an offer, and both are whole if the run has ended
well. It holds while the next run leaves the files alone, and the next run
truncates them before it writes.

The URLs need one more thing when runs overlap: a run may open a temporary file that
another one has replaced after the sum was verified. Whatever is in it is a list
of a repository that has that file name (`TmpInv`); so if names are distinct, it
is one of the right repository, though not the one that was verified. Only with
one file for two repositories and overlapping runs it may be wrong, and that is
what the property excludes.

`CalmInv` is what a run that nothing disturbs knows of the temporary directory:
the enumeration has all that is there, every file before the current one has the
list whose sum it holds, and at the end it is empty. `ReaderInv` is what a reader
beside no run has taken: the parts it has read are those of the file, and the URLs
what is in the list. It stays as no run can start without the reader losing
`quiet`.

`QuietReaderIsServed` and `UpdateRepairs` are then the meeting of the two sides: parts of a
beginning of an offer that say themselves how many they are make up the offer,
and a package that has a line is not without a URL (`UrlInFacts`, on the last line
that `readUrls()` takes). TLC checked each part of `PackageDataInv` on the worlds
of the run `update`, with two faults too, before it was proved.

Only model-checked: `Startup` and `DsInstall`, and termination (`BuildEnds`,
`SolverEnds`, `QueryEnds`). Liveness is beyond TLAPS here; `CliParser` and
`ConfigCenter` have recursive operators in their reference definitions, which
the provers cannot use, and `ParametersComeBack` and `LinesAreReadAsWritten` are
about what a loop over a text computes, which takes induction over the text.

## 5. Plan

Done: all modules of section 2, and the theorems of section 4. Next: the reader of the
sections of a list (`TextFormatSectionReader`, `PkgSection`).

## 6. Not modelled

* Parsing of index sections, gzip streams and RPM headers, MD5 itself, regular
  expressions: their results are inputs of the models.
* Messages, progress on the screen, logging, wrappers of system calls.
* `dumpSat()`, which repeats `doMainWork()` and prints; `ds-require`, `ds-snapshot`
  and the other query programs beyond what they load (`PackageData`).
* Obsoletes, which the solver does not look at (`Solver.cpp:608`) and librpm
  applies by itself; URLs in a task, which the solver does not read either.
* libminisat, librpm and libcurl are external: the models have what the code
  gives them and every outcome it distinguishes.
* `rpmtrans`, a program of its own that nothing calls.

## 7. Behaviour worth knowing

Found while modelling; the models have it, and no document promises otherwise
unless one is named.

* Sources of references and external provides of `ds-repo` are not saved in the info
  file.
* A query (`ds-require`, for example) ends at the assert of `strToPkgId()` if
  `ds-update` has left a snapshot without packages and something is installed
  (`OperationCore.cpp:52`, reached from `:354`, `:394` and `:410`):
  only `transaction()` and `generateSat()` look whether there are packages. `Answer` of `PackageData`
  has it; `UpdateRepairs` excepts it, and `QuietReaderIsServed` says nothing of it.
* A reader that `ds-update` overtakes may load a mixture of two generations, as
  may one after two overlapping runs; the snapshot has one control value at its
  beginning only.
* A transaction that librpm refuses or fails in is a success to the program
  (`RpmTransaction.cpp:88`); `AbstractPkgBackEnd.h:182` asks for zero.
* A removal paired with an installation of the same version and another build
  time is dropped (`OperationCore.cpp:101`), and librpm then finds the package
  installed.
* A package to downgrade to is looked for in the cache even when its URL is local
  (`TransactionIterator.cpp:139` tests the file name, not the URL).
* `rmdir()` failing after the snapshot was saved makes `ds-update` report a failure.
* `dir.pkg-cache` is the one directory whose blanks are not trimmed
  (`ConfigCenter.cpp:114`).
* `name+=value` without a blank assigns to a parameter called `name+`, as `+` is a
  character of names (`ConfigFile.cpp:46`).
* The list of files to read ahead is not split; items of lists may be blank.
* An empty word on a command line ends the program at the assert of
  `CliParser.cpp:207`, also in `ds-remove`, which means to ignore it.
* The first pass of `ds-install` does not know `--`: `-- a > 1` is a relation to it.
