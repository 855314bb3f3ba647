----------------------------- MODULE IndexCore -----------------------------
(***************************************************************************)
(* The index of one component of a repository and the three programs that  *)
(* write it: ds-repo (buildIndex), ds-patch (rebuildIndex) and ds-provides *)
(* (refilterProvides), one at a time, each of which may be interrupted     *)
(* between any two of its steps or stop at a file that is missing.         *)
(*                                                                         *)
(* A file is a function: a list maps the packages it names to the names    *)
(* its section provides (nothing, in lists where no provides are kept),    *)
(* the check sums map a file name to the content they were taken from (two *)
(* contents never have one sum), the info file holds the parameters.  What *)
(* a package requires is written to every list unchanged and therefore a   *)
(* constant, taken after the exclusion by regular expressions.  Writing a  *)
(* file takes two steps, as an interrupted program leaves an empty one.    *)
(***************************************************************************)
EXTENDS Naturals, Sequences

CONSTANTS
  Packages,       \* packages, by file name
  SourcePackages, \* those that are source packages
  Provides,       \* package -> names it provides
  Files,          \* package -> files it brings, which it provides as well
  Refs,           \* package -> names it requires or conflicts with
  FileDirs,       \* the files in the directories of filterProvidesByDirs
  Selections,     \* sets of packages an administrator may name or have
  ExternalRefs,   \* sets of references from outside an administrator may give
  MaxRuns,        \* bound: runs of the three programs
  MaxCrashes      \* bound: of them interrupted

ASSUME PackagesAssumption ==
  /\ SourcePackages \subseteq Packages
  /\ Selections \subseteq SUBSET Packages
  /\ MaxRuns \in Nat /\ MaxCrashes \in Nat

VARIABLES
  disk,     \* the directory of the index: file name -> content
  params,   \* struct RepoParams: what provides are filtered by
  pc,       \* the step the running program is at
  pos,      \* ds-patch: which list it is at
  add, del, \* packages to list, packages not to list any more
  ext,      \* external references
  refs,     \* references found in the index itself
  sums,     \* the check sums in memory
  runs, crashes, \* counted for the bounds
  releases  \* history: what was released, by which program, with which ext

inputVars == <<add, del, ext>>
historyVars == <<runs, crashes, releases>>
indexVars == <<disk, params, pc, pos, inputVars, refs, sums, historyVars>>

-----------------------------------------------------------------------------
\* Files and their content.

EmptyFile == <<>>

InfoText == <<params>>

PatchOrder == <<"packages", "descr", "sources", "srcdescr", "complete", "filelist">>

Lists == {PatchOrder[i] : i \in 1 .. 6}

\* The files that buildIndex registers in the check sums.
SummedFiles == (Lists \ {"complete"}) \cup {"info"}

Exists(file) == file \in DOMAIN disk

With(content, file) ==
  [f \in DOMAIN disk \cup {file} |-> IF f = file THEN content ELSE disk[f]]

Without(file) == [f \in DOMAIN disk \ {file} |-> disk[f]]

\* The check sums with those of the given files taken again.
Resummed(files) ==
  [f \in DOMAIN sums \cup files |-> IF f \in files THEN disk[f] ELSE sums[f]]

\* Md5File::verifyItem() for every item.
Verified ==
  /\ Exists("md5")
  /\ \A f \in DOMAIN disk["md5"] : Exists(f) /\ disk[f] = disk["md5"][f]

\* readInfoFile() finds the name of the file with the sums, and they match.
IndexIsVerified == Exists("info") /\ disk["info"] # EmptyFile /\ Verified

-----------------------------------------------------------------------------
\* Sections and the filters of provides.

Binary(S) == S \ SourcePackages

\* Mutant of Kind: the descriptions of source packages are taken for binary.
Kind_SrcDescr(file, S) == IF file = "sources" THEN S \cap SourcePackages ELSE Binary(S)

\* The packages a list is for, of those in S.
Kind(file, S) == IF file \in {"sources", "srcdescr"} THEN S \cap SourcePackages ELSE Binary(S)

AllProvides(p) == Provides[p] \cup Files[p]

HasBaseInfo(file) == file \in {"packages", "complete", "sources"}

\* PkgSection::saveBaseInfo(), saveDescr() or saveFileList() of a package.
Section(file, p) == IF HasBaseInfo(file) THEN AllProvides(p) ELSE {}

ByDirs(files) == IF params.byDirs THEN files \cap FileDirs ELSE files

\* saveBaseInfo() given the directories: named provides are always kept.
SectionByDirs(p) == Provides[p] \cup ByDirs(Files[p])

RefsOf(S) == UNION {Refs[p] : p \in S}

\* A line of the complete list that stays when filtered by references.
KeptByRefs(names) ==
  (names \cap (refs \cup ext)) \cup (IF params.byDirs THEN names \cap FileDirs ELSE {})

Filtered(list, Keep(_)) == [p \in DOMAIN list |-> Keep(list[p])]

-----------------------------------------------------------------------------
Init ==
  /\ disk = EmptyFile
  /\ params \in [byRefs : BOOLEAN, byDirs : BOOLEAN]
  /\ pc = "idle"
  /\ pos = 1
  /\ add = {} /\ del = {} /\ ext = {}
  /\ refs = {}
  /\ sums = EmptyFile
  /\ runs = 0 /\ crashes = 0
  /\ releases = <<>>

\* A new run of a program.
Run ==
  /\ pc = "idle"
  /\ runs < MaxRuns
  /\ runs' = runs + 1

\* The end of a run, after the last step, by an exception or a signal.
NothingRuns ==
  /\ pc' = "idle"
  /\ pos' = 1
  /\ add' = {} /\ del' = {} /\ ext' = {}
  /\ refs' = {}
  /\ sums' = EmptyFile

\* An exception: the program stops where it is, nothing is undone.
Stops ==
  /\ NothingRuns
  /\ UNCHANGED <<disk, params, historyVars>>

-----------------------------------------------------------------------------
\* buildIndex(), over the packages S of the given directories.

StartRepo(S, external) ==
  /\ Run
  /\ disk = EmptyFile
  /\ add' = S
  /\ ext' = IF params.byRefs THEN external ELSE {}
  /\ disk' = With(EmptyFile, "info")
  /\ pc' = "info"
  /\ UNCHANGED <<params, pos, del, refs, sums, crashes, releases>>

\* RepoParams::writeInfoFile().
WriteInfo ==
  /\ pc = "info"
  /\ disk' = With(InfoText, "info")
  /\ pc' = "create"
  /\ UNCHANGED <<params, pos, inputVars, refs, sums, historyVars>>

CreateLists ==
  /\ pc = "create"
  /\ disk' = [f \in DOMAIN disk \cup Lists |-> IF f \in Lists THEN EmptyFile ELSE disk[f]]
  /\ pc' = "collect"
  /\ UNCHANGED <<params, pos, inputVars, refs, sums, historyVars>>

\* The section written while the packages are read.
Collected(file, p) ==
  IF ~ params.byRefs /\ file \in {"packages", "sources"} THEN SectionByDirs(p) ELSE Section(file, p)

\* The loop over the packages.  With references, the packages file waits for
\* the next step.
CollectPackages ==
  /\ pc = "collect"
  /\ LET written == IF params.byRefs THEN Lists \ {"packages"} ELSE Lists IN
       disk' = [f \in DOMAIN disk |->
                 IF f \in written THEN [p \in Kind(f, add) |-> Collected(f, p)] ELSE disk[f]]
  /\ refs' = IF params.byRefs THEN RefsOf(add) ELSE {}
  /\ pc' = IF params.byRefs THEN "filter" ELSE "register"
  /\ UNCHANGED <<params, pos, inputVars, sums, historyVars>>

FilterPackages ==
  /\ pc = "filter"
  /\ disk' = With(Filtered(disk["complete"], KeptByRefs), "packages")
  /\ pc' = "register"
  /\ UNCHANGED <<params, pos, inputVars, refs, sums, historyVars>>

RegisterFiles ==
  /\ pc = "register"
  /\ sums' = Resummed(SummedFiles)
  /\ disk' = With(EmptyFile, "md5")
  /\ pc' = "repo"
  /\ UNCHANGED <<params, pos, inputVars, refs, historyVars>>

-----------------------------------------------------------------------------
\* rebuildIndex(), which lists A and no more lists D.

StartPatch(A, D) ==
  /\ Run
  /\ A \cup D # {}
  /\ IndexIsVerified
  /\ sums' = disk["md5"]
  /\ add' = A /\ del' = D
  /\ pc' = "patch"
  /\ UNCHANGED <<disk, params, pos, ext, refs, crashes, releases>>

\* Mutant of Patched: a package listed already is written again.
Patched_Twice(file) ==
  LET new == Kind(file, add) IN
  [p \in (DOMAIN disk[file] \ del) \cup new |-> IF p \in new THEN Section(file, p) ELSE disk[file][p]]

\* A list without the packages to exclude and with those to include, where a
\* package that was listed is not included again, excluded or not.
Patched(file) ==
  LET list == disk[file]
      new == Kind(file, add) \ DOMAIN list
  IN  [p \in (DOMAIN list \ del) \cup new |-> IF p \in new THEN Section(file, p) ELSE list[p]]

\* One list is written to the temporary file.
PatchList ==
  /\ pc = "patch"
  /\ Exists(PatchOrder[pos])
  /\ disk' = With(Patched(PatchOrder[pos]), "tmp")
  /\ pc' = "unlink"
  /\ UNCHANGED <<params, pos, inputVars, refs, sums, historyVars>>

UnlinkList ==
  /\ pc = "unlink"
  /\ disk' = Without(PatchOrder[pos])
  /\ pc' = "move"
  /\ UNCHANGED <<params, pos, inputVars, refs, sums, historyVars>>

\* File::move() of the temporary file, then the next list.
MoveList ==
  /\ pc = "move"
  /\ disk' = [f \in (DOMAIN disk \ {"tmp"}) \cup {PatchOrder[pos]} |->
               IF f = PatchOrder[pos] THEN disk["tmp"] ELSE disk[f]]
  /\ IF pos < 6
     THEN pos' = pos + 1 /\ pc' = "patch"
     ELSE pos' = 1 /\ pc' = "resum"
  /\ UNCHANGED <<params, inputVars, refs, sums, historyVars>>

\* The sums of all files but the info file are taken again.
ResumLists ==
  /\ pc = "resum"
  /\ sums' = Resummed(DOMAIN sums \ {"info"})
  /\ disk' = With(EmptyFile, "md5")
  /\ pc' = "patched"
  /\ UNCHANGED <<params, pos, inputVars, refs, historyVars>>

-----------------------------------------------------------------------------
\* refilterProvides(), given the references from outside.

StartProvides(external) ==
  /\ Run
  /\ IndexIsVerified
  /\ params.byRefs => Exists("packages")
  /\ sums' = disk["md5"]
  /\ ext' = IF params.byRefs THEN external ELSE {}
  /\ refs' = IF params.byRefs THEN RefsOf(DOMAIN disk["packages"]) ELSE {}
  /\ pc' = "drop"
  /\ UNCHANGED <<disk, params, pos, add, del, crashes, releases>>

DropPackages ==
  /\ pc = "drop"
  /\ Exists("packages")
  /\ disk' = Without("packages")
  /\ pc' = "anew"
  /\ UNCHANGED <<params, pos, inputVars, refs, sums, historyVars>>

CreatePackages ==
  /\ pc = "anew"
  /\ disk' = With(EmptyFile, "packages")
  /\ pc' = "refill"
  /\ UNCHANGED <<params, pos, inputVars, refs, sums, historyVars>>

\* Mutant of Kept: the references from outside are forgotten.
Kept_OwnRefs(names) ==
  IF params.byRefs
  THEN (names \cap refs) \cup (IF params.byDirs THEN names \cap FileDirs ELSE {})
  ELSE ByDirs(names)

\* Which provides of a section of the complete list are kept.  Without
\* references the directories apply to every name.
Kept(names) == IF params.byRefs THEN KeptByRefs(names) ELSE ByDirs(names)

RefillPackages ==
  /\ pc = "refill"
  /\ Exists("complete")
  /\ disk' = With(Filtered(disk["complete"], Kept), "packages")
  /\ pc' = "resumone"
  /\ UNCHANGED <<params, pos, inputVars, refs, sums, historyVars>>

\* Mutant of ResumPackages: the item of the packages file is left as it was.
ResumPackages_Not ==
  /\ pc = "resumone"
  /\ disk' = With(EmptyFile, "md5")
  /\ pc' = "provided"
  /\ UNCHANGED <<params, pos, inputVars, refs, sums, historyVars>>

\* Mutant of ResumPackages: the complete list gets an item as well.
ResumPackages_Complete ==
  /\ pc = "resumone"
  /\ sums' = Resummed({"packages", "complete"})
  /\ disk' = With(EmptyFile, "md5")
  /\ pc' = "provided"
  /\ UNCHANGED <<params, pos, inputVars, refs, historyVars>>

\* removeItem() and addItemFromFile() of the packages file only.
ResumPackages ==
  /\ pc = "resumone"
  /\ sums' = Resummed({"packages"})
  /\ disk' = With(EmptyFile, "md5")
  /\ pc' = "provided"
  /\ UNCHANGED <<params, pos, inputVars, refs, historyVars>>

-----------------------------------------------------------------------------
Releaser == [repo |-> "ds-repo", patched |-> "ds-patch", provided |-> "ds-provides"]

\* The end of Md5File::saveToFile() and of the program.  It is a release when
\* clients can use it: they ask for the sums of these two files.
WriteSums ==
  /\ pc \in DOMAIN Releaser
  /\ disk' = With(sums, "md5")
  /\ IF {"info", "packages"} \subseteq DOMAIN sums
     THEN releases' = Append(releases, [tool |-> Releaser[pc], list |-> disk["packages"], ext |-> ext])
     ELSE UNCHANGED releases
  /\ NothingRuns
  /\ UNCHANGED <<params, runs, crashes>>

\* The list to patch, the packages file or the complete list is not there.
StopAtMissing ==
  /\ \/ pc = "patch" /\ ~ Exists(PatchOrder[pos])
     \/ pc = "drop" /\ ~ Exists("packages")
     \/ pc = "refill" /\ ~ Exists("complete")
  /\ Stops

\* The program is killed or the machine stops.
Crash ==
  /\ pc # "idle"
  /\ crashes < MaxCrashes
  /\ crashes' = crashes + 1
  /\ NothingRuns
  /\ UNCHANGED <<disk, params, runs, releases>>

Start ==
  \/ \E S \in Selections, external \in ExternalRefs : StartRepo(S, external)
  \/ \E A, D \in Selections : StartPatch(A, D)
  \/ \E external \in ExternalRefs : StartProvides(external)

RepoStep == WriteInfo \/ CreateLists \/ CollectPackages \/ FilterPackages \/ RegisterFiles

PatchStep == PatchList \/ UnlinkList \/ MoveList \/ ResumLists

ProvidesStep == DropPackages \/ CreatePackages \/ RefillPackages \/ ResumPackages

ToolStep == RepoStep \/ PatchStep \/ ProvidesStep \/ WriteSums \/ StopAtMissing

Next == Start \/ ToolStep \/ Crash

Spec == Init /\ [][Next]_indexVars
=============================================================================
