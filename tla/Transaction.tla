---------------------------- MODULE Transaction ----------------------------
(***************************************************************************)
(* What ds-install and ds-remove do with the answer of the task solver:    *)
(* fillUpgradeDowngrade(), the questions to the user, the files of the     *)
(* packages (TransactionIterator), and the changes (RpmBackEnd and         *)
(* RpmTransaction).  librpm is external.  Around them ds-update may        *)
(* replace the file of URLs and another ds-install may use the same cache. *)
(***************************************************************************)
EXTENDS Fetching

CONSTANTS
  Name,     \* the name of each package
  Ver,      \* its version with epoch and release: packages of one name and
            \* version differ in their build time
  Systems,  \* the sets of packages that may be installed at first
  UrlFiles  \* the files of URLs ds-update may leave: functions to "remote",
            \* "local" (file:/), "noBase" (a URL without a file name)

\* A file name tells the name and the version of a package.
ASSUME BaseAssumption ==
  \A p, q \in Pkgs : Base[p] = Base[q] => Name[p] = Name[q] /\ Ver[p] = Ver[q]

ASSUME VerAssumption ==
  Ver \in [Pkgs -> Int] /\ \A S \in Systems : S \subseteq Pkgs

\* What a file of URLs may tell of a package.
ASSUME UrlFilesAssumption ==
  \A known \in UrlFiles : \A p \in DOMAIN known : known[p] \in {"remote", "local", "noBase"}

VARIABLES
  system,    \* the installed packages
  toInstall, toRemove,    \* the vectors of the answer; order is left open
  toUpgrade, toDowngrade, \* maps from the old package to the new one
  left,      \* packages to install that fillUpgradeDowngrade() has not seen
  mode,      \* the option of the command line
  pc,        \* where the program is
  urlFile,   \* the file of URLs
  urls,      \* what has been read of it
  files,     \* the files to give to rpm
  elements,  \* the transaction of librpm: what to erase and what to add
  answer,    \* history: the answer, and the system it was found for
  alone,     \* history: nobody else has used the cache
  result     \* how the program ended

taskVars == <<toInstall, toRemove, toUpgrade, toDowngrade, left>>
otherVars == <<urlFile, urls, files, elements, mode, result>>
vars == <<fetchVars, taskVars, otherVars, system, pc, answer, alone>>

-----------------------------------------------------------------------------
SameName(p) == {q \in Pkgs : Name[q] = Name[p]}
News(map) == {map[old] : old \in DOMAIN map}
NoMap == [p \in {} |-> p]
Add(map, old, new) == [q \in DOMAIN map \cup {old} |-> IF q = old THEN new ELSE map[q]]

\* The options of ds-install and ds-remove; --sat solves nothing
\* (PackageData has it).
Modes == {"urls", "dry-run", "files", "changes"}

\* What the task solver promises (TaskSolver), without the relations: what is
\* installed becomes the only one of its name.
Answers(S) ==
  {a \in [install : SUBSET (Pkgs \ S), remove : SUBSET S, system : {S}] :
    \A p \in a.install : SameName(p) \cap ((S \ a.remove) \cup a.install) = {p}}

TransactionInit ==
  /\ FetchInit
  /\ system \in Systems
  /\ answer \in Answers(system)
  /\ toInstall = answer.install /\ toRemove = answer.remove
  /\ toUpgrade = NoMap /\ toDowngrade = NoMap
  /\ left = answer.install
  /\ mode \in Modes
  /\ pc = "pair"
  /\ urlFile \in UrlFiles
  /\ urls = NoMap
  /\ files = NoMap
  /\ elements = [erase |-> {}, add |-> {}]
  /\ alone = TRUE
  /\ result = "none"

Finish(how) == pc' = "over" /\ result' = how

-----------------------------------------------------------------------------
\* fillUpgradeDowngrade(), one package to install at a time, with some
\* package to remove of its name.
Unpaired ==
  /\ pc = "pair"
  /\ \E p \in left :
       /\ SameName(p) \cap toRemove = {}
       /\ left' = left \ {p}
  /\ UNCHANGED <<fetchVars, toInstall, toRemove, toUpgrade, toDowngrade, otherVars, system, pc, answer, alone>>

\* Mutant of Pair: what is upgraded is installed too.
Pair_KeepsInstall ==
  /\ pc = "pair"
  /\ \E p \in left : \E old \in SameName(p) \cap toRemove :
       /\ left' = left \ {p}
       /\ toRemove' = toRemove \ {old}
       /\ toInstall' = toInstall
       /\ toUpgrade' = IF Ver[p] > Ver[old] THEN Add(toUpgrade, old, p) ELSE toUpgrade
       /\ toDowngrade' = IF Ver[p] < Ver[old] THEN Add(toDowngrade, old, p) ELSE toDowngrade
  /\ UNCHANGED <<fetchVars, otherVars, system, pc, answer, alone>>

\* Packages of one version stay to be installed, and the old one is not
\* removed any more.
Pair ==
  /\ pc = "pair"
  /\ \E p \in left : \E old \in SameName(p) \cap toRemove :
       /\ left' = left \ {p}
       /\ toRemove' = toRemove \ {old}
       /\ toInstall' = IF Ver[p] = Ver[old] THEN toInstall ELSE toInstall \ {p}
       /\ toUpgrade' = IF Ver[p] > Ver[old] THEN Add(toUpgrade, old, p) ELSE toUpgrade
       /\ toDowngrade' = IF Ver[p] < Ver[old] THEN Add(toDowngrade, old, p) ELSE toDowngrade
  /\ UNCHANGED <<fetchVars, otherVars, system, pc, answer, alone>>

EmptyTask == toInstall = {} /\ toRemove = {} /\ toUpgrade = NoMap /\ toDowngrade = NoMap

\* Mutant of Decide: a trial run goes on to fetch and change.
Decide_DryRunGoesOn ==
  /\ pc = "pair" /\ left = {}
  /\ \/ mode = "dry-run" /\ ~ EmptyTask /\ pc' = "readUrls" /\ UNCHANGED result
     \/ mode = "urls" /\ pc' = "printUrls" /\ UNCHANGED result
     \/ mode # "urls" /\ EmptyTask /\ Finish("nothing")
     \/ mode \in {"files", "changes"} /\ ~ EmptyTask /\ pc' = "readUrls" /\ UNCHANGED result
  /\ UNCHANGED <<fetchVars, taskVars, urlFile, urls, files, elements, mode, system, answer, alone>>

\* doMainWork() after transaction(): --urls prints what it can find, --dry-run
\* and an empty task end it, and without --files the user may decline.
Decide ==
  /\ pc = "pair" /\ left = {}
  /\ \/ mode = "dry-run" /\ Finish("nothing")
     \/ mode = "urls" /\ pc' = "printUrls" /\ UNCHANGED result
     \/ mode # "urls" /\ EmptyTask /\ Finish("nothing")
     \/ mode = "changes" /\ ~ EmptyTask /\ Finish("nothing")
     \/ mode \in {"files", "changes"} /\ ~ EmptyTask /\ pc' = "readUrls" /\ UNCHANGED result
  /\ UNCHANGED <<fetchVars, taskVars, urlFile, urls, files, elements, mode, system, answer, alone>>

\* readUrls() for the packages of one kind; the file is opened each time.
Lists == <<toInstall, News(toUpgrade), News(toDowngrade)>>
Wanted == Lists[1] \cup Lists[2] \cup Lists[3]

ReadUrls ==
  /\ pc \in {"readUrls", "printUrls"}
  /\ \E c \in DOMAIN Lists :
       /\ Lists[c] # {} /\ ~ Lists[c] \subseteq DOMAIN urls
       /\ \A d \in 1 .. c - 1 : Lists[d] \subseteq DOMAIN urls
       /\ urls' = [p \in DOMAIN urls \cup Lists[c] |->
                    IF p \in DOMAIN urls THEN urls[p]
                    ELSE IF p \in DOMAIN urlFile THEN urlFile[p] ELSE "none"]
  /\ UNCHANGED <<fetchVars, taskVars, urlFile, files, elements, mode, result, system, pc, answer, alone>>

\* Every URL must be there and have a file name; then the cache is emptied and
\* the files without a local URL are fetched.  `throw 0' is caught by nobody.
PrepareFetch ==
  /\ pc \in {"readUrls", "printUrls"}
  /\ Wanted \subseteq DOMAIN urls
  /\ IF pc = "printUrls"
     THEN Finish("nothing") /\ UNCHANGED fetchVars
     ELSE IF \E p \in Wanted : urls[p] \in {"none", "noBase"}
          THEN Finish("terminated") /\ UNCHANGED fetchVars
          ELSE /\ cache' = EmptyCache
               /\ BeginFetch({p \in Wanted : urls[p] = "remote"})
               /\ pc' = "fetch" /\ UNCHANGED result
  /\ UNCHANGED <<taskVars, urlFile, urls, files, elements, mode, system, answer, alone>>

Fetch ==
  /\ pc = "fetch"
  /\ FetchStep
  /\ IF fetchStage' = "failed" THEN Finish("failure") ELSE UNCHANGED <<pc, result>>
  /\ UNCHANGED <<taskVars, urlFile, urls, files, elements, mode, system, answer, alone>>

-----------------------------------------------------------------------------
\* The file a package is installed from: its own one, or that of the cache.
CacheFile(p) == [place |-> "cache", pkg |-> p]
LocalFile(p) == [place |-> "local", pkg |-> p]
FileFor(p) == IF urls[p] = "local" THEN LocalFile(p) ELSE CacheFile(p)

\* Mutant of Collect: the file names are tested where the URLs are meant, for
\* the packages to install as well.
Collect_TestsFileNames ==
  /\ pc = "fetch" /\ fetchStage = "fetched"
  /\ files' = [p \in Wanted |-> CacheFile(p)]
  /\ IF mode = "files" THEN Finish("nothing") ELSE pc' = "change" /\ UNCHANGED result
  /\ UNCHANGED <<fetchVars, taskVars, urlFile, urls, elements, mode, system, answer, alone>>

\* The end of fetchPackages(): a downgrade is always looked for in the cache,
\* as line 139 tests the file name.  --files prints the names and ends.
Collect ==
  /\ pc = "fetch" /\ fetchStage = "fetched"
  /\ files' = [p \in Wanted |-> IF p \in News(toDowngrade) THEN CacheFile(p) ELSE FileFor(p)]
  /\ IF mode = "files" THEN Finish("nothing") ELSE pc' = "change" /\ UNCHANGED result
  /\ UNCHANGED <<fetchVars, taskVars, urlFile, urls, elements, mode, system, answer, alone>>

\* RpmBackEnd::transaction() refuses downgrades; otherwise packages to remove
\* go into the transaction of librpm by name: all that are installed.
AddRemove ==
  /\ pc = "change"
  /\ IF toDowngrade # NoMap
     THEN Finish("failure") /\ UNCHANGED elements
     ELSE /\ elements' = [erase |-> {p \in system : \E q \in toRemove : Name[q] = Name[p]},
                          add |-> {}]
          /\ pc' = "add" /\ UNCHANGED result
  /\ UNCHANGED <<fetchVars, taskVars, urlFile, urls, files, mode, system, answer, alone>>

\* The package a file really has, if it is a whole one.
WholeIn(f) == IF f.place = "local" THEN {f.pkg} ELSE {p \in Pkgs : cache[Base[f.pkg]] = Whole(p)}

\* Whether a header can be read from a file: from a page never, from a part of
\* a package perhaps.
Readable(f) ==
  CASE WholeIn(f) # {} -> {TRUE}
    [] cache[Base[f.pkg]] \in {Absent, Page} -> {FALSE}
    [] OTHER -> BOOLEAN

\* Mutant of AddPackage: an upgrade does not erase the old package.
AddPackage_KeepsOld ==
  /\ pc = "add"
  /\ \E p \in (toInstall \cup News(toUpgrade)) \ elements.add :
       \E readable \in Readable(files[p]) :
         IF readable
         THEN elements' = [elements EXCEPT !.add = @ \cup {p}] /\ UNCHANGED <<pc, result>>
         ELSE Finish("failure") /\ UNCHANGED elements
  /\ UNCHANGED <<fetchVars, taskVars, urlFile, urls, files, mode, system, answer, alone>>

\* The files to install, then those to upgrade: librpm erases all packages of
\* the name of an upgrade.
AddPackage ==
  /\ pc = "add"
  /\ \E p \in (toInstall \cup News(toUpgrade)) \ elements.add :
       /\ p \in News(toUpgrade) => toInstall \subseteq elements.add
       /\ \E readable \in Readable(files[p]) :
            IF readable
            THEN /\ elements' =
                      [erase |-> elements.erase \cup
                                   (IF p \in toInstall THEN {} ELSE SameName(p) \cap system),
                       add |-> elements.add \cup {p}]
                 /\ UNCHANGED <<pc, result>>
            ELSE Finish("failure") /\ UNCHANGED elements
  /\ UNCHANGED <<fetchVars, taskVars, urlFile, urls, files, mode, system, answer, alone>>

\* rpmdepCheck() finds conflicts: the program exits.  rpmdepOrder() fails:
\* process() returns as if it had succeeded.
NotRun ==
  /\ pc = "add"
  /\ toInstall \cup News(toUpgrade) \subseteq elements.add
  /\ Finish("failure") \/ Finish("unordered")
  /\ UNCHANGED <<fetchVars, taskVars, urlFile, urls, files, elements, mode, system, answer, alone>>

\* A package that is installed already, in this version, is a problem.
Problem == \E p \in elements.add : \E q \in (SameName(p) \cap system) \ elements.erase :
             Ver[q] = Ver[p]

\* rpmRunTransactions() opens the files again.  It does everything, or stops
\* at problems before it begins, or fails on the way; after any of them the
\* program ends with success.
Run ==
  /\ pc = "add"
  /\ toInstall \cup News(toUpgrade) \subseteq elements.add
  /\ LET add == UNION {WholeIn(files[p]) : p \in elements.add} IN
     \/ /\ ~ Problem
        /\ \A p \in elements.add : WholeIn(files[p]) # {}
        /\ system' = (system \ elements.erase) \cup add
        /\ Finish("carriedOut")
     \/ UNCHANGED system /\ Finish("problems")
     \/ /\ ~ Problem
        /\ \E gone \in SUBSET elements.erase : \E come \in SUBSET add :
             system' = (system \ gone) \cup come
        /\ Finish("errors")
  /\ UNCHANGED <<fetchVars, taskVars, urlFile, urls, files, elements, mode, answer, alone>>

-----------------------------------------------------------------------------
\* Other programs.
UpdateUrls ==
  /\ urlFile' \in UrlFiles \ {urlFile}
  /\ UNCHANGED <<fetchVars, taskVars, urls, files, elements, mode, result, system, pc, answer, alone>>

OtherInstall ==
  /\ OtherEmptiesCache \/ OtherFetches
  /\ alone' = FALSE
  /\ UNCHANGED <<transferVars, progressVars, taskVars, otherVars, system, pc, answer>>

TransactionStep ==
  \/ Unpaired \/ Pair \/ Decide \/ ReadUrls \/ PrepareFetch \/ Fetch \/ Collect
  \/ AddRemove \/ AddPackage \/ NotRun \/ Run

TransactionNext ==
  \/ TransactionStep
  \/ pc \in {"pair", "readUrls", "printUrls"} /\ UpdateUrls
  \/ pc \in {"fetch", "change", "add"} /\ OtherInstall

TransactionSpec == TransactionInit /\ [][TransactionNext]_vars

-----------------------------------------------------------------------------
\* Properties.

\* Nothing of the answer is lost or taken twice when removed and installed
\* packages are paired: what is left out of the removals is what a package of
\* the same version is installed over, or is not yet removed.
PairingLosesNothing ==
  /\ toInstall \cup News(toUpgrade) \cup News(toDowngrade) = answer.install
  /\ toInstall \cap (News(toUpgrade) \cup News(toDowngrade)) = {}
  /\ News(toUpgrade) \cap News(toDowngrade) = {}
  /\ \A old, q \in DOMAIN toUpgrade : toUpgrade[old] = toUpgrade[q] => old = q
  /\ \A old \in DOMAIN toUpgrade : Ver[toUpgrade[old]] > Ver[old]
  /\ \A old \in DOMAIN toDowngrade : Ver[toDowngrade[old]] < Ver[old]
  /\ toRemove \cup DOMAIN toUpgrade \cup DOMAIN toDowngrade \subseteq answer.remove
  /\ toRemove \cap (DOMAIN toUpgrade \cup DOMAIN toDowngrade) = {}
  /\ \A old \in answer.remove \ (toRemove \cup DOMAIN toUpgrade \cup DOMAIN toDowngrade) :
       \E p \in toInstall : Name[p] = Name[old] /\ Ver[p] = Ver[old]

\* When rpm does all it is told to, the system is what the solver has found:
\* but all packages of a name go when one of them is to be removed, and a
\* package may come from another process that has fetched a file of that name.
AnswerIsCarriedOut ==
  result = "carriedOut" =>
    LET gone == {p \in answer.system : \E q \in answer.remove : Name[q] = Name[p]}
        meant == (answer.system \ gone) \cup answer.install
    IN {Base[p] : p \in system} = {Base[p] : p \in meant} /\ (alone => system = meant)

\* The file each package is installed from is its own: a local one, or one of
\* the cache that this run has fetched, unless another process is at the
\* cache.  A server's page in its place is possible.  (What is downgraded is
\* looked for in the cache only, and never gets to rpm.)
FilesMatchAnswer ==
  pc = "add" =>
    \A p \in answer.install :
      IF urls[p] = "local" THEN files[p] = LocalFile(p)
      ELSE files[p] = CacheFile(p) /\ (alone => cache[Base[p]] \in {Whole(p), Page})

\* The system changes only after the user was asked and every package has
\* had a URL and a file, of one kind of change after the other.
ChangesComeLast ==
  [][system' # system =>
       /\ mode = "changes" /\ toDowngrade = NoMap
       /\ \A p \in answer.install : p \in DOMAIN files /\ urls[p] \in {"remote", "local"}
       /\ fetchMap = {} /\ fetchStage = "fetched"]_vars

\* The percentages of all files do not go back while files are fetched, and
\* end at 100 or before.
ProgressGrows ==
  [][/\ fetchStage # "idle" /\ pc' = pc => lastTotal' >= lastTotal
     /\ lastTotal' \in 0 .. 100]_vars
=============================================================================
