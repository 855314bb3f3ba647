----------------------------- MODULE Repository -----------------------------
(***************************************************************************)
(* A client that updates from the index (class Repository, called by       *)
(* OperationCore::fetchMetadata) while the programs of IndexCore change    *)
(* it.  It downloads the info file and the check sums, then the packages   *)
(* list, each in one step, and any download may fail.  Only the packages   *)
(* list is asked for: the switches for the others are not implemented.     *)
(***************************************************************************)
EXTENDS IndexCore

VARIABLES
  stage,       \* what the client is doing
  infoContent, \* the info file it has
  m_checksums, \* the sums it has
  list,        \* the packages list it has
  since,       \* history: releases made before it began
  quiet        \* history: nothing disturbed it since it began

clientVars == <<stage, infoContent, m_checksums, list, since, quiet>>
vars == <<indexVars, clientVars>>

-----------------------------------------------------------------------------
RepositoryInit ==
  /\ Init
  /\ stage = "begin"
  /\ infoContent = EmptyFile
  /\ m_checksums = EmptyFile
  /\ list = EmptyFile
  /\ since = 0
  /\ quiet = FALSE

\* A step of one of the programs: the client notices nothing.
IndexStep ==
  /\ Next
  /\ quiet' = FALSE
  /\ UNCHANGED <<stage, infoContent, m_checksums, list, since>>

\* fetchInfoAndChecksum() up to the second download: an info file without the
\* name of the sums is refused.
FetchInfo ==
  /\ stage = "begin"
  /\ Exists("info")
  /\ infoContent' = disk["info"]
  /\ stage' = IF disk["info"] = EmptyFile THEN "failed" ELSE "info"
  /\ since' = Len(releases)
  /\ quiet' = (pc = "idle" /\ crashes = 0)
  /\ UNCHANGED <<indexVars, m_checksums, list>>

\* The rest of it: the sums must have the info file, and it must match.
FetchChecksums ==
  /\ stage = "info"
  /\ Exists("md5")
  /\ m_checksums' = disk["md5"]
  /\ stage' = IF "info" \in DOMAIN disk["md5"] /\ disk["md5"]["info"] = infoContent
              THEN "checksums" ELSE "failed"
  /\ UNCHANGED <<indexVars, infoContent, list, since, quiet>>

\* FilesFetch of what addIndexFilesForFetch() asks for.
FetchPackages ==
  /\ stage = "checksums"
  /\ Exists("packages")
  /\ list' = disk["packages"]
  /\ stage' = "fetched"
  /\ UNCHANGED <<indexVars, infoContent, m_checksums, since, quiet>>

\* Mutant of LoadPackageData: the sum of the list is not looked at.
LoadPackageData_Unverified ==
  /\ stage = "fetched"
  /\ stage' = IF "packages" \in DOMAIN m_checksums THEN "loaded" ELSE "failed"
  /\ UNCHANGED <<indexVars, infoContent, m_checksums, list, since, quiet>>

\* loadPackageData(): the list must have a sum, and it must match.
LoadPackageData ==
  /\ stage = "fetched"
  /\ stage' = IF "packages" \in DOMAIN m_checksums /\ m_checksums["packages"] = list
              THEN "loaded" ELSE "failed"
  /\ UNCHANGED <<indexVars, infoContent, m_checksums, list, since, quiet>>

\* The file is not there.
FetchMissing ==
  /\ \/ stage = "begin" /\ ~ Exists("info")
     \/ stage = "info" /\ ~ Exists("md5")
     \/ stage = "checksums" /\ ~ Exists("packages")
  /\ stage' = "failed"
  /\ UNCHANGED <<indexVars, infoContent, m_checksums, list, since, quiet>>

\* The network fails.
FetchFails ==
  /\ stage \in {"begin", "info", "checksums"}
  /\ stage' = "failed"
  /\ quiet' = FALSE
  /\ UNCHANGED <<indexVars, infoContent, m_checksums, list, since>>

ClientStep ==
  \/ FetchInfo \/ FetchChecksums \/ FetchPackages \/ LoadPackageData
  \/ FetchMissing \/ FetchFails

RepositoryNext == IndexStep \/ ClientStep

RepositorySpec == RepositoryInit /\ [][RepositoryNext]_vars

-----------------------------------------------------------------------------
\* Properties.

Names == UNION {AllProvides(p) : p \in Packages}

LastRelease == releases[Len(releases)]

\* The list that the sums on the disk vouch for.
Offered ==
  IF /\ Exists("md5") /\ {"info", "packages"} \subseteq DOMAIN disk["md5"]
     /\ \A f \in {"info", "packages"} : Exists(f) /\ disk[f] = disk["md5"][f]
  THEN {disk["packages"]} ELSE {}

Abstract == INSTANCE RepositoryIndex WITH
  offered <- Offered,
  last <- {LastRelease.list : i \in DOMAIN releases}

\* The variables have their types, and a program holds sums, references and
\* packages only while it runs.
IndexTypeOK ==
  /\ DOMAIN disk \subseteq Lists \cup {"info", "md5", "tmp"}
  /\ \A f \in DOMAIN disk \cap (Lists \cup {"tmp"}) : Abstract!IsPackageList(disk[f])
  /\ DOMAIN sums \subseteq SummedFiles
  /\ pos \in 1 .. 6
  /\ ext \cup refs \subseteq Names \cup (UNION {Refs[p] : p \in Packages}) \cup (UNION ExternalRefs)
  /\ add \cup del \subseteq Packages
  /\ pc = "idle" => sums = EmptyFile /\ refs = {} /\ add = {} /\ del = {} /\ pos = 1
  /\ Len(releases) <= runs /\ crashes <= runs
  /\ stage \in {"begin", "info", "checksums", "fetched", "loaded", "failed"}
  /\ since <= Len(releases)

\* An index whose files all match their sums is whole, however often ds-repo,
\* ds-patch and ds-provides were interrupted before: the lists of binary
\* packages name the same packages, those of source packages as well.  The
\* complete list has no sum and is the only one that may be missing.
DamageIsNoticed ==
  Verified /\ SummedFiles \subseteq DOMAIN disk["md5"] =>
    /\ DOMAIN disk["packages"] = DOMAIN disk["descr"]
    /\ DOMAIN disk["packages"] = DOMAIN disk["filelist"]
    /\ DOMAIN disk["sources"] = DOMAIN disk["srcdescr"]
    /\ Exists("complete") => DOMAIN disk["packages"] = DOMAIN disk["complete"]

\* After ds-repo and ds-provides, when provides are filtered by references, a
\* package still provides every name that a listed binary package or the
\* outside refers to: filtering never makes a require unmet, and what an
\* earlier filtering dropped comes back when a new package asks for it
\* (buildIndex, refilterProvides).
ReferencedProvidesAreListed ==
  releases # <<>> /\ LastRelease.tool # "ds-patch" /\ params.byRefs =>
    \A p \in DOMAIN LastRelease.list :
      AllProvides(p) \cap (RefsOf(DOMAIN LastRelease.list) \cup LastRelease.ext)
        \subseteq LastRelease.list[p]

\* A packages list that a client loads was released, and no later release had
\* replaced it when the client began: never a list half written, left by an
\* interrupted program, or changed between the downloads.
ClientLoadsPublished ==
  stage = "loaded" =>
    \E i \in 1 .. Len(releases) : i >= since /\ releases[i].list = list

\* When no program was ever interrupted, none runs during the update and the
\* network works, the client does not fail: each of the three programs leaves
\* sums that match what it wrote.
QuietClientAccepts == quiet => stage # "failed"

\* What ds-repo, filtering by references, would write for the packages that
\* the index lists.
Rebuilt ==
  LET S == DOMAIN disk["packages"] \cup DOMAIN disk["sources"]
      wanted == RefsOf(S) \cup LastRelease.ext \cup (IF params.byDirs THEN FileDirs ELSE {})
  IN  [p \in DOMAIN disk["packages"] |-> AllProvides(p) \cap wanted]

\* ds-provides "repairs the set of provides in the index after changes" where
\* they are filtered by references (admin.tex, the section on ds-provides):
\* what it leaves is what ds-repo would have written.
ProvidesAreRepaired ==
  pc = "idle" /\ crashes = 0 /\ params.byRefs /\ releases # <<>> =>
    (LastRelease.tool = "ds-provides" => disk["packages"] = Rebuilt)

\* Seen through the check sums, the index of the files is the one documented:
\* what a client can load is a release, and from one to the next either the
\* packages or the provides change, not both.
ImplementsRepositoryIndex == Abstract!Spec
=============================================================================
