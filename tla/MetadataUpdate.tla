--------------------------- MODULE MetadataUpdate ---------------------------
(***************************************************************************)
(* OperationCore::fetchMetadata(), run by ds-update: check sums of all     *)
(* repositories, their packages lists into a temporary directory, then the *)
(* file of URLs and the snapshot, both rewritten in place.  Nothing is     *)
(* locked, so several runs may overlap, any of them may be killed, and the *)
(* network and the disk may fail.  Lists of packages are sequences; a      *)
(* check sum holds the list it is taken from.                              *)
(***************************************************************************)
EXTENDS PkgUrlsFile, FiniteSets

CONSTANTS
  Repos,      \* the enabled repositories, in their order
  Layouts,    \* for their URLs: those that begin with file:/, and what
              \* urlToFileName() makes of each
  Published,  \* the lists of packages a repository offers one after another
  MaxRuns,    \* bound: runs of ds-update
  MaxFaults,  \* bound: overlaps, kills, failures of the network and of the disk
  NoFile

ASSUME RunsAssumption == MaxRuns \in Nat /\ MaxFaults \in Nat

RepoSet == {Repos[m] : m \in DOMAIN Repos}
Runs == 1 .. MaxRuns

RangeOf(s) == {s[n] : n \in DOMAIN s}
EverPublished(r) == UNION {RangeOf(Published[r][g]) : g \in DOMAIN Published[r]}
Packages == UNION {EverPublished(r) : r \in RepoSet}

\* Each repository has a list at any time, at first the first of them.
ASSUME ReposAssumption ==
  /\ Repos \in Seq(RepoSet)
  /\ \A r \in RepoSet : Published[r] \in Seq(Seq(Packages)) /\ Published[r] # <<>>

\* What the temporary directory, the file of URLs and the snapshot may hold;
\* a file that is not there, a hole and a URL that is missing are none of it.
TempNames == {L.temp[r] : L \in Layouts, r \in RepoSet}
Texts == {<<>>} \cup UNION {RangeOf(Published[r]) : r \in RepoSet}
Dirs == UNION {[D -> [ino : Runs, text : Texts]] : D \in SUBSET TempNames}
Lines == {LineOf(p, <<r, p>>) : p \in Packages, r \in RepoSet}
Sects == [part : 1 .. 3, pkgs : SUBSET Packages]

ASSUME NothingAssumption ==
  /\ NoFile \notin Dirs
  /\ NoFile \notin Seq(Lines \cup {Hole})
  /\ NoFile \notin Seq(Sects \cup {Hole})
  /\ Hole \notin Lines
  /\ Hole \notin Sects
  /\ NoUrl \notin RepoSet \X Packages

VARIABLES
  layout,    \* the URLs of the repositories
  served,    \* the list each repository offers now
  tmp,       \* the temporary directory
  urls,      \* the file of URLs
  snapshot,  \* the file of the snapshot
  pc,        \* where each run is
  k,         \* the repository it is at
  sums,      \* the check sums it has fetched
  entries,   \* the names its directory enumeration still has
  fd,        \* the file it is downloading to
  rest,      \* what it has not yet read of a packages list
  pkgs,      \* the packages it has collected
  urlsPos,   \* its position in the file of URLs
  bad,       \* its output streams that have failed
  faults,    \* overlaps and faults so far
  alone,     \* history: no other run overlapped this one
  calm,      \* history: nor did anything change or fail
  disturbed  \* history: runs have overlapped since the last good one

filesVars == <<tmp, urls, snapshot>>
runVars == <<pc, k, sums, entries, fd, rest, pkgs, urlsPos, bad>>
ghostVars == <<alone, calm, disturbed>>
updateVars == <<layout, served, filesVars, runVars, faults, ghostVars>>

-----------------------------------------------------------------------------
Over == {"idle", "done", "failed", "killed"}
Running == {i \in Runs : pc[i] \notin Over}

List(r) == Published[r][served[r]]
RemoteAt(i) == Repos[k[i]] \notin layout.local
TempOf(i) == layout.temp[Repos[k[i]]]

\* The three parts of a snapshot file: sizes with their control value, the
\* strings and names, the packages and relations.  Without packages there is
\* only the first.
Sections(content) == IF content = {} THEN 1 ELSE 3

Init ==
  /\ layout \in Layouts
  /\ served = [r \in RepoSet |-> 1]
  /\ tmp = NoFile
  /\ urls = NoFile
  /\ snapshot = NoFile
  /\ pc = [i \in Runs |-> "idle"]
  /\ k = [i \in Runs |-> 1]
  /\ sums = [i \in Runs |-> <<>>]
  /\ entries = [i \in Runs |-> {}]
  /\ fd = [i \in Runs |-> 0]
  /\ rest = [i \in Runs |-> <<>>]
  /\ pkgs = [i \in Runs |-> {}]
  /\ urlsPos = [i \in Runs |-> 1]
  /\ bad = [i \in Runs |-> {}]
  /\ faults = 0
  /\ alone = [i \in Runs |-> TRUE]
  /\ calm = [i \in Runs |-> TRUE]
  /\ disturbed = FALSE

\* What a run holds is gone when it is over.
Cleared(i) ==
  /\ k' = [k EXCEPT ![i] = 1]
  /\ sums' = [sums EXCEPT ![i] = <<>>]
  /\ entries' = [entries EXCEPT ![i] = {}]
  /\ fd' = [fd EXCEPT ![i] = 0]
  /\ rest' = [rest EXCEPT ![i] = <<>>]
  /\ pkgs' = [pkgs EXCEPT ![i] = {}]
  /\ urlsPos' = [urlsPos EXCEPT ![i] = 1]

\* An exception leaves fetchMetadata(); main() prints it.
Fail(i) ==
  /\ pc' = [pc EXCEPT ![i] = "failed"]
  /\ Cleared(i)
  /\ UNCHANGED <<layout, bad, served, filesVars, faults, ghostVars>>

GoTo(i, place) == pc' = [pc EXCEPT ![i] = place]

\* Nothing around the run changes.
Quietly == UNCHANGED <<layout, served, faults, ghostVars>>

-----------------------------------------------------------------------------
\* ds-update starts.
Start(i) ==
  /\ pc[i] = "idle"
  /\ \A j \in 1 .. i - 1 : pc[j] # "idle"
  /\ Cardinality(Running) <= 1
  /\ GoTo(i, "sums")
  /\ LET overlap == Running # {} IN
     /\ overlap => faults < MaxFaults
     /\ faults' = IF overlap THEN faults + 1 ELSE faults
     /\ alone' = [j \in Runs |-> IF j = i \/ j \in Running THEN alone[j] /\ ~ overlap ELSE alone[j]]
     /\ calm' = [j \in Runs |-> IF j = i \/ j \in Running THEN calm[j] /\ ~ overlap ELSE calm[j]]
     /\ disturbed' = (disturbed \/ overlap)
  /\ UNCHANGED <<layout, served, filesVars, k, sums, entries, fd, rest, pkgs, urlsPos, bad>>

\* fetchInfoAndChecksum() of the repositories, one after another.
FetchSums(i) ==
  /\ pc[i] = "sums"
  /\ k[i] <= Len(Repos)
  /\ sums' = [sums EXCEPT ![i] = Append(@, List(Repos[k[i]]))]
  /\ k' = [k EXCEPT ![i] = @ + 1]
  /\ UNCHANGED <<filesVars, pc, entries, fd, rest, pkgs, urlsPos, bad>> /\ Quietly

\* ensureExists() looks whether the directory is there, mkdir() comes after.
LookForDir(i) ==
  /\ pc[i] = "sums"
  /\ k[i] > Len(Repos)
  /\ k' = [k EXCEPT ![i] = 1]
  /\ GoTo(i, IF tmp = NoFile THEN "mkdir" ELSE "enumerate")
  /\ UNCHANGED <<filesVars, sums, entries, fd, rest, pkgs, urlsPos, bad>> /\ Quietly

MakeDir(i) ==
  /\ pc[i] = "mkdir"
  /\ tmp = NoFile
  /\ tmp' = <<>>
  /\ GoTo(i, "enumerate")
  /\ UNCHANGED <<urls, snapshot, k, sums, entries, fd, rest, pkgs, urlsPos, bad>> /\ Quietly

\* Once an enumeration is at its end, the downloads or rmdir() follow.
AfterErase(i) ==
  IF pc[i] \in {"enumerate", "erase"} THEN "fetch" ELSE "rmdir"

\* Mutant of Enumerate: the content of an existing directory is kept.
Enumerate_KeepsContent(i) ==
  /\ pc[i] \in {"enumerate", "enumerateEnd"}
  /\ tmp # NoFile
  /\ GoTo(i, AfterErase(i))
  /\ UNCHANGED <<filesVars, k, sums, entries, fd, rest, pkgs, urlsPos, bad>> /\ Quietly

\* eraseContent(), before the downloads and at the end.
Enumerate(i) ==
  /\ pc[i] \in {"enumerate", "enumerateEnd"}
  /\ tmp # NoFile
  /\ entries' = [entries EXCEPT ![i] = DOMAIN tmp]
  /\ GoTo(i, CASE DOMAIN tmp = {} -> AfterErase(i)
              [] pc[i] = "enumerate" -> "erase"
              [] OTHER -> "eraseEnd")
  /\ UNCHANGED <<filesVars, k, sums, fd, rest, pkgs, urlsPos, bad>> /\ Quietly

Erase(i) ==
  /\ pc[i] \in {"erase", "eraseEnd"}
  /\ tmp # NoFile
  /\ \E name \in entries[i] \cap DOMAIN tmp :
       /\ tmp' = [n \in DOMAIN tmp \ {name} |-> tmp[n]]
       /\ entries' = [entries EXCEPT ![i] = @ \ {name}]
       /\ GoTo(i, IF entries[i] = {name} THEN AfterErase(i) ELSE pc[i])
  /\ UNCHANGED <<urls, snapshot, k, sums, fd, rest, pkgs, urlsPos, bad>> /\ Quietly

-----------------------------------------------------------------------------
\* FilesFetch::fetch(): the remote files, one after another.
SkipLocal(i) ==
  /\ pc[i] = "fetch"
  /\ k[i] <= Len(Repos) /\ ~ RemoteAt(i)
  /\ k' = [k EXCEPT ![i] = @ + 1]
  /\ UNCHANGED <<filesVars, pc, sums, entries, fd, rest, pkgs, urlsPos, bad>> /\ Quietly

\* processFile() creates or truncates the file; one that another run has
\* made is written to by both.
CreateTemp(i) ==
  /\ pc[i] = "fetch"
  /\ k[i] <= Len(Repos) /\ RemoteAt(i)
  /\ tmp # NoFile
  /\ LET ino == IF TempOf(i) \in DOMAIN tmp THEN tmp[TempOf(i)].ino ELSE i IN
     /\ tmp' = [n \in DOMAIN tmp \cup {TempOf(i)} |->
                 IF n = TempOf(i) THEN [ino |-> ino, text |-> <<>>] ELSE tmp[n]]
     /\ fd' = [fd EXCEPT ![i] = ino]
  /\ GoTo(i, "download")
  /\ UNCHANGED <<urls, snapshot, k, sums, entries, rest, pkgs, urlsPos, bad>> /\ Quietly

\* The data arrive, in a file that may have been unlinked.
Download(i) ==
  /\ pc[i] = "download"
  /\ LET linked == tmp # NoFile /\ TempOf(i) \in DOMAIN tmp /\ tmp[TempOf(i)].ino = fd[i] IN
     tmp' = IF linked THEN [tmp EXCEPT ![TempOf(i)].text = List(Repos[k[i]])] ELSE tmp
  /\ k' = [k EXCEPT ![i] = @ + 1]
  /\ fd' = [fd EXCEPT ![i] = 0]
  /\ GoTo(i, "fetch")
  /\ UNCHANGED <<urls, snapshot, sums, entries, rest, pkgs, urlsPos, bad>> /\ Quietly

\* urlsFile.open() truncates the old list before any new one is verified.
OpenUrls(i) ==
  /\ pc[i] = "fetch"
  /\ k[i] > Len(Repos)
  /\ urls' = <<>>
  /\ k' = [k EXCEPT ![i] = 1]
  /\ GoTo(i, "verify")
  /\ UNCHANGED <<tmp, snapshot, sums, entries, fd, rest, pkgs, urlsPos, bad>> /\ Quietly

-----------------------------------------------------------------------------
\* loadPackageData(): the file is verified, then opened again and read.
FileOf(i) ==
  IF ~ RemoteAt(i) THEN {List(Repos[k[i]])}
  ELSE IF tmp # NoFile /\ TempOf(i) \in DOMAIN tmp THEN {tmp[TempOf(i)].text} ELSE {}

\* Mutant of Verify: whatever has been downloaded is taken.
Verify_Nothing(i) ==
  /\ pc[i] = "verify"
  /\ k[i] <= Len(Repos) /\ FileOf(i) # {}
  /\ GoTo(i, "open")
  /\ UNCHANGED <<filesVars, k, sums, entries, fd, rest, pkgs, urlsPos, bad>> /\ Quietly

Verify(i) ==
  /\ pc[i] = "verify"
  /\ k[i] <= Len(Repos) /\ sums[i][k[i]] \in FileOf(i)
  /\ GoTo(i, "open")
  /\ UNCHANGED <<filesVars, k, sums, entries, fd, rest, pkgs, urlsPos, bad>> /\ Quietly

OpenList(i) ==
  /\ pc[i] = "open"
  /\ \E text \in FileOf(i) : rest' = [rest EXCEPT ![i] = text]
  /\ GoTo(i, "read")
  /\ UNCHANGED <<filesVars, k, sums, entries, fd, pkgs, urlsPos, bad>> /\ Quietly

\* One section of the list: onNewPkgFile() and a line of the file of URLs.
ReadPkg(i) ==
  /\ pc[i] = "read"
  /\ rest[i] # <<>>
  /\ rest' = [rest EXCEPT ![i] = Tail(@)]
  /\ pkgs' = [pkgs EXCEPT ![i] = @ \cup {Head(rest[i])}]
  /\ IF "urls" \in bad[i] THEN UNCHANGED <<urls, urlsPos>>
     ELSE /\ urls' = WriteAt(urls, urlsPos[i],
                       LineOf(Head(rest[i]), <<Repos[k[i]], Head(rest[i])>>))
          /\ urlsPos' = [urlsPos EXCEPT ![i] = @ + 1]
  /\ UNCHANGED <<tmp, snapshot, pc, k, sums, entries, fd, bad>> /\ Quietly

EndOfList(i) ==
  /\ pc[i] = "read"
  /\ rest[i] = <<>>
  /\ k' = [k EXCEPT ![i] = @ + 1]
  /\ GoTo(i, "verify")
  /\ UNCHANGED <<filesVars, sums, entries, fd, rest, pkgs, urlsPos, bad>> /\ Quietly

-----------------------------------------------------------------------------
\* saveToFile() truncates the old snapshot,
OpenSnapshot(i) ==
  /\ pc[i] = "verify"
  /\ k[i] > Len(Repos)
  /\ snapshot' = <<>>
  /\ k' = [k EXCEPT ![i] = 1]
  /\ GoTo(i, "sections")
  /\ UNCHANGED <<tmp, urls, sums, entries, fd, rest, pkgs, urlsPos, bad>> /\ Quietly

\* Mutant of SaveSection: the last part is forgotten.
SaveSection_Short(i) ==
  /\ pc[i] = "sections"
  /\ snapshot' = IF "snapshot" \in bad[i] THEN snapshot
                 ELSE WriteAt(snapshot, k[i], [part |-> k[i], pkgs |-> pkgs[i]])
  /\ LET more == k[i] + 1 < Sections(pkgs[i]) IN
     /\ k' = [k EXCEPT ![i] = IF more THEN @ + 1 ELSE 1]
     /\ GoTo(i, IF more THEN "sections" ELSE "enumerateEnd")
  /\ UNCHANGED <<tmp, urls, sums, entries, fd, rest, pkgs, urlsPos, bad>> /\ Quietly

\* and writes the parts of the new one; whether that worked is not looked at.
SaveSection(i) ==
  /\ pc[i] = "sections"
  /\ snapshot' = IF "snapshot" \in bad[i] THEN snapshot
                 ELSE WriteAt(snapshot, k[i], [part |-> k[i], pkgs |-> pkgs[i]])
  /\ LET more == k[i] < Sections(pkgs[i]) IN
     /\ k' = [k EXCEPT ![i] = IF more THEN @ + 1 ELSE 1]
     /\ GoTo(i, IF more THEN "sections" ELSE "enumerateEnd")
  /\ UNCHANGED <<tmp, urls, sums, entries, fd, rest, pkgs, urlsPos, bad>> /\ Quietly

\* The temporary directory goes, if it is empty, and the run is a success.
RemoveDir(i) ==
  /\ pc[i] = "rmdir"
  /\ tmp = <<>>
  /\ tmp' = NoFile
  /\ GoTo(i, "done")
  /\ Cleared(i)
  /\ disturbed' = (disturbed /\ ~ alone[i])
  /\ UNCHANGED <<layout, served, urls, snapshot, bad, faults, alone, calm>>

-----------------------------------------------------------------------------
\* What the next system call of a run needs is not there any more.
Missing(i) ==
  \/ pc[i] = "mkdir" /\ tmp # NoFile
  \/ pc[i] \in {"enumerate", "enumerateEnd"} /\ tmp = NoFile
  \/ /\ pc[i] \in {"erase", "eraseEnd"}
     /\ IF tmp = NoFile THEN entries[i] # {} ELSE ~ entries[i] \subseteq DOMAIN tmp
  \/ pc[i] = "fetch" /\ k[i] <= Len(Repos) /\ RemoteAt(i) /\ tmp = NoFile
  \/ pc[i] = "verify" /\ k[i] <= Len(Repos) /\ sums[i][k[i]] \notin FileOf(i)
  \/ pc[i] = "open" /\ FileOf(i) = {}
  \/ pc[i] = "rmdir" /\ tmp # <<>>

Refused(i) == Missing(i) /\ Fail(i)

Step(i) ==
  \/ FetchSums(i) \/ LookForDir(i) \/ MakeDir(i) \/ Enumerate(i) \/ Erase(i)
  \/ SkipLocal(i) \/ CreateTemp(i) \/ Download(i) \/ OpenUrls(i)
  \/ Verify(i) \/ OpenList(i) \/ ReadPkg(i) \/ EndOfList(i)
  \/ OpenSnapshot(i) \/ SaveSection(i) \/ RemoveDir(i) \/ Refused(i)

-----------------------------------------------------------------------------
\* The surroundings: kills, the network, the disk, and the repositories.
Fault == faults < MaxFaults /\ faults' = faults + 1

Kill(i) ==
  /\ Fault
  /\ i \in Running
  /\ GoTo(i, "killed")
  /\ Cleared(i)
  /\ UNCHANGED <<layout, bad, served, filesVars, ghostVars>>

NetworkFails(i) ==
  /\ Fault
  /\ \/ pc[i] = "download"
     \/ pc[i] = "sums" /\ k[i] <= Len(Repos)
  /\ GoTo(i, "failed")
  /\ Cleared(i)
  /\ calm' = [calm EXCEPT ![i] = FALSE]
  /\ UNCHANGED <<layout, bad, served, filesVars, alone, disturbed>>

\* A stream that failed once drops everything written to it.
DiskFails(i) ==
  /\ Fault
  /\ \E stream \in {"urls", "snapshot"} \ bad[i] :
       /\ pc[i] = IF stream = "urls" THEN "read" ELSE "sections"
       /\ bad' = [bad EXCEPT ![i] = @ \cup {stream}]
  /\ UNCHANGED <<layout, served, filesVars, pc, k, sums, entries, fd, rest, pkgs, urlsPos, ghostVars>>

Publish ==
  /\ \E r \in RepoSet :
       /\ served[r] < Len(Published[r])
       /\ served' = [served EXCEPT ![r] = @ + 1]
  /\ calm' = [j \in Runs |-> calm[j] /\ j \notin Running]
  /\ UNCHANGED <<layout, filesVars, runVars, faults, alone, disturbed>>

UpdateNext ==
  \/ Publish
  \/ \E i \in Runs : Start(i) \/ Step(i) \/ Kill(i) \/ NetworkFails(i) \/ DiskFails(i)
=============================================================================
