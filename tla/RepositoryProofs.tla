-------------------------- MODULE RepositoryProofs --------------------------
(***************************************************************************)
(* The index and its clients, for all packages, parameters, external       *)
(* references, and any number of runs and interruptions.                   *)
(*                                                                         *)
(* What a client loads was released: the sums a program is about to write  *)
(* were taken from the packages list on the disk (SumsAreFresh), so a file *)
(* of sums that has an entry for it and for the info file belongs to the   *)
(* last release (SumsAreReleased), and such a file is the only kind that a *)
(* client goes on with (ClientHasReleasedSums).                            *)
(*                                                                         *)
(* What is on the disk is known at every step of every program (WholeInv): *)
(* which sums are in memory and on the disk (SumsInv), which packages each *)
(* list names, before and after ds-patch has come to it (ListsInv), what a *)
(* list provides (CompleteInv), how it differs from the last release       *)
(* (ChangeInv), and that nothing is missing unless a program was           *)
(* interrupted (CalmInv).  The other theorems follow.                      *)
(***************************************************************************)
EXTENDS Repository, TLAPS

ReleasesSeq == releases \in Seq({releases[i] : i \in DOMAIN releases})

\* Where a program is, the packages list is there to take its sum from.
PackagesExist ==
  /\ pc \in {"collect", "filter", "register", "resum", "resumone"} => "packages" \in DOMAIN disk
  /\ pc \in {"patch", "unlink", "move"} /\ pos # 1 => "packages" \in DOMAIN disk
  /\ pc \notin {"patch", "unlink", "move"} => pos = 1
  /\ pos \in 1 .. 6

SumsAreFresh ==
  pc \in DOMAIN Releaser /\ "packages" \in DOMAIN sums =>
    "packages" \in DOMAIN disk /\ sums["packages"] = disk["packages"]

SumsAreReleased ==
  Exists("md5") /\ {"info", "packages"} \subseteq DOMAIN disk["md5"] =>
    releases # <<>> /\ releases[Len(releases)].list = disk["md5"]["packages"]

Released(content) == \E i \in 1 .. Len(releases) : i >= since /\ releases[i].list = content

ClientHasReleasedSums ==
  /\ since \in Nat /\ since <= Len(releases)
  /\ stage \in {"checksums", "fetched"} /\ "packages" \in DOMAIN m_checksums =>
       Released(m_checksums["packages"])
  /\ stage = "loaded" => Released(list)

\* The part of the invariant that is about the programs alone.
IndexInv == ReleasesSeq /\ PackagesExist /\ SumsAreFresh /\ SumsAreReleased

Inv == IndexInv /\ ClientHasReleasedSums

-----------------------------------------------------------------------------
\* What appending to a sequence keeps and adds.
LEMMA AppendFacts ==
  ASSUME NEW S, NEW s \in Seq(S), NEW e
  PROVE  /\ Append(s, e) \in Seq(S \cup {e})
         /\ Len(s) \in Nat
         /\ Len(Append(s, e)) = Len(s) + 1
         /\ Append(s, e)[Len(s) + 1] = e
         /\ \A i \in 1 .. Len(s) : Append(s, e)[i] = s[i]
<1>1. s \in Seq(S \cup {e})
  OBVIOUS
<1>. QED BY <1>1

\* A sequence is one over its own members.
LEMMA OwnMembers ==
  ASSUME NEW S, NEW s \in Seq(S)
  PROVE  s \in Seq({s[i] : i \in DOMAIN s})
OBVIOUS

\* The names of the lists are different from those of the other files.
LEMMA FileNames ==
  /\ Lists = {"packages", "descr", "sources", "srcdescr", "complete", "filelist"}
  /\ PatchOrder[1] = "packages"
  /\ \A i \in 2 .. 6 : PatchOrder[i] # "packages"
  /\ \A i \in 1 .. 6 : PatchOrder[i] # "md5" /\ PatchOrder[i] \in Lists
<1>1. /\ PatchOrder[1] = "packages" /\ PatchOrder[2] = "descr" /\ PatchOrder[3] = "sources"
      /\ PatchOrder[4] = "srcdescr" /\ PatchOrder[5] = "complete" /\ PatchOrder[6] = "filelist"
  BY DEF PatchOrder
<1>2. \A i \in 1 .. 6 : i = 1 \/ i = 2 \/ i = 3 \/ i = 4 \/ i = 5 \/ i = 6
  OBVIOUS
<1>. QED BY <1>1, <1>2 DEF Lists

\* A step of a program that neither takes sums nor writes them: it keeps
\* what the invariant says of sums.
LEMMA SumsUntouched ==
  ASSUME SumsAreReleased, UNCHANGED releases,
         "md5" \in DOMAIN disk' <=> "md5" \in DOMAIN disk,
         "md5" \in DOMAIN disk => disk'["md5"] = disk["md5"],
         pc' \notin DOMAIN Releaser
  PROVE  SumsAreReleased' /\ SumsAreFresh'
BY DEF SumsAreReleased, SumsAreFresh, Exists, Releaser

-----------------------------------------------------------------------------
LEMMA InitInv == RepositoryInit => Inv
<1>. SUFFICES ASSUME RepositoryInit PROVE Inv
  OBVIOUS
<1>. USE DEF RepositoryInit, Init, EmptyFile
<1>1. ReleasesSeq
  BY DEF ReleasesSeq
<1>2. PackagesExist /\ SumsAreFresh
  BY DEF PackagesExist, SumsAreFresh, Releaser
<1>3. SumsAreReleased
  BY DEF SumsAreReleased, Exists
<1>4. ClientHasReleasedSums
  BY DEF ClientHasReleasedSums
<1>. QED BY <1>1, <1>2, <1>3, <1>4 DEF Inv, IndexInv

\* The first step of a program.
LEMMA StartKeepsInv ==
  ASSUME IndexInv, Start
  PROVE  IndexInv' /\ UNCHANGED releases
<1>. USE DEF IndexInv, Run
<1>1. ASSUME NEW S, NEW external, StartRepo(S, external)
      PROVE  IndexInv' /\ UNCHANGED releases
  <2>1. UNCHANGED releases /\ pc = "idle" /\ pc' = "info" /\ pos' = pos
    BY <1>1 DEF StartRepo
  <2>2. DOMAIN disk' = {"info"}
    BY <1>1 DEF StartRepo, With, EmptyFile
  <2>3. ReleasesSeq' /\ PackagesExist'
    BY <2>1 DEF ReleasesSeq, PackagesExist
  <2>4. SumsAreFresh' /\ SumsAreReleased'
    BY <2>1, <2>2 DEF SumsAreFresh, SumsAreReleased, Exists, Releaser
  <2>. QED BY <2>1, <2>3, <2>4
<1>2. ASSUME NEW A, NEW D, StartPatch(A, D)
      PROVE  IndexInv' /\ UNCHANGED releases
  <2>1. UNCHANGED <<releases, disk, pos>> /\ pc' = "patch" /\ pc = "idle"
    BY <1>2 DEF StartPatch
  <2>2. ReleasesSeq'
    BY <2>1 DEF ReleasesSeq
  <2>3. PackagesExist'
    BY <1>2, <2>1 DEF PackagesExist, StartPatch
  <2>4. SumsAreFresh' /\ SumsAreReleased'
    BY <2>1, SumsUntouched DEF Releaser
  <2>. QED BY <2>1, <2>2, <2>3, <2>4
<1>3. ASSUME NEW external, StartProvides(external)
      PROVE  IndexInv' /\ UNCHANGED releases
  <2>1. UNCHANGED <<releases, disk, pos>> /\ pc = "idle" /\ pc' = "drop"
    BY <1>3 DEF StartProvides
  <2>2. ReleasesSeq' /\ PackagesExist'
    BY <2>1 DEF ReleasesSeq, PackagesExist
  <2>3. SumsAreFresh' /\ SumsAreReleased'
    BY <2>1, SumsUntouched DEF Releaser
  <2>. QED BY <2>1, <2>2, <2>3
<1>. QED BY <1>1, <1>2, <1>3 DEF Start

\* The steps of ds-repo.
LEMMA RepoKeepsInv ==
  ASSUME IndexInv, RepoStep
  PROVE  IndexInv' /\ UNCHANGED releases
<1>. USE DEF IndexInv
<1>0. ASSUME UNCHANGED <<releases, pos>>, PackagesExist', SumsAreFresh', SumsAreReleased'
      PROVE  IndexInv' /\ UNCHANGED releases
  BY <1>0 DEF ReleasesSeq
<1>1. CASE WriteInfo
  <2>1. pc = "info" /\ pc' = "create" /\ UNCHANGED <<releases, pos>>
    BY <1>1 DEF WriteInfo, inputVars, historyVars
  <2>2. /\ "md5" \in DOMAIN disk' <=> "md5" \in DOMAIN disk
        /\ "md5" \in DOMAIN disk => disk'["md5"] = disk["md5"]
    BY <1>1 DEF WriteInfo, With
  <2>3. SumsAreReleased' /\ SumsAreFresh'
    BY <2>1, <2>2, SumsUntouched DEF Releaser
  <2>4. PackagesExist'
    BY <2>1 DEF PackagesExist
  <2>. QED BY <2>1, <2>3, <2>4, <1>0
<1>2. CASE CreateLists
  <2>1. pc = "create" /\ pc' = "collect" /\ UNCHANGED <<releases, pos>>
    BY <1>2 DEF CreateLists, inputVars, historyVars
  <2>2. /\ "md5" \in DOMAIN disk' <=> "md5" \in DOMAIN disk
        /\ "md5" \in DOMAIN disk => disk'["md5"] = disk["md5"]
        /\ "packages" \in DOMAIN disk'
    BY <1>2, FileNames DEF CreateLists
  <2>3. SumsAreReleased' /\ SumsAreFresh'
    BY <2>1, <2>2, SumsUntouched DEF Releaser
  <2>4. PackagesExist'
    BY <2>1, <2>2 DEF PackagesExist
  <2>. QED BY <2>1, <2>3, <2>4, <1>0
<1>3. CASE CollectPackages
  <2>1. pc = "collect" /\ pc' \in {"filter", "register"} /\ UNCHANGED <<releases, pos>>
    BY <1>3 DEF CollectPackages, inputVars, historyVars
  <2>2. /\ DOMAIN disk' = DOMAIN disk
        /\ "md5" \in DOMAIN disk => disk'["md5"] = disk["md5"]
    BY <1>3, FileNames DEF CollectPackages
  <2>3. SumsAreReleased' /\ SumsAreFresh'
    BY <2>1, <2>2, SumsUntouched DEF Releaser
  <2>4. PackagesExist'
    BY <2>1, <2>2 DEF PackagesExist
  <2>. QED BY <2>1, <2>3, <2>4, <1>0
<1>4. CASE FilterPackages
  <2>1. pc = "filter" /\ pc' = "register" /\ UNCHANGED <<releases, pos>>
    BY <1>4 DEF FilterPackages, inputVars, historyVars
  <2>2. /\ "md5" \in DOMAIN disk' <=> "md5" \in DOMAIN disk
        /\ "md5" \in DOMAIN disk => disk'["md5"] = disk["md5"]
        /\ "packages" \in DOMAIN disk'
    BY <1>4 DEF FilterPackages, With
  <2>3. SumsAreReleased' /\ SumsAreFresh'
    BY <2>1, <2>2, SumsUntouched DEF Releaser
  <2>4. PackagesExist'
    BY <2>1, <2>2 DEF PackagesExist
  <2>. QED BY <2>1, <2>3, <2>4, <1>0
<1>5. CASE RegisterFiles
  <2>1. pc = "register" /\ pc' = "repo" /\ UNCHANGED <<releases, pos>>
    BY <1>5 DEF RegisterFiles, inputVars, historyVars
  <2>2. "packages" \in DOMAIN disk
    BY <2>1 DEF PackagesExist
  <2>3. SumsAreFresh'
    BY <1>5, <2>2, FileNames DEF RegisterFiles, SumsAreFresh, SummedFiles, Resummed, With
  <2>4. SumsAreReleased'
    BY <1>5 DEF RegisterFiles, SumsAreReleased, With, Exists, EmptyFile
  <2>5. PackagesExist'
    BY <2>1 DEF PackagesExist
  <2>. QED BY <2>1, <2>3, <2>4, <2>5, <1>0
<1>. QED BY <1>1, <1>2, <1>3, <1>4, <1>5 DEF RepoStep

\* The steps of ds-patch.  Only the first list is the packages list: once it
\* has been moved back, no step takes it away.
LEMMA PatchKeepsInv ==
  ASSUME IndexInv, PatchStep
  PROVE  IndexInv' /\ UNCHANGED releases
<1>. USE DEF IndexInv
<1>0. ASSUME UNCHANGED releases, PackagesExist', SumsAreFresh', SumsAreReleased'
      PROVE  IndexInv' /\ UNCHANGED releases
  BY <1>0 DEF ReleasesSeq
<1>1. CASE PatchList
  <2>1. pc = "patch" /\ pc' = "unlink" /\ UNCHANGED <<releases, pos>>
    BY <1>1 DEF PatchList, inputVars, historyVars
  <2>2. /\ "md5" \in DOMAIN disk' <=> "md5" \in DOMAIN disk
        /\ "md5" \in DOMAIN disk => disk'["md5"] = disk["md5"]
        /\ DOMAIN disk \subseteq DOMAIN disk'
    BY <1>1 DEF PatchList, With
  <2>3. SumsAreReleased' /\ SumsAreFresh'
    BY <2>1, <2>2, SumsUntouched DEF Releaser
  <2>4. PackagesExist'
    BY <2>1, <2>2 DEF PackagesExist
  <2>. QED BY <2>1, <2>3, <2>4, <1>0
<1>2. CASE UnlinkList
  <2>1. pc = "unlink" /\ pc' = "move" /\ UNCHANGED <<releases, pos>> /\ pos \in 1 .. 6
    BY <1>2 DEF UnlinkList, inputVars, historyVars, PackagesExist
  <2>2. disk' = Without(PatchOrder[pos])
    BY <1>2 DEF UnlinkList
  <2>3. /\ "md5" \in DOMAIN disk' <=> "md5" \in DOMAIN disk
        /\ "md5" \in DOMAIN disk => disk'["md5"] = disk["md5"]
    BY <2>1, <2>2, FileNames DEF Without
  <2>4. SumsAreReleased' /\ SumsAreFresh'
    BY <2>1, <2>3, SumsUntouched DEF Releaser
  <2>5. pos # 1 => "packages" \in DOMAIN disk'
    BY <2>1, <2>2, FileNames DEF Without, PackagesExist
  <2>6. PackagesExist'
    BY <2>1, <2>5 DEF PackagesExist
  <2>. QED BY <2>1, <2>4, <2>6, <1>0
<1>3. CASE MoveList
  <2>1. pc = "move" /\ UNCHANGED releases /\ pos \in 1 .. 6
    BY <1>3 DEF MoveList, inputVars, historyVars, PackagesExist
  <2>2. /\ pos < 6 => pos' = pos + 1 /\ pc' = "patch"
        /\ ~ (pos < 6) => pos' = 1 /\ pc' = "resum"
    BY <1>3 DEF MoveList
  <2>3. /\ DOMAIN disk' = (DOMAIN disk \ {"tmp"}) \cup {PatchOrder[pos]}
        /\ \A f \in DOMAIN disk' : f # PatchOrder[pos] => disk'[f] = disk[f]
    BY <1>3 DEF MoveList
  <2>4. /\ "md5" \in DOMAIN disk' <=> "md5" \in DOMAIN disk
        /\ "md5" \in DOMAIN disk => disk'["md5"] = disk["md5"]
    BY <2>1, <2>3, FileNames
  <2>5. SumsAreReleased' /\ SumsAreFresh'
    BY <2>1, <2>2, <2>4, SumsUntouched DEF Releaser
  <2>6. "packages" \in DOMAIN disk'
    BY <2>1, <2>3, FileNames DEF PackagesExist
  <2>7. PackagesExist'
    BY <2>1, <2>2, <2>6 DEF PackagesExist
  <2>. QED BY <2>1, <2>5, <2>7, <1>0
<1>4. CASE ResumLists
  <2>1. pc = "resum" /\ pc' = "patched" /\ UNCHANGED <<releases, pos>>
    BY <1>4 DEF ResumLists, inputVars, historyVars
  <2>2. "packages" \in DOMAIN disk
    BY <2>1 DEF PackagesExist
  <2>3. SumsAreFresh'
    BY <1>4, <2>2 DEF ResumLists, SumsAreFresh, Resummed, With
  <2>4. SumsAreReleased'
    BY <1>4 DEF ResumLists, SumsAreReleased, With, Exists, EmptyFile
  <2>5. PackagesExist'
    BY <2>1 DEF PackagesExist
  <2>. QED BY <2>1, <2>3, <2>4, <2>5, <1>0
<1>. QED BY <1>1, <1>2, <1>3, <1>4 DEF PatchStep

\* The steps of ds-provides.
LEMMA ProvidesKeepsInv ==
  ASSUME IndexInv, ProvidesStep
  PROVE  IndexInv' /\ UNCHANGED releases
<1>. USE DEF IndexInv
<1>0. ASSUME UNCHANGED releases, PackagesExist', SumsAreFresh', SumsAreReleased'
      PROVE  IndexInv' /\ UNCHANGED releases
  BY <1>0 DEF ReleasesSeq
<1>1. CASE DropPackages
  <2>1. pc = "drop" /\ pc' = "anew" /\ UNCHANGED <<releases, pos>>
    BY <1>1 DEF DropPackages, inputVars, historyVars
  <2>2. /\ "md5" \in DOMAIN disk' <=> "md5" \in DOMAIN disk
        /\ "md5" \in DOMAIN disk => disk'["md5"] = disk["md5"]
    BY <1>1 DEF DropPackages, Without
  <2>3. SumsAreReleased' /\ SumsAreFresh'
    BY <2>1, <2>2, SumsUntouched DEF Releaser
  <2>4. PackagesExist'
    BY <2>1 DEF PackagesExist
  <2>. QED BY <2>1, <2>3, <2>4, <1>0
<1>2. CASE CreatePackages
  <2>1. pc = "anew" /\ pc' = "refill" /\ UNCHANGED <<releases, pos>>
    BY <1>2 DEF CreatePackages, inputVars, historyVars
  <2>2. /\ "md5" \in DOMAIN disk' <=> "md5" \in DOMAIN disk
        /\ "md5" \in DOMAIN disk => disk'["md5"] = disk["md5"]
    BY <1>2 DEF CreatePackages, With
  <2>3. SumsAreReleased' /\ SumsAreFresh'
    BY <2>1, <2>2, SumsUntouched DEF Releaser
  <2>4. PackagesExist'
    BY <2>1 DEF PackagesExist
  <2>. QED BY <2>1, <2>3, <2>4, <1>0
<1>3. CASE RefillPackages
  <2>1. pc = "refill" /\ pc' = "resumone" /\ UNCHANGED <<releases, pos>>
    BY <1>3 DEF RefillPackages, inputVars, historyVars
  <2>2. /\ "md5" \in DOMAIN disk' <=> "md5" \in DOMAIN disk
        /\ "md5" \in DOMAIN disk => disk'["md5"] = disk["md5"]
        /\ "packages" \in DOMAIN disk'
    BY <1>3 DEF RefillPackages, With
  <2>3. SumsAreReleased' /\ SumsAreFresh'
    BY <2>1, <2>2, SumsUntouched DEF Releaser
  <2>4. PackagesExist'
    BY <2>1, <2>2 DEF PackagesExist
  <2>. QED BY <2>1, <2>3, <2>4, <1>0
<1>4. CASE ResumPackages
  <2>1. pc = "resumone" /\ pc' = "provided" /\ UNCHANGED <<releases, pos>>
    BY <1>4 DEF ResumPackages, inputVars, historyVars
  <2>2. "packages" \in DOMAIN disk
    BY <2>1 DEF PackagesExist
  <2>3. SumsAreFresh'
    BY <1>4, <2>2 DEF ResumPackages, SumsAreFresh, Resummed, With
  <2>4. SumsAreReleased'
    BY <1>4 DEF ResumPackages, SumsAreReleased, With, Exists, EmptyFile
  <2>5. PackagesExist'
    BY <2>1 DEF PackagesExist
  <2>. QED BY <2>1, <2>3, <2>4, <2>5, <1>0
<1>. QED BY <1>1, <1>2, <1>3, <1>4 DEF ProvidesStep

\* The end of a run without a release: an exception or an interruption.
LEMMA EndKeepsInv ==
  ASSUME IndexInv, NothingRuns, UNCHANGED <<disk, releases>>
  PROVE  IndexInv'
<1>1. ReleasesSeq'
  BY DEF IndexInv, ReleasesSeq
<1>2. PackagesExist'
  BY DEF NothingRuns, PackagesExist
<1>3. SumsAreFresh' /\ SumsAreReleased'
  BY SumsUntouched DEF IndexInv, NothingRuns, Releaser
<1>. QED BY <1>1, <1>2, <1>3 DEF IndexInv

\* The sums are written: if clients can use them, the list they vouch for is
\* the release that is made with them.
LEMMA WriteSumsKeepsInv ==
  ASSUME IndexInv, WriteSums
  PROVE  IndexInv'
<1>. USE DEF IndexInv
<1>1. pc \in DOMAIN Releaser /\ NothingRuns /\ disk' = With(sums, "md5")
  BY DEF WriteSums
<1>2. PackagesExist' /\ SumsAreFresh'
  BY <1>1 DEF NothingRuns, PackagesExist, SumsAreFresh, Releaser
<1>3. "md5" \in DOMAIN disk' /\ disk'["md5"] = sums
  BY <1>1 DEF With
<1>4. CASE {"info", "packages"} \subseteq DOMAIN sums
  <2>. DEFINE new == [tool |-> Releaser[pc], list |-> disk["packages"], ext |-> ext]
              S == {releases[i] : i \in DOMAIN releases}
  <2>1. releases' = Append(releases, new)
    BY <1>4 DEF WriteSums
  <2>2. /\ releases' \in Seq(S \cup {new})
        /\ Len(releases) \in Nat
        /\ Len(releases') = Len(releases) + 1
        /\ releases'[Len(releases')] = new
    BY <2>1, AppendFacts DEF ReleasesSeq
  <2>3. ReleasesSeq'
    BY <2>2, OwnMembers DEF ReleasesSeq
  <2>4. sums["packages"] = disk["packages"]
    BY <1>1, <1>4 DEF SumsAreFresh
  <2>5. releases' # <<>> /\ releases'[Len(releases')].list = disk'["md5"]["packages"]
    BY <1>3, <2>2, <2>4
  <2>. QED BY <1>2, <2>3, <2>5 DEF SumsAreReleased
<1>5. CASE ~ ({"info", "packages"} \subseteq DOMAIN sums)
  <2>1. UNCHANGED releases
    BY <1>5 DEF WriteSums
  <2>2. ReleasesSeq'
    BY <2>1 DEF ReleasesSeq
  <2>3. SumsAreReleased'
    BY <1>3, <1>5 DEF SumsAreReleased
  <2>. QED BY <1>2, <2>2, <2>3
<1>. QED BY <1>4, <1>5

\* Every step of the programs keeps the invariant of the index, and adds to
\* the releases at most.
LEMMA NextKeepsIndexInv ==
  ASSUME IndexInv, Next
  PROVE  IndexInv' /\ (UNCHANGED releases \/ \E e : releases' = Append(releases, e))
<1>1. CASE Start
  BY <1>1, StartKeepsInv
<1>2. CASE RepoStep \/ PatchStep \/ ProvidesStep
  BY <1>2, RepoKeepsInv, PatchKeepsInv, ProvidesKeepsInv
<1>3. CASE WriteSums
  <2>1. UNCHANGED releases \/ \E e : releases' = Append(releases, e)
    BY <1>3 DEF WriteSums
  <2>. QED BY <1>3, <2>1, WriteSumsKeepsInv
<1>4. CASE StopAtMissing \/ Crash
  <2>1. NothingRuns /\ UNCHANGED <<disk, releases>>
    BY <1>4 DEF StopAtMissing, Stops, Crash, historyVars
  <2>. QED BY <2>1, EndKeepsInv
<1>. QED BY <1>1, <1>2, <1>3, <1>4 DEF Next, ToolStep

-----------------------------------------------------------------------------
\* What was released stays released.
LEMMA ReleasedStays ==
  ASSUME ReleasesSeq, since \in Nat, UNCHANGED since,
         UNCHANGED releases \/ \E e : releases' = Append(releases, e)
  PROVE  /\ Len(releases) <= Len(releases')
         /\ \A content : Released(content) => Released(content)'
<1>1. CASE UNCHANGED releases
  BY <1>1 DEF Released, ReleasesSeq
<1>2. CASE \E e : releases' = Append(releases, e)
  <2>1. PICK e : releases' = Append(releases, e)
    BY <1>2
  <2>2. /\ Len(releases) \in Nat
        /\ Len(releases') = Len(releases) + 1
        /\ \A i \in 1 .. Len(releases) : releases'[i] = releases[i]
    BY <2>1, AppendFacts DEF ReleasesSeq
  <2>3. ASSUME NEW content, Released(content)
        PROVE  Released(content)'
    <3>1. PICK i \in 1 .. Len(releases) : i >= since /\ releases[i].list = content
      BY <2>3 DEF Released
    <3>2. i \in 1 .. Len(releases') /\ releases'[i].list = content
      BY <2>2, <3>1
    <3>. QED BY <3>1, <3>2 DEF Released
  <2>. QED BY <2>2, <2>3
<1>. QED BY <1>1, <1>2

\* A step of a program keeps what the client knows.
LEMMA IndexStepKeepsInv ==
  ASSUME Inv, IndexStep
  PROVE  Inv'
<1>1. /\ IndexInv'
      /\ UNCHANGED releases \/ \E e : releases' = Append(releases, e)
  BY NextKeepsIndexInv DEF Inv, IndexStep
<1>2. UNCHANGED <<stage, m_checksums, list, since>>
  BY DEF IndexStep
<1>3. /\ Len(releases) <= Len(releases')
      /\ \A content : Released(content) => Released(content)'
  BY <1>1, <1>2, ReleasedStays DEF Inv, IndexInv, ClientHasReleasedSums
<1>4. Len(releases) \in Nat /\ Len(releases') \in Nat
  BY <1>1 DEF Inv, IndexInv, ReleasesSeq
<1>5. ClientHasReleasedSums'
  BY <1>2, <1>3, <1>4 DEF Inv, ClientHasReleasedSums
<1>. QED BY <1>1, <1>5 DEF Inv

\* A step of the client keeps the index and what the client knows.
LEMMA ClientStepKeepsInv ==
  ASSUME Inv, ClientStep
  PROVE  Inv'
<1>. USE DEF Inv
<1>1. UNCHANGED indexVars
  BY DEF ClientStep, FetchInfo, FetchChecksums, FetchPackages, LoadPackageData,
         FetchMissing, FetchFails
<1>2. IndexInv'
  BY <1>1 DEF indexVars, historyVars, IndexInv, ReleasesSeq, PackagesExist, SumsAreFresh,
              SumsAreReleased, Exists
<1>3. UNCHANGED releases /\ Len(releases) \in Nat
  BY <1>1 DEF indexVars, historyVars, IndexInv, ReleasesSeq
<1>4. CASE FetchInfo
  BY <1>2, <1>3, <1>4 DEF FetchInfo, ClientHasReleasedSums
<1>5. CASE FetchChecksums
  <2>1. UNCHANGED since /\ stage' \in {"checksums", "failed"} /\ m_checksums' = disk["md5"]
    BY <1>5 DEF FetchChecksums
  <2>2. ASSUME stage' = "checksums", "packages" \in DOMAIN m_checksums'
        PROVE  Released(m_checksums["packages"])'
    <3>1. Exists("md5") /\ {"info", "packages"} \subseteq DOMAIN disk["md5"]
      BY <1>5, <2>1, <2>2 DEF FetchChecksums
    <3>2. releases # <<>> /\ releases[Len(releases)].list = m_checksums'["packages"]
      BY <2>1, <3>1 DEF IndexInv, SumsAreReleased
    <3>3. Len(releases) \in 1 .. Len(releases) /\ Len(releases) >= since
      BY <3>2 DEF IndexInv, ReleasesSeq, ClientHasReleasedSums
    <3>. QED BY <1>3, <2>1, <3>2, <3>3 DEF Released
  <2>. QED BY <1>2, <1>3, <2>1, <2>2 DEF ClientHasReleasedSums
<1>6. CASE FetchPackages
  BY <1>2, <1>3, <1>6 DEF FetchPackages, ClientHasReleasedSums, Released
<1>7. CASE LoadPackageData
  BY <1>2, <1>3, <1>7 DEF LoadPackageData, ClientHasReleasedSums, Released
<1>8. CASE FetchMissing \/ FetchFails
  BY <1>2, <1>3, <1>8 DEF FetchMissing, FetchFails, ClientHasReleasedSums
<1>. QED BY <1>4, <1>5, <1>6, <1>7, <1>8 DEF ClientStep

-----------------------------------------------------------------------------
\* The sums in a file that vouches for the packages list and the info file
\* are those of the last release, and those a client goes on with are of one
\* not older than its start.
THEOREM InvHolds == RepositorySpec => []Inv
<1>1. RepositoryInit => Inv
  BY InitInv
<1>2. Inv /\ [RepositoryNext]_vars => Inv'
  <2>. SUFFICES ASSUME Inv, [RepositoryNext]_vars PROVE Inv'
    OBVIOUS
  <2>1. CASE IndexStep
    BY <2>1, IndexStepKeepsInv
  <2>2. CASE ClientStep
    BY <2>2, ClientStepKeepsInv
  <2>3. CASE UNCHANGED vars
    BY <2>3 DEF vars, indexVars, clientVars, historyVars, Inv, IndexInv, ReleasesSeq, PackagesExist,
                SumsAreFresh, SumsAreReleased, ClientHasReleasedSums, Released, Exists
  <2>. QED BY <2>1, <2>2, <2>3 DEF RepositoryNext
<1>. QED BY <1>1, <1>2, PTL DEF RepositorySpec

\* A packages list that a client loads was released, and no later release had
\* replaced it when the client began, whatever programs ran or were
\* interrupted meanwhile (fetchInfoAndChecksum, loadPackageData).
THEOREM LoadedIsPublished == RepositorySpec => []ClientLoadsPublished
<1>1. Inv => ClientLoadsPublished
  BY DEF Inv, ClientHasReleasedSums, ClientLoadsPublished, Released
<1>. QED BY <1>1, InvHolds, PTL
-----------------------------------------------------------------------------
\* What a file that is written, removed or summed leaves of the others.
LEMMA WithFacts ==
  ASSUME NEW content, NEW file
  PROVE  /\ DOMAIN With(content, file) = DOMAIN disk \cup {file}
         /\ With(content, file)[file] = content
         /\ \A g \in DOMAIN disk : g # file => With(content, file)[g] = disk[g]
BY DEF With

LEMMA WithoutFacts ==
  ASSUME NEW file
  PROVE  /\ DOMAIN Without(file) = DOMAIN disk \ {file}
         /\ \A g \in DOMAIN disk : g # file => Without(file)[g] = disk[g]
BY DEF Without

\* What is moved to the place of a list.
LEMMA MoveFacts ==
  ASSUME pc = "move", "tmp" \in DOMAIN disk, pos \in 1 .. 6, MoveList
  PROVE  /\ DOMAIN disk' = (DOMAIN disk \ {"tmp"}) \cup {PatchOrder[pos]}
         /\ disk'[PatchOrder[pos]] = disk["tmp"]
         /\ \A g \in DOMAIN disk' : g # PatchOrder[pos] => disk'[g] = disk[g]
         /\ \/ pos < 6 /\ pos' = pos + 1 /\ pc' = "patch"
            \/ pos = 6 /\ pos' = 1 /\ pc' = "resum"
BY DEF MoveList

\* The files have names of their own.
LEMMA SummedNames ==
  /\ SummedFiles = {"packages", "descr", "sources", "srcdescr", "filelist", "info"}
  /\ PatchOrder[1] = "packages" /\ PatchOrder[2] = "descr" /\ PatchOrder[3] = "sources"
  /\ PatchOrder[4] = "srcdescr" /\ PatchOrder[5] = "complete" /\ PatchOrder[6] = "filelist"
<1>1. /\ PatchOrder[1] = "packages" /\ PatchOrder[2] = "descr" /\ PatchOrder[3] = "sources"
      /\ PatchOrder[4] = "srcdescr" /\ PatchOrder[5] = "complete" /\ PatchOrder[6] = "filelist"
  BY DEF PatchOrder
<1>. QED BY <1>1, FileNames DEF SummedFiles

-----------------------------------------------------------------------------
\* The types.

Repoing == {"info", "create", "collect", "filter", "register"}
Patching == {"patch", "unlink", "move", "resum"}
Refiltering == {"drop", "anew", "refill", "resumone"}

Pcs == {"idle", "repo", "patched", "provided"} \cup Repoing \cup Patching \cup Refiltering

AllRefs == Names \cup (UNION {Refs[p] : p \in Packages}) \cup (UNION ExternalRefs)

\* Every list on the disk is one of packages and their names.
DiskInv ==
  /\ DOMAIN disk \subseteq Lists \cup {"info", "md5", "tmp"}
  /\ \A f \in DOMAIN disk : f \in Lists \cup {"tmp"} => Abstract!IsPackageList(disk[f])

\* What a program has in memory, and the files it counts on.
MemoryInv ==
  /\ pc \in Pcs
  /\ pc \in {"unlink", "move"} => "tmp" \in DOMAIN disk
  /\ pc \in {"collect", "filter", "register", "repo"} => Lists \subseteq DOMAIN disk
  /\ ext \subseteq AllRefs /\ refs \subseteq AllRefs
  /\ add \subseteq Packages /\ del \subseteq Packages
  /\ pc = "idle" => sums = EmptyFile /\ refs = {} /\ add = {} /\ del = {}

\* There are no more releases and interruptions than runs that have ended.
CountInv ==
  /\ runs \in Nat /\ crashes \in Nat
  /\ Len(releases) + crashes + (IF pc = "idle" THEN 0 ELSE 1) <= runs

TypesInv == DiskInv /\ MemoryInv /\ CountInv

\* Sections and filters yield lists of packages and names.
LEMMA ListTypes ==
  /\ Abstract!IsPackageList(EmptyFile)
  /\ \A p \in Packages : AllProvides(p) \subseteq Names
  /\ \A S \in SUBSET Packages : \A f : Kind(f, S) \subseteq S
  /\ \A names : ByDirs(names) \subseteq names /\ KeptByRefs(names) \subseteq names /\ Kept(names) \subseteq names
  /\ \A S \in SUBSET Packages : RefsOf(S) \subseteq AllRefs
<1>1. Abstract!IsPackageList(EmptyFile)
  BY DEF Abstract!IsPackageList, EmptyFile
<1>2. \A p \in Packages : AllProvides(p) \subseteq Names
  BY DEF Names
<1>3. \A S \in SUBSET Packages : \A f : Kind(f, S) \subseteq S
  BY DEF Kind, Binary
<1>4. \A names : ByDirs(names) \subseteq names /\ KeptByRefs(names) \subseteq names
  BY DEF ByDirs, KeptByRefs
<1>5. \A names : Kept(names) \subseteq names
  BY <1>4 DEF Kept
<1>6. \A S \in SUBSET Packages : RefsOf(S) \subseteq AllRefs
  BY DEF RefsOf, AllRefs
<1>. QED BY <1>1, <1>2, <1>3, <1>4, <1>5, <1>6

\* A filter keeps a list of packages one.
LEMMA FilteredTypes ==
  ASSUME NEW old, Abstract!IsPackageList(old)
  PROVE  /\ Abstract!IsPackageList(Filtered(old, KeptByRefs))
         /\ Abstract!IsPackageList(Filtered(old, Kept))
         /\ DOMAIN Filtered(old, KeptByRefs) = DOMAIN old
         /\ DOMAIN Filtered(old, Kept) = DOMAIN old
         /\ \A p \in DOMAIN old : Filtered(old, KeptByRefs)[p] = KeptByRefs(old[p])
         /\ \A p \in DOMAIN old : Filtered(old, Kept)[p] = Kept(old[p])
<1>1. /\ DOMAIN Filtered(old, KeptByRefs) = DOMAIN old
      /\ DOMAIN Filtered(old, Kept) = DOMAIN old
      /\ \A p \in DOMAIN old : Filtered(old, KeptByRefs)[p] = KeptByRefs(old[p])
      /\ \A p \in DOMAIN old : Filtered(old, Kept)[p] = Kept(old[p])
  BY DEF Filtered
<1>2. \A p \in DOMAIN old : KeptByRefs(old[p]) \subseteq old[p] /\ Kept(old[p]) \subseteq old[p]
  BY ListTypes
<1>. QED BY <1>1, <1>2 DEF Abstract!IsPackageList

\* The sections of packages are names that they provide.
LEMMA SectionTypes ==
  ASSUME NEW p \in Packages, NEW file
  PROVE  Section(file, p) \subseteq Names /\ Collected(file, p) \subseteq Names
<1>1. AllProvides(p) \subseteq Names
  BY ListTypes
<1>2. Section(file, p) \subseteq Names
  BY <1>1 DEF Section
<1>3. SectionByDirs(p) \subseteq Names
  BY <1>1, ListTypes DEF SectionByDirs, AllProvides
<1>. QED BY <1>2, <1>3 DEF Collected

\* Patching a list keeps it one.
LEMMA PatchedTypes ==
  ASSUME NEW file \in DOMAIN disk, Abstract!IsPackageList(disk[file]), add \subseteq Packages
  PROVE  /\ Abstract!IsPackageList(Patched(file))
         /\ DOMAIN Patched(file) = (DOMAIN disk[file] \ del) \cup (Kind(file, add) \ DOMAIN disk[file])
         /\ \A p \in DOMAIN Patched(file) :
              IF p \in DOMAIN disk[file] THEN Patched(file)[p] = disk[file][p]
              ELSE Patched(file)[p] = Section(file, p)
<1>1. /\ DOMAIN Patched(file) = (DOMAIN disk[file] \ del) \cup (Kind(file, add) \ DOMAIN disk[file])
      /\ \A p \in DOMAIN Patched(file) :
           IF p \in DOMAIN disk[file] THEN Patched(file)[p] = disk[file][p]
           ELSE Patched(file)[p] = Section(file, p)
  BY DEF Patched
<1>2. Kind(file, add) \subseteq Packages
  BY ListTypes
<1>3. \A p \in Packages : Section(file, p) \subseteq Names
  BY SectionTypes
<1>. QED BY <1>1, <1>2, <1>3 DEF Abstract!IsPackageList

\* Whatever a program writes, the lists stay lists of packages.
LEMMA DiskTypesKept ==
  ASSUME TypesInv, IndexInv, Next
  PROVE  DiskInv'
<1>. USE DEF TypesInv, IndexInv, PackagesExist
<1>0. DiskInv
  OBVIOUS
<1>1. ASSUME NEW file, file \notin Lists, file # "tmp", file \in {"info", "md5"},
             NEW content, disk' = With(content, file)
      PROVE  DiskInv'
  <2>1. /\ DOMAIN disk' = DOMAIN disk \cup {file}
        /\ \A g \in DOMAIN disk : g # file => disk'[g] = disk[g]
    BY <1>1 DEF With
  <2>. QED BY <1>0, <1>1, <2>1 DEF DiskInv
<1>2. ASSUME NEW file \in Lists \cup {"tmp"}, NEW content, disk' = With(content, file),
             Abstract!IsPackageList(content)
      PROVE  DiskInv'
  <2>1. /\ DOMAIN disk' = DOMAIN disk \cup {file}
        /\ disk'[file] = content
        /\ \A g \in DOMAIN disk : g # file => disk'[g] = disk[g]
    BY <1>2 DEF With
  <2>. QED BY <1>0, <1>2, <2>1 DEF DiskInv
<1>3. ASSUME NEW file, disk' = Without(file)
      PROVE  DiskInv'
  BY <1>0, <1>3, WithoutFacts DEF DiskInv
<1>4. ASSUME UNCHANGED disk
      PROVE  DiskInv'
  BY <1>0, <1>4 DEF DiskInv
<1>5. "info" \notin Lists /\ "md5" \notin Lists /\ "tmp" \notin Lists /\ "packages" \in Lists
  BY FileNames
<1>6. CASE Start
  <2>1. CASE \E S \in Selections, external \in ExternalRefs : StartRepo(S, external)
    <3>1. disk' = With(EmptyFile, "info")
      BY <2>1 DEF StartRepo
    <3>. QED BY <1>1, <1>5, <3>1
  <2>2. CASE ~ \E S \in Selections, external \in ExternalRefs : StartRepo(S, external)
    BY <1>4, <1>6, <2>2 DEF Start, StartPatch, StartProvides
  <2>. QED BY <2>1, <2>2
<1>7. CASE WriteInfo \/ RegisterFiles \/ ResumLists \/ ResumPackages \/ WriteSums
  <2>1. \E content, file \in {InfoText, EmptyFile, sums, "info", "md5"} :
          file \in {"info", "md5"} /\ disk' = With(content, file)
    BY <1>7 DEF WriteInfo, RegisterFiles, ResumLists, ResumPackages, WriteSums
  <2>. QED BY <1>1, <1>5, <2>1
<1>8. CASE CreateLists
  <2>1. /\ DOMAIN disk' = DOMAIN disk \cup Lists
        /\ \A f \in DOMAIN disk' : disk'[f] = IF f \in Lists THEN EmptyFile ELSE disk[f]
    BY <1>8 DEF CreateLists
  <2>. QED BY <1>0, <2>1, ListTypes DEF DiskInv
<1>9. CASE CollectPackages
  <2>1. /\ DOMAIN disk' = DOMAIN disk
        /\ \A f \in DOMAIN disk : \/ disk'[f] = disk[f]
                                  \/ disk'[f] = [p \in Kind(f, add) |-> Collected(f, p)]
    BY <1>9 DEF CollectPackages
  <2>2. \A f : Kind(f, add) \subseteq Packages
    BY ListTypes DEF MemoryInv
  <2>3. \A f : Abstract!IsPackageList([p \in Kind(f, add) |-> Collected(f, p)])
    BY <2>2, SectionTypes DEF Abstract!IsPackageList
  <2>. QED BY <1>0, <2>1, <2>3 DEF DiskInv
<1>10. CASE FilterPackages \/ RefillPackages
  <2>1. "complete" \in DOMAIN disk /\ "complete" \in Lists
    BY <1>10, FileNames DEF FilterPackages, RefillPackages, Exists, MemoryInv
  <2>2. Abstract!IsPackageList(disk["complete"])
    BY <1>0, <2>1 DEF DiskInv
  <2>3. /\ Abstract!IsPackageList(Filtered(disk["complete"], KeptByRefs))
        /\ Abstract!IsPackageList(Filtered(disk["complete"], Kept))
    BY <2>2, FilteredTypes
  <2>4. \/ disk' = With(Filtered(disk["complete"], KeptByRefs), "packages")
        \/ disk' = With(Filtered(disk["complete"], Kept), "packages")
    BY <1>10 DEF FilterPackages, RefillPackages
  <2>. QED BY <1>2, <1>5, <2>3, <2>4
<1>11. CASE PatchList
  <2>1. PatchOrder[pos] \in DOMAIN disk /\ PatchOrder[pos] \in Lists
    BY <1>11, FileNames DEF PatchList, Exists
  <2>2. Abstract!IsPackageList(disk[PatchOrder[pos]])
    BY <1>0, <2>1 DEF DiskInv
  <2>3. Abstract!IsPackageList(Patched(PatchOrder[pos]))
    BY <2>1, <2>2, PatchedTypes DEF MemoryInv
  <2>4. disk' = With(Patched(PatchOrder[pos]), "tmp")
    BY <1>11 DEF PatchList
  <2>. QED BY <1>2, <2>3, <2>4
<1>12. CASE UnlinkList \/ DropPackages
  BY <1>3, <1>12 DEF UnlinkList, DropPackages
<1>13. CASE MoveList
  <2>1. pc = "move" /\ "tmp" \in DOMAIN disk
    BY <1>13 DEF MoveList, MemoryInv
  <2>2. /\ DOMAIN disk' = (DOMAIN disk \ {"tmp"}) \cup {PatchOrder[pos]}
        /\ disk'[PatchOrder[pos]] = disk["tmp"]
        /\ \A g \in DOMAIN disk' : g # PatchOrder[pos] => disk'[g] = disk[g]
    BY <1>13, <2>1, MoveFacts
  <2>3. PatchOrder[pos] \in Lists
    BY FileNames
  <2>. QED BY <1>0, <2>1, <2>2, <2>3 DEF DiskInv
<1>14. CASE CreatePackages
  BY <1>2, <1>5, <1>14, ListTypes DEF CreatePackages
<1>15. CASE StopAtMissing \/ Crash
  BY <1>4, <1>15 DEF StopAtMissing, Stops, Crash
<1>. QED BY <1>6, <1>7, <1>8, <1>9, <1>10, <1>11, <1>12, <1>13, <1>14, <1>15
         DEF Next, ToolStep, RepoStep, PatchStep, ProvidesStep

\* What a program holds is of its type, and nothing when none runs.
LEMMA MemoryTypesKept ==
  ASSUME TypesInv, IndexInv, Next
  PROVE  MemoryInv'
<1>. USE DEF TypesInv, IndexInv
<1>0. MemoryInv
  OBVIOUS
<1>1. CASE NothingRuns
  BY <1>1 DEF NothingRuns, MemoryInv, Pcs
<1>2. CASE Start
  <2>1. ASSUME NEW S \in Selections, NEW external \in ExternalRefs, StartRepo(S, external)
        PROVE  MemoryInv'
    <3>1. S \subseteq Packages /\ external \subseteq AllRefs
      BY PackagesAssumption DEF AllRefs
    <3>. QED BY <1>0, <2>1, <3>1 DEF StartRepo, Run, MemoryInv, Pcs, Repoing
  <2>2. ASSUME NEW A \in Selections, NEW D \in Selections, StartPatch(A, D)
        PROVE  MemoryInv'
    <3>1. A \subseteq Packages /\ D \subseteq Packages
      BY PackagesAssumption
    <3>. QED BY <1>0, <2>2, <3>1 DEF StartPatch, Run, MemoryInv, Pcs, Patching
  <2>3. ASSUME NEW external \in ExternalRefs, StartProvides(external)
        PROVE  MemoryInv'
    <3>1. external \subseteq AllRefs
      BY DEF AllRefs
    <3>2. refs' \subseteq AllRefs
      <4>1. CASE params.byRefs
        <5>1. "packages" \in DOMAIN disk /\ "packages" \in Lists
          BY <2>3, <4>1, FileNames DEF StartProvides, Exists
        <5>2. DOMAIN disk["packages"] \subseteq Packages
          BY <5>1 DEF DiskInv, Abstract!IsPackageList
        <5>. QED BY <2>3, <4>1, <5>2, ListTypes DEF StartProvides
      <4>2. CASE ~ params.byRefs
        BY <2>3, <4>2 DEF StartProvides
      <4>. QED BY <4>1, <4>2
    <3>. QED BY <1>0, <2>3, <3>1, <3>2 DEF StartProvides, Run, MemoryInv, Pcs, Refiltering
  <2>. QED BY <1>2, <2>1, <2>2, <2>3 DEF Start
<1>3. CASE RepoStep
  <2>1. CASE WriteInfo
    BY <1>0, <2>1 DEF WriteInfo, inputVars, MemoryInv, Pcs, Repoing
  <2>2. CASE CreateLists
    BY <1>0, <2>2 DEF CreateLists, inputVars, MemoryInv, Pcs, Repoing
  <2>3. CASE CollectPackages
    <3>1. refs' \subseteq AllRefs
      BY <1>0, <2>3, ListTypes DEF CollectPackages, MemoryInv
    <3>2. DOMAIN disk' = DOMAIN disk
      BY <2>3 DEF CollectPackages
    <3>. QED BY <1>0, <2>3, <3>1, <3>2 DEF CollectPackages, inputVars, MemoryInv, Pcs, Repoing
  <2>4. CASE FilterPackages
    BY <1>0, <2>4, WithFacts DEF FilterPackages, inputVars, MemoryInv, Pcs, Repoing
  <2>5. CASE RegisterFiles
    BY <1>0, <2>5, WithFacts DEF RegisterFiles, inputVars, MemoryInv, Pcs
  <2>. QED BY <1>3, <2>1, <2>2, <2>3, <2>4, <2>5 DEF RepoStep
<1>4. CASE PatchStep
  <2>1. CASE PatchList
    BY <1>0, <2>1, WithFacts DEF PatchList, inputVars, MemoryInv, Pcs, Patching
  <2>2. CASE UnlinkList
    <3>1. PatchOrder[pos] # "tmp"
      BY FileNames DEF PackagesExist
    <3>. QED BY <1>0, <2>2, <3>1, WithoutFacts DEF UnlinkList, inputVars, MemoryInv, Pcs, Patching
  <2>3. CASE MoveList
    BY <1>0, <2>3 DEF MoveList, inputVars, MemoryInv, Pcs, Patching
  <2>4. CASE ResumLists
    BY <1>0, <2>4 DEF ResumLists, inputVars, MemoryInv, Pcs
  <2>. QED BY <1>4, <2>1, <2>2, <2>3, <2>4 DEF PatchStep
<1>5. CASE ProvidesStep
  BY <1>0, <1>5 DEF ProvidesStep, DropPackages, CreatePackages, RefillPackages, ResumPackages,
                    inputVars, MemoryInv, Pcs, Refiltering
<1>. QED BY <1>1, <1>2, <1>3, <1>4, <1>5 DEF Next, ToolStep, WriteSums, StopAtMissing, Stops, Crash

\* A run makes one release or is interrupted, or neither.
LEMMA CountKept ==
  ASSUME TypesInv, IndexInv, Next
  PROVE  CountInv'
<1>. USE DEF TypesInv, IndexInv
<1>0. CountInv /\ Len(releases) \in Nat
  BY DEF ReleasesSeq
<1>1. CASE Start
  BY <1>0, <1>1 DEF Start, StartRepo, StartPatch, StartProvides, Run, CountInv
<1>2. CASE RepoStep \/ PatchStep \/ ProvidesStep
  <2>1. UNCHANGED historyVars /\ pc # "idle"
    BY <1>2 DEF RepoStep, WriteInfo, CreateLists, CollectPackages, FilterPackages, RegisterFiles,
                PatchStep, PatchList, UnlinkList, MoveList, ResumLists,
                ProvidesStep, DropPackages, CreatePackages, RefillPackages, ResumPackages
  <2>. QED BY <1>0, <2>1 DEF historyVars, CountInv
<1>3. CASE WriteSums
  <2>1. pc # "idle" /\ pc' = "idle" /\ UNCHANGED <<runs, crashes>>
    BY <1>3 DEF WriteSums, NothingRuns, Releaser
  <2>2. UNCHANGED releases \/ \E e : releases' = Append(releases, e)
    BY <1>3 DEF WriteSums
  <2>3. Len(releases') \in Nat /\ Len(releases') <= Len(releases) + 1
    BY <1>0, <2>2, AppendFacts DEF ReleasesSeq
  <2>. QED BY <1>0, <2>1, <2>3 DEF CountInv
<1>4. CASE StopAtMissing
  BY <1>0, <1>4 DEF StopAtMissing, Stops, NothingRuns, historyVars, CountInv
<1>5. CASE Crash
  BY <1>0, <1>5 DEF Crash, NothingRuns, CountInv
<1>. QED BY <1>1, <1>2, <1>3, <1>4, <1>5 DEF Next, ToolStep

-----------------------------------------------------------------------------
\* The sums.

\* They are those of all files, or of no use to a client.
SumsShape(content) == DOMAIN content = SummedFiles \/ DOMAIN content \subseteq SummedFiles \ {"info"}

\* A program that works on an index has in memory what is on the disk, until
\* it has emptied that to write it anew.
SumsInv ==
  /\ SumsShape(sums)
  /\ "md5" \in DOMAIN disk => SumsShape(disk["md5"])
  /\ pc \in Repoing => "md5" \notin DOMAIN disk
  /\ pc \in Patching \cup Refiltering => "md5" \in DOMAIN disk /\ sums = disk["md5"]
  /\ pc \in DOMAIN Releaser => "md5" \in DOMAIN disk /\ disk["md5"] = EmptyFile
  /\ pc # "idle" => "info" \in DOMAIN disk
  /\ pc \notin Repoing /\ "info" \in DOMAIN sums => sums["info"] = disk["info"]
  /\ releases # <<>> => "info" \in DOMAIN disk /\ pc \notin Repoing \cup {"repo"}

\* The steps on lists leave the sums and the info file alone.
ListSteps ==
  \/ CreateLists \/ CollectPackages \/ FilterPackages
  \/ PatchList \/ UnlinkList \/ MoveList
  \/ DropPackages \/ CreatePackages \/ RefillPackages

LEMMA ListStepFacts ==
  ASSUME TypesInv, IndexInv, ListSteps
  PROVE  /\ "md5" \in DOMAIN disk' <=> "md5" \in DOMAIN disk
         /\ "md5" \in DOMAIN disk => disk'["md5"] = disk["md5"]
         /\ "info" \in DOMAIN disk' <=> "info" \in DOMAIN disk
         /\ "info" \in DOMAIN disk => disk'["info"] = disk["info"]
         /\ UNCHANGED <<params, add, del, ext, sums, releases, runs, crashes>>
         /\ \/ pc \in Repoing /\ pc' \in Repoing
            \/ pc \in Patching /\ pc' \in Patching
            \/ pc \in Refiltering /\ pc' \in Refiltering
<1>1. "md5" \notin Lists /\ "info" \notin Lists /\ "packages" \in Lists
  BY FileNames
<1>2. PatchOrder[pos] \in Lists
  BY FileNames DEF IndexInv, PackagesExist
<1>3. UNCHANGED <<params, add, del, ext, sums, releases, runs, crashes>>
  BY DEF ListSteps, CreateLists, CollectPackages, FilterPackages, PatchList, UnlinkList, MoveList,
         DropPackages, CreatePackages, RefillPackages, inputVars, historyVars
<1>4. \/ pc \in Repoing /\ pc' \in Repoing
      \/ pc \in Patching /\ pc' \in Patching
      \/ pc \in Refiltering /\ pc' \in Refiltering
  BY DEF ListSteps, CreateLists, CollectPackages, FilterPackages, PatchList, UnlinkList, MoveList,
         DropPackages, CreatePackages, RefillPackages, Repoing, Patching, Refiltering
<1>5. ASSUME NEW file \in {"md5", "info"}
      PROVE  /\ file \in DOMAIN disk' <=> file \in DOMAIN disk
             /\ file \in DOMAIN disk => disk'[file] = disk[file]
  <2>1. CASE CreateLists
    BY <1>1, <2>1 DEF CreateLists
  <2>2. CASE CollectPackages
    BY <1>1, <2>2 DEF CollectPackages
  <2>3. CASE FilterPackages \/ PatchList \/ CreatePackages \/ RefillPackages
    BY <1>1, <2>3 DEF FilterPackages, PatchList, CreatePackages, RefillPackages, With
  <2>4. CASE UnlinkList
    BY <1>1, <1>2, <2>4 DEF UnlinkList, Without
  <2>5. CASE DropPackages
    BY <1>1, <2>5 DEF DropPackages, Without
  <2>6. CASE MoveList
    BY <1>1, <1>2, <2>6 DEF MoveList
  <2>. QED BY <2>1, <2>2, <2>3, <2>4, <2>5, <2>6 DEF ListSteps
<1>. QED BY <1>3, <1>4, <1>5

\* Where the program is, in words of the sets of places.
LEMMA Places ==
  /\ DOMAIN Releaser = {"repo", "patched", "provided"}
  /\ \A w \in Repoing : w \notin Patching \cup Refiltering \cup {"idle", "repo", "patched", "provided"}
  /\ \A w \in Patching : w \notin Repoing \cup Refiltering \cup {"idle", "repo", "patched", "provided"}
  /\ \A w \in Refiltering : w \notin Repoing \cup Patching \cup {"idle", "repo", "patched", "provided"}
BY DEF Releaser, Repoing, Patching, Refiltering

LEMMA SumsKept ==
  ASSUME TypesInv, IndexInv, SumsInv, Next
  PROVE  SumsInv'
<1>1. CASE ListSteps
  <2>1. /\ "md5" \in DOMAIN disk' <=> "md5" \in DOMAIN disk
        /\ "md5" \in DOMAIN disk => disk'["md5"] = disk["md5"]
        /\ "info" \in DOMAIN disk' <=> "info" \in DOMAIN disk
        /\ "info" \in DOMAIN disk => disk'["info"] = disk["info"]
        /\ UNCHANGED <<sums, releases>>
        /\ \/ pc \in Repoing /\ pc' \in Repoing
           \/ pc \in Patching /\ pc' \in Patching
           \/ pc \in Refiltering /\ pc' \in Refiltering
    BY <1>1, ListStepFacts
  <2>2. SumsShape(sums)' /\ ("md5" \in DOMAIN disk' => SumsShape(disk["md5"])')
    BY <2>1 DEF SumsInv, SumsShape, SummedFiles
  <2>. QED BY <2>1, <2>2, Places DEF SumsInv
<1>2. CASE Start
  <2>1. ASSUME NEW S \in Selections, NEW external \in ExternalRefs, StartRepo(S, external)
        PROVE  SumsInv'
    <3>1. disk = EmptyFile /\ pc = "idle" /\ pc' = "info" /\ disk' = With(EmptyFile, "info")
          /\ UNCHANGED <<sums, releases>>
      BY <2>1 DEF StartRepo, Run
    <3>2. DOMAIN disk' = {"info"}
      BY <3>1 DEF With, EmptyFile
    <3>3. sums = EmptyFile /\ releases = <<>>
      BY <3>1 DEF TypesInv, MemoryInv, SumsInv, EmptyFile
    <3>. QED BY <3>1, <3>2, <3>3, Places DEF SumsInv, SumsShape, EmptyFile, Repoing, SummedFiles
  <2>2. ASSUME StartPatch(add', del') \/ \E external \in ExternalRefs : StartProvides(external)
        PROVE  SumsInv'
    <3>1. /\ IndexIsVerified /\ sums' = disk["md5"] /\ pc = "idle" /\ pc' \in {"patch", "drop"}
          /\ UNCHANGED <<disk, releases>>
      BY <2>2 DEF StartPatch, StartProvides, Run
    <3>2. "md5" \in DOMAIN disk /\ "info" \in DOMAIN disk
          /\ ("info" \in DOMAIN disk["md5"] => disk["info"] = disk["md5"]["info"])
      BY <3>1 DEF IndexIsVerified, Verified, Exists
    <3>3. SumsShape(sums)' /\ SumsShape(disk["md5"])'
      BY <3>1, <3>2 DEF SumsInv, SumsShape, SummedFiles
    <3>. QED BY <3>1, <3>2, <3>3, Places DEF SumsInv, Patching, Refiltering
  <2>3. ASSUME NEW A \in Selections, NEW D \in Selections, StartPatch(A, D)
        PROVE  StartPatch(add', del')
    BY <2>3 DEF StartPatch
  <2>. QED BY <1>2, <2>1, <2>2, <2>3 DEF Start
<1>3. CASE WriteInfo
  <2>1. pc \in Repoing /\ pc' \in Repoing /\ UNCHANGED <<sums, releases>> /\ disk' = With(InfoText, "info")
    BY <1>3 DEF WriteInfo, historyVars, Repoing
  <2>2. "md5" \notin DOMAIN disk' /\ "info" \in DOMAIN disk'
    BY <2>1 DEF SumsInv, With
  <2>. QED BY <2>1, <2>2, Places DEF SumsInv, SumsShape, SummedFiles
<1>4. CASE RegisterFiles \/ ResumLists \/ ResumPackages
  <2>1. /\ \/ pc \in Repoing /\ pc' = "repo" /\ sums' = Resummed(SummedFiles)
           \/ pc \in Patching /\ pc' = "patched" /\ sums' = Resummed(DOMAIN sums \ {"info"})
           \/ pc \in Refiltering /\ pc' = "provided" /\ sums' = Resummed({"packages"})
        /\ disk' = With(EmptyFile, "md5") /\ UNCHANGED releases
    BY <1>4 DEF RegisterFiles, ResumLists, ResumPackages, historyVars, Repoing, Patching, Refiltering
  <2>2. /\ "md5" \in DOMAIN disk' /\ disk'["md5"] = EmptyFile
        /\ "info" \in DOMAIN disk => "info" \in DOMAIN disk' /\ disk'["info"] = disk["info"]
    BY <2>1 DEF With
  <2>3. SumsShape(sums)'
    <3>1. \/ DOMAIN sums' = DOMAIN sums \cup SummedFiles
          \/ DOMAIN sums' = DOMAIN sums
          \/ DOMAIN sums' = DOMAIN sums \cup {"packages"}
      BY <2>1 DEF Resummed
    <3>2. "packages" \in SummedFiles /\ "info" \in SummedFiles
      BY SummedNames
    <3>3. SummedFiles' = SummedFiles
      BY DEF SummedFiles
    <3>. QED BY <3>1, <3>2, <3>3 DEF SumsInv, SumsShape
  <2>4. SumsShape(disk["md5"])'
    BY <2>2 DEF SumsShape, EmptyFile
  <2>5. "info" \in DOMAIN sums' => sums'["info"] = disk["info"]
    <3>1. CASE pc \in Repoing
      <4>1. sums' = Resummed(SummedFiles) /\ "info" \in SummedFiles
        BY <2>1, <3>1, Places, SummedNames
      <4>. QED BY <4>1 DEF Resummed
    <3>2. CASE pc \notin Repoing
      <4>1. \/ sums' = Resummed(DOMAIN sums \ {"info"})
            \/ sums' = Resummed({"packages"})
        BY <2>1, <3>2
      <4>2. "info" \in DOMAIN sums' => "info" \in DOMAIN sums /\ sums'["info"] = sums["info"]
        BY <4>1 DEF Resummed
      <4>. QED BY <3>2, <4>2 DEF SumsInv
    <3>. QED BY <3>1, <3>2
  <2>6. pc # "idle" /\ "info" \in DOMAIN disk
    BY <2>1, Places DEF SumsInv
  <2>. QED BY <2>1, <2>2, <2>3, <2>4, <2>5, <2>6, Places DEF SumsInv
<1>5. CASE WriteSums
  <2>1. pc \in DOMAIN Releaser /\ pc' = "idle" /\ sums' = EmptyFile /\ disk' = With(sums, "md5")
    BY <1>5 DEF WriteSums, NothingRuns
  <2>2. /\ "md5" \in DOMAIN disk' /\ disk'["md5"] = sums /\ "info" \in DOMAIN disk'
    BY <2>1, Places DEF With, SumsInv
  <2>. QED BY <2>1, <2>2, Places DEF SumsInv, SumsShape, EmptyFile, SummedFiles
<1>6. CASE StopAtMissing \/ Crash
  <2>1. pc # "idle" /\ pc' = "idle" /\ sums' = EmptyFile /\ UNCHANGED <<disk, releases>>
    BY <1>6 DEF StopAtMissing, Crash, Stops, NothingRuns, historyVars
  <2>. QED BY <2>1, Places DEF SumsInv, SumsShape, EmptyFile, SummedFiles
<1>. QED BY <1>1, <1>2, <1>3, <1>4, <1>5, <1>6
         DEF Next, ToolStep, RepoStep, PatchStep, ProvidesStep, ListSteps

-----------------------------------------------------------------------------
\* The packages that the lists name.

\* The lists but one name the same packages: S binary ones, and those of the
\* sources.
ListsAgree(S) ==
  /\ {"descr", "filelist", "sources", "srcdescr"} \subseteq DOMAIN disk
  /\ DOMAIN disk["descr"] = S
  /\ DOMAIN disk["filelist"] = S
  /\ DOMAIN disk["sources"] = DOMAIN disk["srcdescr"]
  /\ Exists("complete") => DOMAIN disk["complete"] = S

\* ds-repo has written the same packages to every list of a kind.
RepoInv ==
  pc \in {"filter", "register", "repo"} =>
    /\ \A f \in Lists \ {"packages"} : DOMAIN disk[f] = Kind(f, add)
    /\ pc # "filter" => DOMAIN disk["packages"] = Kind("packages", add)
    /\ params.byRefs => refs = RefsOf(add)

\* The packages a list named before ds-patch, and those it is to name.
Before(file) == DOMAIN sums[IF file = "complete" THEN "packages" ELSE file]
After(file) == (Before(file) \ del) \cup (Kind(file, add) \ Before(file))

IsPatched(i) == i < pos \/ pc = "resum"

\* ds-patch changes one list after the other in the same way.
PatchInv ==
  pc \in Patching /\ "info" \in DOMAIN sums =>
    /\ Before("descr") = Before("packages") /\ Before("filelist") = Before("packages")
    /\ Before("srcdescr") = Before("sources")
    /\ \A i \in 1 .. 6 : IsPatched(i) =>
         PatchOrder[i] \in DOMAIN disk /\ DOMAIN disk[PatchOrder[i]] = After(PatchOrder[i])
    /\ \A i \in 1 .. 6 : ~ IsPatched(i) /\ PatchOrder[i] \in DOMAIN disk =>
         DOMAIN disk[PatchOrder[i]] = Before(PatchOrder[i])
    /\ pc \in {"unlink", "move"} => DOMAIN disk["tmp"] = After(PatchOrder[pos])

\* ds-provides lists in the packages file what the other lists name.
RefilterInv ==
  pc \in Refiltering \cup {"provided"} /\ "info" \in DOMAIN sums =>
    /\ ListsAgree(DOMAIN disk["descr"])
    /\ params.byRefs => refs = RefsOf(DOMAIN disk["descr"])
    /\ pc # "provided" => DOMAIN sums["packages"] = DOMAIN disk["descr"]
    /\ pc \in {"resumone", "provided"} => DOMAIN disk["packages"] = DOMAIN disk["descr"]

\* When ds-patch is done, and when nothing runs, the lists agree if the sums
\* vouch for them.
AgreeInv ==
  /\ pc = "patched" /\ "info" \in DOMAIN sums => ListsAgree(DOMAIN disk["packages"])
  /\ pc = "idle" => DamageIsNoticed

ListsInv == RepoInv /\ PatchInv /\ RefilterInv /\ AgreeInv

\* While a program runs, lists that match the sums on the disk agree too.
LEMMA DamageNoticed ==
  ASSUME IndexInv, TypesInv, SumsInv, ListsInv
  PROVE  DamageIsNoticed
<1>. SUFFICES ASSUME Verified, SummedFiles \subseteq DOMAIN disk["md5"]
              PROVE  /\ DOMAIN disk["packages"] = DOMAIN disk["descr"]
                     /\ DOMAIN disk["packages"] = DOMAIN disk["filelist"]
                     /\ DOMAIN disk["sources"] = DOMAIN disk["srcdescr"]
                     /\ Exists("complete") => DOMAIN disk["packages"] = DOMAIN disk["complete"]
  BY DEF DamageIsNoticed
<1>1. "md5" \in DOMAIN disk /\ "info" \in DOMAIN disk["md5"]
  BY SummedNames DEF Verified, Exists
<1>2. pc \notin Repoing /\ pc \notin DOMAIN Releaser
  BY <1>1 DEF SumsInv, EmptyFile
<1>3. \A f \in SummedFiles : f \in DOMAIN disk /\ disk[f] = disk["md5"][f]
  BY DEF Verified, Exists
<1>4. CASE pc = "idle"
  BY <1>4 DEF ListsInv, AgreeInv, DamageIsNoticed
<1>5. CASE pc \in Refiltering
  <2>1. sums = disk["md5"]
    BY <1>5 DEF SumsInv
  <2>2. ListsAgree(DOMAIN disk["descr"]) /\ DOMAIN sums["packages"] = DOMAIN disk["descr"]
    BY <1>1, <1>5, <2>1, Places DEF ListsInv, RefilterInv
  <2>3. disk["packages"] = sums["packages"]
    BY <1>3, <2>1, SummedNames
  <2>. QED BY <2>2, <2>3 DEF ListsAgree
<1>6. CASE pc \in Patching
  <2>1. sums = disk["md5"]
    BY <1>6 DEF SumsInv
  <2>2. PatchInv /\ pc \in Patching /\ "info" \in DOMAIN sums
    BY <1>1, <1>6, <2>1 DEF ListsInv
  <2>3. /\ DOMAIN disk["packages"] = Before("packages") /\ DOMAIN disk["descr"] = Before("descr")
        /\ DOMAIN disk["filelist"] = Before("filelist")
        /\ DOMAIN disk["sources"] = Before("sources") /\ DOMAIN disk["srcdescr"] = Before("srcdescr")
    BY <1>3, <2>1, SummedNames DEF Before
  <2>4. ASSUME Exists("complete")
        PROVE  DOMAIN disk["complete"] = DOMAIN disk["packages"]
    <3>1. CASE IsPatched(5)
      <4>1. IsPatched(1)
        BY <3>1 DEF IsPatched, IndexInv, PackagesExist
      <4>2. DOMAIN disk["complete"] = After("complete") /\ DOMAIN disk["packages"] = After("packages")
        BY <2>2, <3>1, <4>1, SummedNames DEF PatchInv
      <4>3. After("complete") = After("packages")
        BY DEF After, Before, Kind
      <4>. QED BY <4>2, <4>3
    <3>2. CASE ~ IsPatched(5)
      <4>1. DOMAIN disk["complete"] = Before("complete")
        BY <2>2, <2>4, <3>2, SummedNames DEF PatchInv, Exists
      <4>. QED BY <2>3, <4>1 DEF Before
    <3>. QED BY <3>1, <3>2
  <2>5. Before("descr") = Before("packages") /\ Before("filelist") = Before("packages")
        /\ Before("srcdescr") = Before("sources")
    BY <2>2 DEF PatchInv
  <2>. QED BY <2>3, <2>4, <2>5
<1>. QED BY <1>2, <1>4, <1>5, <1>6 DEF TypesInv, MemoryInv, Pcs, Releaser

LEMMA RepoListsKept ==
  ASSUME TypesInv, IndexInv, SumsInv, ListsInv, Next
  PROVE  RepoInv'
<1>. USE DEF RepoInv
<1>1. CASE pc' \notin {"filter", "register", "repo"}
  BY <1>1
<1>2. CASE CollectPackages
  <2>1. /\ DOMAIN disk' = DOMAIN disk /\ Lists \subseteq DOMAIN disk
        /\ \A f \in Lists \ {"packages"} : DOMAIN disk'[f] = Kind(f, add)
        /\ ~ params.byRefs => DOMAIN disk'["packages"] = Kind("packages", add)
    <3>1. Lists \subseteq DOMAIN disk /\ "packages" \in Lists
      BY <1>2, FileNames DEF CollectPackages, TypesInv, MemoryInv
    <3>. QED BY <1>2, <3>1 DEF CollectPackages
  <2>2. /\ UNCHANGED <<params, add>>
        /\ params.byRefs => pc' = "filter" /\ refs' = RefsOf(add)
        /\ ~ params.byRefs => pc' = "register"
    BY <1>2 DEF CollectPackages, inputVars
  <2>3. RefsOf(add)' = RefsOf(add) /\ \A f : Kind(f, add)' = Kind(f, add)
    BY <2>2 DEF RefsOf, Kind, Binary
  <2>. QED BY <2>1, <2>2, <2>3
<1>3. CASE FilterPackages \/ RegisterFiles
  <2>1. /\ pc \in {"filter", "register"} /\ UNCHANGED <<params, add, refs>>
        /\ pc' \in {"register", "repo"}
    BY <1>3 DEF FilterPackages, RegisterFiles, inputVars
  <2>2. Lists \subseteq DOMAIN disk
    BY <2>1 DEF TypesInv, MemoryInv
  <2>3. /\ \A f \in Lists \ {"packages"} : disk'[f] = disk[f]
        /\ DOMAIN disk'["packages"] = Kind("packages", add)
    <3>1. CASE FilterPackages
      <4>1. disk' = With(Filtered(disk["complete"], KeptByRefs), "packages") /\ pc = "filter"
        BY <3>1 DEF FilterPackages
      <4>2. DOMAIN Filtered(disk["complete"], KeptByRefs) = DOMAIN disk["complete"]
        BY DEF Filtered
      <4>3. DOMAIN disk["complete"] = Kind("complete", add) /\ Kind("complete", add) = Kind("packages", add)
        BY <4>1, FileNames DEF ListsInv, Kind
      <4>. QED BY <2>2, <4>1, <4>2, <4>3 DEF With
    <3>2. CASE RegisterFiles
      <4>1. disk' = With(EmptyFile, "md5") /\ pc = "register"
        BY <3>2 DEF RegisterFiles
      <4>2. "md5" \notin Lists /\ "packages" \in Lists
        BY FileNames
      <4>3. \A f \in Lists : disk'[f] = disk[f]
        BY <2>2, <4>1, <4>2 DEF With
      <4>. QED BY <4>1, <4>2, <4>3 DEF ListsInv
    <3>. QED BY <1>3, <3>1, <3>2
  <2>4. RefsOf(add)' = RefsOf(add) /\ \A f : Kind(f, add)' = Kind(f, add)
    BY <2>1 DEF RefsOf, Kind, Binary
  <2>. QED BY <2>1, <2>3, <2>4 DEF ListsInv
<1>. QED
  BY <1>1, <1>2, <1>3
     DEF Next, Start, StartRepo, StartPatch, StartProvides, Crash, ToolStep, RepoStep, WriteInfo, CreateLists,
         PatchStep, PatchList, UnlinkList, MoveList, ResumLists,
         ProvidesStep, DropPackages, CreatePackages, RefillPackages, ResumPackages,
         WriteSums, StopAtMissing, Stops, NothingRuns

LEMMA PatchListsKept ==
  ASSUME TypesInv, IndexInv, SumsInv, ListsInv, Next
  PROVE  PatchInv'
<1>1. CASE pc' \notin Patching
  BY <1>1 DEF PatchInv
<1>2. CASE Start
  <2>1. (\E A, D \in Selections : StartPatch(A, D)) \/ pc' \notin Patching
    BY <1>2 DEF Start, StartRepo, StartProvides, Patching
  <2>2. ASSUME NEW A \in Selections, NEW D \in Selections, StartPatch(A, D)
        PROVE  PatchInv'
    <3>1. /\ pc = "idle" /\ pc' = "patch" /\ pos' = pos /\ disk' = disk /\ sums' = disk["md5"]
          /\ IndexIsVerified
      BY <2>2 DEF StartPatch, Run
    <3>2. pos = 1
      BY <3>1 DEF IndexInv, PackagesExist
    <3>. SUFFICES ASSUME "info" \in DOMAIN disk["md5"] PROVE PatchInv'
      BY <3>1 DEF PatchInv
    <3>3. DOMAIN disk["md5"] = SummedFiles /\ Verified
      BY <3>1 DEF IndexIsVerified, Verified, Exists, SumsInv, SumsShape
    <3>4. \A f \in SummedFiles : disk["md5"][f] = disk[f]
      BY <3>3 DEF Verified
    <3>5. /\ DOMAIN disk["packages"] = DOMAIN disk["descr"]
          /\ DOMAIN disk["packages"] = DOMAIN disk["filelist"]
          /\ DOMAIN disk["sources"] = DOMAIN disk["srcdescr"]
          /\ "complete" \in DOMAIN disk => DOMAIN disk["packages"] = DOMAIN disk["complete"]
      BY <3>1, <3>3 DEF ListsInv, AgreeInv, DamageIsNoticed, Exists
    <3>6. /\ \A f \in SummedFiles : f # "complete" => Before(f)' = DOMAIN disk[f]
          /\ Before("complete")' = DOMAIN disk["packages"]
      BY <3>1, <3>4, SummedNames DEF Before
    <3>7. \A i \in 1 .. 6 : ~ IsPatched(i)'
      BY <3>1, <3>2 DEF IsPatched
    <3>8. /\ Before("descr")' = Before("packages")' /\ Before("filelist")' = Before("packages")'
          /\ Before("srcdescr")' = Before("sources")'
      BY <3>5, <3>6, SummedNames
    <3>9. ASSUME NEW i \in 1 .. 6, PatchOrder[i] \in DOMAIN disk
          PROVE  DOMAIN disk[PatchOrder[i]] = Before(PatchOrder[i])'
      <4>1. PatchOrder[i] \in SummedFiles \ {"complete"} \/ PatchOrder[i] = "complete"
        BY SummedNames
      <4>. QED BY <3>5, <3>6, <3>9, <4>1
    <3>. QED BY <3>1, <3>7, <3>8, <3>9 DEF PatchInv
  <2>. QED BY <1>1, <2>1, <2>2
<1>. DEFINE Old == pc \in Patching /\ "info" \in DOMAIN sums
<1>3. CASE PatchList
  <2>1. /\ pc = "patch" /\ pc' = "unlink" /\ UNCHANGED <<pos, add, del, sums>>
        /\ PatchOrder[pos] \in DOMAIN disk
        /\ disk' = With(Patched(PatchOrder[pos]), "tmp")
    BY <1>3 DEF PatchList, inputVars, Exists
  <2>. SUFFICES ASSUME "info" \in DOMAIN sums PROVE PatchInv'
    BY <2>1 DEF PatchInv
  <2>2. pos \in 1 .. 6 /\ PatchInv /\ Old
    BY <2>1 DEF IndexInv, PackagesExist, ListsInv, Patching
  <2>3. DOMAIN disk[PatchOrder[pos]] = Before(PatchOrder[pos])
    BY <2>1, <2>2 DEF PatchInv, IsPatched
  <2>4. DOMAIN Patched(PatchOrder[pos]) = After(PatchOrder[pos])
    BY <2>3 DEF Patched, After
  <2>5. /\ \A f : Before(f)' = Before(f) /\ After(f)' = After(f)
        /\ \A i : IsPatched(i)' = IsPatched(i)
    BY <2>1 DEF Before, After, IsPatched, Kind, Binary
  <2>6. /\ disk'["tmp"] = Patched(PatchOrder[pos])
        /\ \A f \in Lists : f \in DOMAIN disk' <=> f \in DOMAIN disk
        /\ \A f \in Lists : f \in DOMAIN disk => disk'[f] = disk[f]
    BY <2>1, FileNames DEF With
  <2>7. \A i \in 1 .. 6 : PatchOrder[i] \in Lists
    BY FileNames
  <2>8. PatchOrder[pos]' = PatchOrder[pos] /\ \A i : PatchOrder[i]' = PatchOrder[i]
    BY <2>1 DEF PatchOrder
  <2>. QED BY <2>1, <2>2, <2>4, <2>5, <2>6, <2>7, <2>8 DEF PatchInv
<1>4. CASE UnlinkList
  <2>1. /\ pc = "unlink" /\ pc' = "move" /\ UNCHANGED <<pos, add, del, sums>>
        /\ disk' = Without(PatchOrder[pos])
    BY <1>4 DEF UnlinkList, inputVars
  <2>. SUFFICES ASSUME "info" \in DOMAIN sums PROVE PatchInv'
    BY <2>1 DEF PatchInv
  <2>2. pos \in 1 .. 6 /\ PatchInv /\ Old
    BY <2>1 DEF IndexInv, PackagesExist, ListsInv, Patching
  <2>3. /\ \A f : Before(f)' = Before(f) /\ After(f)' = After(f)
        /\ \A i : IsPatched(i)' = IsPatched(i)
    BY <2>1 DEF Before, After, IsPatched, Kind, Binary
  <2>4. /\ DOMAIN disk' = DOMAIN disk \ {PatchOrder[pos]}
        /\ \A f \in DOMAIN disk' : disk'[f] = disk[f]
    BY <2>1 DEF Without
  <2>5. "tmp" \in DOMAIN disk /\ "tmp" # PatchOrder[pos]
    BY <2>1, <2>2, FileNames DEF TypesInv, MemoryInv
  <2>6. \A i \in 1 .. 6 : IsPatched(i) => PatchOrder[i] # PatchOrder[pos]
    BY <2>1, <2>2, SummedNames DEF IsPatched
  <2>7. PatchOrder[pos]' = PatchOrder[pos] /\ \A i : PatchOrder[i]' = PatchOrder[i]
    BY <2>1 DEF PatchOrder
  <2>. QED BY <2>1, <2>2, <2>3, <2>4, <2>5, <2>6, <2>7 DEF PatchInv
<1>5. CASE MoveList
  <2>1. /\ pc = "move" /\ UNCHANGED <<add, del, sums>>
        /\ "tmp" \in DOMAIN disk /\ pos \in 1 .. 6
    BY <1>5 DEF MoveList, inputVars, TypesInv, MemoryInv, IndexInv, PackagesExist
  <2>2. /\ DOMAIN disk' = (DOMAIN disk \ {"tmp"}) \cup {PatchOrder[pos]}
        /\ disk'[PatchOrder[pos]] = disk["tmp"]
        /\ \A g \in DOMAIN disk' : g # PatchOrder[pos] => disk'[g] = disk[g]
        /\ \/ pos < 6 /\ pos' = pos + 1 /\ pc' = "patch"
           \/ pos = 6 /\ pos' = 1 /\ pc' = "resum"
    BY <1>5, <2>1, MoveFacts
  <2>. SUFFICES ASSUME "info" \in DOMAIN sums PROVE PatchInv'
    BY <2>1 DEF PatchInv
  <2>3. PatchInv /\ Old
    BY <2>1 DEF ListsInv, Patching
  <2>4. \A f : Before(f)' = Before(f) /\ After(f)' = After(f)
    BY <2>1 DEF Before, After, Kind, Binary
  <2>5. \A i \in 1 .. 6 : IsPatched(i)' <=> IsPatched(i) \/ i = pos
    BY <2>1, <2>2 DEF IsPatched
  <2>6. DOMAIN disk'[PatchOrder[pos]] = After(PatchOrder[pos])
    BY <2>1, <2>2, <2>3 DEF PatchInv
  <2>7. \A i \in 1 .. 6 : i # pos => PatchOrder[i] # PatchOrder[pos]
    BY <2>1, SummedNames
  <2>8. \A i \in 1 .. 6 : PatchOrder[i] # "tmp"
    BY FileNames
  <2>9. \A i \in 1 .. 6 : IsPatched(i)' =>
           PatchOrder[i] \in DOMAIN disk' /\ DOMAIN disk'[PatchOrder[i]] = After(PatchOrder[i])
    BY <2>2, <2>3, <2>5, <2>6, <2>7, <2>8 DEF PatchInv
  <2>10. \A i \in 1 .. 6 : ~ IsPatched(i)' /\ PatchOrder[i] \in DOMAIN disk' =>
           DOMAIN disk'[PatchOrder[i]] = Before(PatchOrder[i])
    BY <2>2, <2>3, <2>5, <2>7, <2>8 DEF PatchInv
  <2>11. /\ Before("descr") = Before("packages") /\ Before("filelist") = Before("packages")
         /\ Before("srcdescr") = Before("sources")
    BY <2>3 DEF PatchInv
  <2>12. \A i : PatchOrder[i]' = PatchOrder[i]
    BY DEF PatchOrder
  <2>. QED BY <2>2, <2>4, <2>9, <2>10, <2>11, <2>12 DEF PatchInv
<1>. QED
  BY <1>1, <1>2, <1>3, <1>4, <1>5
     DEF Next, Crash, ToolStep, RepoStep, WriteInfo, CreateLists, CollectPackages, FilterPackages,
         RegisterFiles, PatchStep, ResumLists, Patching,
         ProvidesStep, DropPackages, CreatePackages, RefillPackages, ResumPackages,
         WriteSums, StopAtMissing, Stops, NothingRuns

\* The lists that ds-provides leaves alone.
LEMMA RestKept ==
  ASSUME NEW file \in {"info", "md5", "packages"},
         \A f : f # file => (f \in DOMAIN disk' <=> f \in DOMAIN disk),
         \A f \in DOMAIN disk : f # file => disk'[f] = disk[f]
  PROVE  /\ ListsAgree(DOMAIN disk["descr"]) => ListsAgree(DOMAIN disk["descr"])'
         /\ ListsAgree(DOMAIN disk["descr"]) => DOMAIN disk'["descr"] = DOMAIN disk["descr"]
BY DEF ListsAgree, Exists

LEMMA RefilterKept ==
  ASSUME TypesInv, IndexInv, SumsInv, ListsInv, Next
  PROVE  RefilterInv'
<1>1. CASE pc' \notin Refiltering \cup {"provided"}
  BY <1>1 DEF RefilterInv
<1>2. CASE Start
  <2>1. (\E external \in ExternalRefs : StartProvides(external)) \/ pc' \notin Refiltering \cup {"provided"}
    BY <1>2 DEF Start, StartRepo, StartPatch, Refiltering
  <2>2. ASSUME NEW external \in ExternalRefs, StartProvides(external)
        PROVE  RefilterInv'
    <3>1. /\ pc = "idle" /\ pc' = "drop" /\ UNCHANGED <<disk, params>> /\ sums' = disk["md5"]
          /\ refs' = IF params.byRefs THEN RefsOf(DOMAIN disk["packages"]) ELSE {}
          /\ IndexIsVerified
      BY <2>2 DEF StartProvides, Run
    <3>. SUFFICES ASSUME "info" \in DOMAIN disk["md5"] PROVE RefilterInv'
      BY <3>1 DEF RefilterInv
    <3>2. DOMAIN disk["md5"] = SummedFiles /\ Verified
      BY <3>1 DEF IndexIsVerified, Verified, Exists, SumsInv, SumsShape
    <3>3. \A f \in SummedFiles : f \in DOMAIN disk /\ disk["md5"][f] = disk[f]
      BY <3>2 DEF Verified, Exists
    <3>4. /\ DOMAIN disk["packages"] = DOMAIN disk["descr"]
          /\ ListsAgree(DOMAIN disk["descr"])
      BY <3>1, <3>2, <3>3, SummedNames DEF ListsInv, AgreeInv, DamageIsNoticed, Exists, ListsAgree
    <3>5. ListsAgree(DOMAIN disk["descr"])'
      BY <3>1, <3>4 DEF ListsAgree, Exists
    <3>6. DOMAIN sums'["packages"] = DOMAIN disk["descr"]
      BY <3>1, <3>3, <3>4, SummedNames
    <3>7. params.byRefs => refs' = RefsOf(DOMAIN disk["descr"])
      BY <3>1, <3>4
    <3>8. RefsOf(DOMAIN disk["descr"])' = RefsOf(DOMAIN disk["descr"])
      BY <3>1 DEF RefsOf
    <3>. QED BY <3>1, <3>5, <3>6, <3>7, <3>8 DEF RefilterInv
  <2>. QED BY <1>1, <2>1, <2>2
<1>3. CASE ProvidesStep
  <2>1. /\ UNCHANGED params /\ refs' = refs
        /\ pc \in Refiltering /\ (pc = "resumone" <=> pc' = "provided")
        /\ pc # "resumone" => sums' = sums
        /\ DOMAIN sums' \subseteq DOMAIN sums \cup {"packages"}
    BY <1>3 DEF ProvidesStep, DropPackages, CreatePackages, RefillPackages, ResumPackages, inputVars,
                Resummed, Refiltering
  <2>. SUFFICES ASSUME "info" \in DOMAIN sums PROVE RefilterInv'
    BY <2>1 DEF RefilterInv
  <2>2. /\ ListsAgree(DOMAIN disk["descr"])
        /\ params.byRefs => refs = RefsOf(DOMAIN disk["descr"])
        /\ DOMAIN sums["packages"] = DOMAIN disk["descr"]
        /\ pc = "resumone" => DOMAIN disk["packages"] = DOMAIN disk["descr"]
    BY <2>1, Places DEF ListsInv, RefilterInv
  <2>3. PICK file \in {"md5", "packages"} :
          /\ \A f : f # file => (f \in DOMAIN disk' <=> f \in DOMAIN disk)
          /\ \A f \in DOMAIN disk : f # file => disk'[f] = disk[f]
          /\ pc = "resumone" => file = "md5"
    BY <1>3 DEF ProvidesStep, DropPackages, CreatePackages, RefillPackages, ResumPackages, With, Without
  <2>4. ListsAgree(DOMAIN disk["descr"])' /\ DOMAIN disk'["descr"] = DOMAIN disk["descr"]
    BY <2>2, <2>3, RestKept
  <2>5. RefsOf(DOMAIN disk["descr"])' = RefsOf(DOMAIN disk["descr"])
    BY <2>4 DEF RefsOf
  <2>6. pc' \in {"resumone", "provided"} => DOMAIN disk'["packages"] = DOMAIN disk["descr"]
    <3>1. CASE RefillPackages
      <4>1. /\ "complete" \in DOMAIN disk
            /\ disk' = With(Filtered(disk["complete"], Kept), "packages")
        BY <3>1 DEF RefillPackages, Exists
      <4>2. DOMAIN Filtered(disk["complete"], Kept) = DOMAIN disk["complete"]
        BY DEF Filtered
      <4>. QED BY <2>2, <4>1, <4>2 DEF With, ListsAgree, Exists
    <3>2. CASE ResumPackages
      <4>1. pc = "resumone" /\ "packages" \in DOMAIN disk
        BY <3>2 DEF ResumPackages, IndexInv, PackagesExist
      <4>. QED BY <2>2, <2>3, <4>1
    <3>3. CASE DropPackages \/ CreatePackages
      BY <3>3 DEF DropPackages, CreatePackages
    <3>. QED BY <1>3, <3>1, <3>2, <3>3 DEF ProvidesStep
  <2>. QED BY <2>1, <2>2, <2>4, <2>5, <2>6 DEF RefilterInv
<1>. QED
  BY <1>1, <1>2, <1>3
     DEF Next, Crash, ToolStep, RepoStep, WriteInfo, CreateLists, CollectPackages, FilterPackages,
         RegisterFiles, PatchStep, PatchList, UnlinkList, MoveList, ResumLists, Refiltering,
         WriteSums, StopAtMissing, Stops, NothingRuns

LEMMA AgreeKept ==
  ASSUME TypesInv, IndexInv, SumsInv, ListsInv, Next
  PROVE  AgreeInv'
<1>1. CASE pc' \notin {"patched", "idle"}
  BY <1>1 DEF AgreeInv
<1>2. CASE ResumLists
  <2>1. /\ pc = "resum" /\ pc' = "patched" /\ disk' = With(EmptyFile, "md5")
        /\ DOMAIN sums' = DOMAIN sums
    BY <1>2 DEF ResumLists, Resummed
  <2>. SUFFICES ASSUME "info" \in DOMAIN sums PROVE ListsAgree(DOMAIN disk["packages"])'
    BY <2>1 DEF AgreeInv
  <2>2. PatchInv /\ pc \in Patching /\ \A i \in 1 .. 6 : IsPatched(i)
    BY <2>1 DEF ListsInv, Patching, IsPatched
  <2>3. \A i \in 1 .. 6 : PatchOrder[i] \in DOMAIN disk /\ DOMAIN disk[PatchOrder[i]] = After(PatchOrder[i])
    BY <2>2 DEF PatchInv
  <2>4. /\ After("descr") = After("packages") /\ After("filelist") = After("packages")
        /\ After("complete") = After("packages") /\ After("srcdescr") = After("sources")
    <3>1. /\ Before("descr") = Before("packages") /\ Before("filelist") = Before("packages")
          /\ Before("srcdescr") = Before("sources") /\ Before("complete") = Before("packages")
      BY <2>2 DEF PatchInv, Before
    <3>2. /\ Kind("descr", add) = Kind("packages", add) /\ Kind("filelist", add) = Kind("packages", add)
          /\ Kind("complete", add) = Kind("packages", add) /\ Kind("srcdescr", add) = Kind("sources", add)
      BY DEF Kind
    <3>. QED BY <3>1, <3>2 DEF After
  <2>5. \A f \in Lists : f \in DOMAIN disk /\ f \in DOMAIN disk' /\ disk'[f] = disk[f] /\ DOMAIN disk[f] = After(f)
    BY <2>1, <2>3, SummedNames, FileNames DEF With
  <2>. QED BY <2>4, <2>5, FileNames DEF ListsAgree, Exists
<1>3. CASE WriteSums
  <2>1. pc \in DOMAIN Releaser /\ pc' = "idle" /\ disk' = With(sums, "md5")
    BY <1>3 DEF WriteSums, NothingRuns
  <2>2. CASE "info" \notin DOMAIN sums
    <3>1. disk'["md5"] = sums /\ "info" \in SummedFiles
      BY <2>1, SummedNames DEF With
    <3>2. SummedFiles' = SummedFiles
      BY DEF SummedFiles
    <3>. QED BY <2>1, <2>2, <3>1, <3>2 DEF AgreeInv, DamageIsNoticed
  <2>3. CASE "info" \in DOMAIN sums
    <3>1. ListsAgree(DOMAIN disk["packages"]) /\ "packages" \in DOMAIN disk
      <4>1. CASE pc = "repo"
        <5>1. /\ Lists \subseteq DOMAIN disk
              /\ \A f \in Lists : DOMAIN disk[f] = Kind(f, add)
          BY <4>1 DEF TypesInv, MemoryInv, ListsInv, RepoInv
        <5>. QED BY <5>1, FileNames DEF ListsAgree, Kind
      <4>2. CASE pc = "patched"
        BY <2>1, <2>3, <4>2, SummedNames DEF ListsInv, AgreeInv, IndexInv, SumsAreFresh, SumsInv, SumsShape
      <4>3. CASE pc = "provided"
        <5>1. ListsAgree(DOMAIN disk["descr"]) /\ DOMAIN disk["packages"] = DOMAIN disk["descr"]
          BY <2>3, <4>3 DEF ListsInv, RefilterInv
        <5>2. "packages" \in DOMAIN disk
          BY <2>1, <2>3, SummedNames DEF IndexInv, SumsAreFresh, SumsInv, SumsShape
        <5>. QED BY <5>1, <5>2
      <4>. QED BY <2>1, <4>1, <4>2, <4>3, Places
    <3>2. \A f \in DOMAIN disk : f # "md5" => f \in DOMAIN disk' /\ disk'[f] = disk[f]
      BY <2>1 DEF With
    <3>3. "complete" \in DOMAIN disk' => "complete" \in DOMAIN disk
      BY <2>1 DEF With
    <3>. QED BY <2>1, <3>1, <3>2, <3>3 DEF AgreeInv, DamageIsNoticed, ListsAgree, Exists
  <2>. QED BY <2>2, <2>3
<1>4. CASE StopAtMissing \/ Crash
  <2>1. pc' = "idle" /\ UNCHANGED disk
    BY <1>4 DEF StopAtMissing, Crash, Stops, NothingRuns
  <2>2. DamageIsNoticed'
    BY <2>1, DamageNoticed DEF DamageIsNoticed, Verified, Exists, SummedFiles
  <2>. QED BY <2>1, <2>2 DEF AgreeInv
<1>. QED
  BY <1>1, <1>2, <1>3, <1>4
     DEF Next, Start, StartRepo, StartPatch, StartProvides, ToolStep,
         RepoStep, WriteInfo, CreateLists, CollectPackages, FilterPackages, RegisterFiles,
         PatchStep, PatchList, UnlinkList, MoveList,
         ProvidesStep, DropPackages, CreatePackages, RefillPackages, ResumPackages

-----------------------------------------------------------------------------
\* What the lists provide.

\* The complete list has all that its packages provide.
IsComplete(content) == \A p \in DOMAIN content : content[p] = AllProvides(p)

\* A list has what its packages provide of the names.
Covers(content, names) == \A p \in DOMAIN content : AllProvides(p) \cap names \subseteq content[p]

CompleteInv ==
  /\ Exists("complete") => IsComplete(disk["complete"])
  /\ pc \in {"unlink", "move"} /\ pos = 5 => IsComplete(disk["tmp"])
  /\ params.byRefs /\ pc \in {"register", "repo", "resumone", "provided"} =>
       Covers(disk["packages"], refs \cup ext)
  /\ ReferencedProvidesAreListed

\* The part of the invariant that is about files.
FilesInv == TypesInv /\ SumsInv /\ ListsInv

LEMMA CompleteListKept ==
  ASSUME FilesInv, IndexInv, CompleteInv, Next
  PROVE  Exists("complete")' => IsComplete(disk["complete"])'
<1>. SUFFICES ASSUME "complete" \in DOMAIN disk' PROVE \A p \in DOMAIN disk'["complete"] : disk'["complete"][p] = AllProvides(p)
  BY DEF Exists, IsComplete
<1>0. "complete" \in DOMAIN disk => \A p \in DOMAIN disk["complete"] : disk["complete"][p] = AllProvides(p)
  BY DEF CompleteInv, Exists, IsComplete
<1>1. CASE CreateLists
  BY <1>1, FileNames DEF CreateLists, EmptyFile
<1>2. CASE CollectPackages
  <2>1. /\ "complete" \in DOMAIN disk /\ "complete" \in Lists \ {"packages"}
        /\ disk'["complete"] = [p \in Kind("complete", add) |-> Collected("complete", p)]
    <3>1. Lists \subseteq DOMAIN disk /\ "complete" \in Lists \ {"packages"}
      BY <1>2, FileNames DEF CollectPackages, FilesInv, TypesInv, MemoryInv
    <3>. QED BY <1>2, <3>1 DEF CollectPackages
  <2>2. \A p : Collected("complete", p) = AllProvides(p)
    BY DEF Collected, Section, HasBaseInfo
  <2>. QED BY <2>1, <2>2
<1>3. CASE MoveList
  <2>1. /\ pc = "move" /\ "tmp" \in DOMAIN disk /\ pos \in 1 .. 6
    BY <1>3 DEF MoveList, FilesInv, TypesInv, MemoryInv, IndexInv, PackagesExist
  <2>2. /\ DOMAIN disk' = (DOMAIN disk \ {"tmp"}) \cup {PatchOrder[pos]}
        /\ disk'[PatchOrder[pos]] = disk["tmp"]
        /\ \A g \in DOMAIN disk' : g # PatchOrder[pos] => disk'[g] = disk[g]
    BY <1>3, <2>1, MoveFacts
  <2>3. CASE pos = 5
    BY <2>1, <2>2, <2>3, SummedNames DEF CompleteInv, IsComplete
  <2>4. CASE pos # 5
    <3>1. PatchOrder[pos] # "complete"
      BY <2>1, <2>4, SummedNames
    <3>. QED BY <1>0, <2>2, <3>1
  <2>. QED BY <2>3, <2>4
<1>4. CASE Start
  <2>1. "complete" \in DOMAIN disk /\ disk'["complete"] = disk["complete"]
    BY <1>4 DEF Start, StartRepo, StartPatch, StartProvides, With, EmptyFile
  <2>. QED BY <1>0, <2>1
<1>5. CASE WriteInfo \/ FilterPackages \/ RegisterFiles \/ PatchList \/ ResumLists \/ CreatePackages
           \/ RefillPackages \/ ResumPackages \/ WriteSums
  <2>1. "complete" \in DOMAIN disk /\ disk'["complete"] = disk["complete"]
    BY <1>5 DEF WriteInfo, FilterPackages, RegisterFiles, PatchList, ResumLists, CreatePackages,
                RefillPackages, ResumPackages, WriteSums, With
  <2>. QED BY <1>0, <2>1
<1>6. CASE UnlinkList \/ DropPackages
  <2>1. "complete" \in DOMAIN disk /\ disk'["complete"] = disk["complete"]
    BY <1>6 DEF UnlinkList, DropPackages, Without
  <2>. QED BY <1>0, <2>1
<1>7. CASE StopAtMissing \/ Crash
  BY <1>0, <1>7 DEF StopAtMissing, Stops, Crash
<1>. QED BY <1>1, <1>2, <1>3, <1>4, <1>5, <1>6, <1>7
         DEF Next, ToolStep, RepoStep, PatchStep, ProvidesStep

LEMMA CompletePatchKept ==
  ASSUME FilesInv, IndexInv, CompleteInv, Next
  PROVE  (pc \in {"unlink", "move"} /\ pos = 5 => IsComplete(disk["tmp"]))'
<1>1. CASE PatchList
  <2>. SUFFICES ASSUME pos = 5 PROVE \A p \in DOMAIN disk'["tmp"] : disk'["tmp"][p] = AllProvides(p)
    BY <1>1 DEF PatchList, IsComplete
  <2>1. "complete" \in DOMAIN disk /\ disk'["tmp"] = Patched("complete")
    BY <1>1, SummedNames DEF PatchList, Exists, With
  <2>2. \A p : Section("complete", p) = AllProvides(p)
    BY DEF Section, HasBaseInfo
  <2>. QED BY <2>1, <2>2 DEF Patched, CompleteInv, IsComplete, Exists
<1>2. CASE UnlinkList
  <2>. SUFFICES ASSUME pos = 5 PROVE IsComplete(disk["tmp"])'
    BY <1>2 DEF UnlinkList
  <2>1. "tmp" \in DOMAIN disk /\ IsComplete(disk["tmp"])
    BY <1>2 DEF UnlinkList, FilesInv, TypesInv, MemoryInv, CompleteInv
  <2>2. PatchOrder[pos] # "tmp"
    BY FileNames
  <2>3. disk'["tmp"] = disk["tmp"]
    BY <1>2, <2>1, <2>2 DEF UnlinkList, Without
  <2>. QED BY <2>1, <2>3 DEF IsComplete
<1>3. CASE pc' \notin {"unlink", "move"}
  BY <1>3
<1>. QED
  BY <1>1, <1>2, <1>3
     DEF Next, Start, StartRepo, StartPatch, StartProvides, Crash, ToolStep,
         RepoStep, WriteInfo, CreateLists, CollectPackages, FilterPackages, RegisterFiles,
         PatchStep, MoveList, ResumLists,
         ProvidesStep, DropPackages, CreatePackages, RefillPackages, ResumPackages,
         WriteSums, StopAtMissing, Stops, NothingRuns

\* Filtering the complete list by references keeps what they ask for.
LEMMA FilterCovers ==
  ASSUME NEW content, IsComplete(content)
  PROVE  Covers(Filtered(content, KeptByRefs), refs \cup ext)
BY DEF IsComplete, Covers, Filtered, KeptByRefs

LEMMA CoversKept ==
  ASSUME FilesInv, IndexInv, CompleteInv, Next
  PROVE  (params.byRefs /\ pc \in {"register", "repo", "resumone", "provided"} =>
            Covers(disk["packages"], refs \cup ext))'
<1>1. CASE pc' \notin {"register", "repo", "resumone", "provided"}
  BY <1>1
<1>2. CASE CollectPackages
  BY <1>2 DEF CollectPackages
<1>3. CASE FilterPackages \/ RefillPackages
  <2>1. UNCHANGED <<params, refs, ext>> /\ "complete" \in DOMAIN disk
    BY <1>3, FileNames DEF FilterPackages, RefillPackages, inputVars, Exists, FilesInv, TypesInv, MemoryInv
  <2>. SUFFICES ASSUME params.byRefs PROVE Covers(disk["packages"], refs \cup ext)'
    BY <2>1
  <2>2. disk' = With(Filtered(disk["complete"], KeptByRefs), "packages")
    BY <1>3 DEF FilterPackages, RefillPackages, Kept, Filtered
  <2>3. disk'["packages"] = Filtered(disk["complete"], KeptByRefs)
    BY <2>2 DEF With
  <2>4. Covers(Filtered(disk["complete"], KeptByRefs), refs \cup ext)
    BY <2>1, FilterCovers DEF CompleteInv, Exists
  <2>. QED BY <2>1, <2>3, <2>4 DEF Covers
<1>4. CASE RegisterFiles \/ ResumPackages
  <2>1. /\ UNCHANGED <<params, refs, ext>> /\ pc \in {"register", "resumone"}
        /\ disk' = With(EmptyFile, "md5")
    BY <1>4 DEF RegisterFiles, ResumPackages, inputVars
  <2>2. disk'["packages"] = disk["packages"]
    BY <2>1 DEF With, IndexInv, PackagesExist
  <2>. QED BY <2>1, <2>2 DEF CompleteInv, Covers
<1>. QED
  BY <1>1, <1>2, <1>3, <1>4
     DEF Next, Start, StartRepo, StartPatch, StartProvides, Crash, ToolStep,
         RepoStep, WriteInfo, CreateLists, PatchStep, PatchList, UnlinkList, MoveList, ResumLists,
         ProvidesStep, DropPackages, CreatePackages, WriteSums, StopAtMissing, Stops, NothingRuns

\* A release of a program that filters by references has what they ask for.
LEMMA ReferencedKept ==
  ASSUME FilesInv, IndexInv, CompleteInv, Next
  PROVE  ReferencedProvidesAreListed'
<1>1. UNCHANGED params
  BY DEF Next, Start, StartRepo, StartPatch, StartProvides, Crash, ToolStep,
         RepoStep, WriteInfo, CreateLists, CollectPackages, FilterPackages, RegisterFiles,
         PatchStep, PatchList, UnlinkList, MoveList, ResumLists,
         ProvidesStep, DropPackages, CreatePackages, RefillPackages, ResumPackages,
         WriteSums, StopAtMissing, Stops
<1>2. CASE UNCHANGED releases
  BY <1>1, <1>2 DEF CompleteInv, ReferencedProvidesAreListed, LastRelease, RefsOf
<1>3. CASE WriteSums /\ releases' # releases
  <2>. DEFINE new == [tool |-> Releaser[pc], list |-> disk["packages"], ext |-> ext]
              names == DOMAIN disk["packages"]
  <2>1. releases' = Append(releases, new) /\ "info" \in DOMAIN sums /\ pc \in DOMAIN Releaser
    BY <1>3 DEF WriteSums
  <2>2. LastRelease' = new
    BY <2>1, AppendFacts DEF IndexInv, ReleasesSeq, LastRelease
  <2>. SUFFICES ASSUME new.tool # "ds-patch", params.byRefs, NEW p \in names
                PROVE  AllProvides(p) \cap (RefsOf(names) \cup ext) \subseteq disk["packages"][p]
    BY <1>1, <2>2 DEF ReferencedProvidesAreListed, RefsOf
  <2>3. pc \in {"repo", "provided"}
    BY <2>1 DEF Releaser
  <2>4. RefsOf(names) \subseteq refs
    <3>1. CASE pc = "repo"
      <4>1. names = Kind("packages", add) /\ refs = RefsOf(add)
        BY <3>1 DEF FilesInv, ListsInv, RepoInv
      <4>. QED BY <4>1 DEF Kind, Binary, RefsOf
    <3>2. CASE pc = "provided"
      BY <2>1, <3>2 DEF FilesInv, ListsInv, RefilterInv
    <3>. QED BY <2>3, <3>1, <3>2
  <2>. QED BY <2>3, <2>4 DEF CompleteInv, Covers
<1>. QED BY <1>2, <1>3, NextKeepsIndexInv
         DEF Next, Start, StartRepo, StartPatch, StartProvides, Crash, ToolStep,
             RepoStep, WriteInfo, CreateLists, CollectPackages, FilterPackages, RegisterFiles,
             PatchStep, PatchList, UnlinkList, MoveList, ResumLists,
             ProvidesStep, DropPackages, CreatePackages, RefillPackages, ResumPackages,
             StopAtMissing, Stops, historyVars

-----------------------------------------------------------------------------
\* What a release changes.

LastList == LastRelease.list

\* The list a program will release differs from the last one in the packages
\* it names or in what they provide.
ChangeInv ==
  "info" \in DOMAIN sums =>
    /\ pc \in Patching \cup {"patched"} /\ Exists("packages") =>
         Abstract!SameSections(LastList, disk["packages"])
    /\ pc = "patch" /\ pos = 1 /\ Exists("packages") => disk["packages"] = LastList
    /\ pc \in {"unlink", "move"} /\ pos = 1 => Abstract!SameSections(LastList, disk["tmp"])
    /\ pc \in Refiltering \cup {"provided"} => DOMAIN LastList = DOMAIN disk["descr"]

LEMMA PatchChangeKept ==
  ASSUME FilesInv, IndexInv, ChangeInv, PatchStep
  PROVE  ChangeInv'
<1>1. /\ pc \in Patching /\ pc' \in Patching \cup {"patched"} /\ UNCHANGED releases
      /\ DOMAIN sums' = DOMAIN sums /\ pos \in 1 .. 6
  BY DEF PatchStep, PatchList, UnlinkList, MoveList, ResumLists, historyVars, Resummed, Patching,
         IndexInv, PackagesExist
<1>. SUFFICES ASSUME "info" \in DOMAIN sums PROVE ChangeInv'
  BY <1>1 DEF ChangeInv
<1>2. LastList' = LastList
  BY <1>1 DEF LastList, LastRelease
<1>3. pc' \notin Refiltering \cup {"provided"}
  BY <1>1, Places
<1>4. ASSUME NEW old, NEW content, Abstract!SameSections(old, content)
      PROVE  \A p \in DOMAIN old \cap DOMAIN content : old[p] = content[p]
  BY <1>4 DEF Abstract!SameSections
<1>5. ASSUME NEW old, NEW content, \A p \in DOMAIN old \cap DOMAIN content : old[p] = content[p]
      PROVE  Abstract!SameSections(old, content)
  BY <1>5 DEF Abstract!SameSections
<1>6. CASE PatchList
  <2>1. /\ pc = "patch" /\ pc' = "unlink" /\ UNCHANGED pos
        /\ PatchOrder[pos] \in DOMAIN disk
        /\ disk' = With(Patched(PatchOrder[pos]), "tmp")
    BY <1>6 DEF PatchList, Exists
  <2>2. /\ disk'["tmp"] = Patched(PatchOrder[pos])
        /\ "packages" \in DOMAIN disk' => "packages" \in DOMAIN disk /\ disk'["packages"] = disk["packages"]
    BY <2>1 DEF With
  <2>3. ASSUME pos = 1
        PROVE  Abstract!SameSections(LastList, disk'["tmp"])
    <3>1. disk["packages"] = LastList /\ disk'["tmp"] = Patched("packages")
      BY <2>1, <2>2, <2>3, SummedNames DEF ChangeInv, Exists
    <3>2. \A p \in DOMAIN disk["packages"] \cap DOMAIN Patched("packages") :
            Patched("packages")[p] = disk["packages"][p]
      BY DEF Patched
    <3>. QED BY <1>5, <3>1, <3>2
  <2>4. Exists("packages")' => Abstract!SameSections(LastList, disk'["packages"])
    BY <1>1, <2>2 DEF ChangeInv, Exists
  <2>. QED BY <1>2, <1>3, <2>1, <2>3, <2>4 DEF ChangeInv, Abstract!SameSections
<1>7. CASE UnlinkList
  <2>1. /\ pc = "unlink" /\ pc' = "move" /\ UNCHANGED pos
        /\ disk' = Without(PatchOrder[pos]) /\ "tmp" \in DOMAIN disk /\ PatchOrder[pos] # "tmp"
    BY <1>1, <1>7, FileNames DEF UnlinkList, FilesInv, TypesInv, MemoryInv
  <2>2. /\ disk'["tmp"] = disk["tmp"]
        /\ "packages" \in DOMAIN disk' => "packages" \in DOMAIN disk /\ disk'["packages"] = disk["packages"]
    BY <2>1 DEF Without
  <2>3. /\ pos = 1 => Abstract!SameSections(LastList, disk'["tmp"])
        /\ Exists("packages")' => Abstract!SameSections(LastList, disk'["packages"])
    BY <1>1, <2>1, <2>2 DEF ChangeInv, Exists
  <2>. QED BY <1>2, <1>3, <2>1, <2>3 DEF ChangeInv, Abstract!SameSections
<1>8. CASE MoveList
  <2>1. pc = "move" /\ "tmp" \in DOMAIN disk
    BY <1>8 DEF MoveList, FilesInv, TypesInv, MemoryInv
  <2>2. /\ DOMAIN disk' = (DOMAIN disk \ {"tmp"}) \cup {PatchOrder[pos]}
        /\ disk'[PatchOrder[pos]] = disk["tmp"]
        /\ \A g \in DOMAIN disk' : g # PatchOrder[pos] => disk'[g] = disk[g]
        /\ \/ pos < 6 /\ pos' = pos + 1 /\ pc' = "patch"
           \/ pos = 6 /\ pos' = 1 /\ pc' = "resum"
    BY <1>1, <1>8, <2>1, MoveFacts
  <2>3. Exists("packages")' => Abstract!SameSections(LastList, disk'["packages"])
    <3>1. CASE pos = 1
      BY <2>1, <2>2, <3>1, SummedNames DEF ChangeInv
    <3>2. CASE pos # 1
      <4>1. PatchOrder[pos] # "packages"
        BY <1>1, <3>2, SummedNames
      <4>. QED BY <1>1, <2>2, <4>1 DEF ChangeInv, Exists
    <3>. QED BY <3>1, <3>2
  <2>4. ~ (pc' = "patch" /\ pos' = 1) /\ pc' \notin {"unlink", "move"}
    BY <1>1, <2>2
  <2>. QED BY <1>2, <1>3, <2>3, <2>4 DEF ChangeInv, Abstract!SameSections
<1>9. CASE ResumLists
  <2>1. pc' = "patched" /\ disk' = With(EmptyFile, "md5")
    BY <1>9 DEF ResumLists
  <2>2. "packages" \in DOMAIN disk' => "packages" \in DOMAIN disk /\ disk'["packages"] = disk["packages"]
    BY <2>1 DEF With
  <2>3. Exists("packages")' => Abstract!SameSections(LastList, disk'["packages"])
    BY <1>1, <2>2 DEF ChangeInv, Exists
  <2>. QED BY <1>2, <1>3, <2>1, <2>3 DEF ChangeInv, Abstract!SameSections
<1>. QED BY <1>6, <1>7, <1>8, <1>9 DEF PatchStep

LEMMA ChangeKept ==
  ASSUME FilesInv, IndexInv, ChangeInv, Next
  PROVE  ChangeInv'
<1>1. CASE pc' \notin Patching \cup Refiltering \cup {"patched", "provided"}
  BY <1>1 DEF ChangeInv, Patching
<1>2. CASE PatchStep
  BY <1>2, PatchChangeKept
<1>3. CASE Start /\ pc' # "info"
  <2>1. /\ pc = "idle" /\ pc' \in {"patch", "drop"} /\ UNCHANGED <<disk, releases, pos>>
        /\ sums' = disk["md5"] /\ IndexIsVerified
    BY <1>3 DEF Start, StartRepo, StartPatch, StartProvides, Run
  <2>. SUFFICES ASSUME "info" \in DOMAIN disk["md5"] PROVE ChangeInv'
    BY <2>1 DEF ChangeInv
  <2>2. "md5" \in DOMAIN disk /\ DOMAIN disk["md5"] = SummedFiles /\ Verified
    BY <2>1 DEF IndexIsVerified, Verified, Exists, FilesInv, SumsInv, SumsShape
  <2>3. \A f \in SummedFiles : f \in DOMAIN disk /\ disk[f] = disk["md5"][f]
    BY <2>2 DEF Verified, Exists
  <2>4. disk["packages"] = LastList
    BY <2>2, <2>3, SummedNames DEF IndexInv, SumsAreReleased, Exists, LastList, LastRelease
  <2>5. DOMAIN disk["packages"] = DOMAIN disk["descr"]
    BY <2>1, <2>2 DEF FilesInv, ListsInv, AgreeInv, DamageIsNoticed
  <2>6. disk'["packages"] = LastList' /\ DOMAIN disk'["descr"] = DOMAIN LastList'
    BY <2>1, <2>4, <2>5 DEF LastList, LastRelease
  <2>7. Abstract!SameSections(LastList, disk["packages"])'
    BY <2>6 DEF Abstract!SameSections
  <2>8. pc' \notin {"unlink", "move"}
    BY <2>1
  <2>. QED BY <2>6, <2>7, <2>8 DEF ChangeInv
<1>4. CASE ProvidesStep
  <2>1. /\ pc \in Refiltering /\ pc' \in Refiltering \cup {"provided"} /\ UNCHANGED releases
        /\ "info" \in DOMAIN sums' => "info" \in DOMAIN sums
    BY <1>4 DEF ProvidesStep, DropPackages, CreatePackages, RefillPackages, ResumPackages, historyVars,
                Resummed, Refiltering
  <2>. SUFFICES ASSUME "info" \in DOMAIN sums PROVE ChangeInv'
    BY <2>1 DEF ChangeInv
  <2>2. "descr" \in DOMAIN disk
    BY <2>1 DEF FilesInv, ListsInv, RefilterInv, ListsAgree
  <2>3. disk'["descr"] = disk["descr"]
    BY <1>4, <2>2 DEF ProvidesStep, DropPackages, CreatePackages, RefillPackages, ResumPackages, With, Without
  <2>4. LastList' = LastList
    BY <2>1 DEF LastList, LastRelease
  <2>5. DOMAIN LastList' = DOMAIN disk'["descr"]
    BY <2>1, <2>3, <2>4 DEF ChangeInv
  <2>6. pc' \notin Patching \cup {"patched"}
    BY <2>1, Places
  <2>. QED BY <2>5, <2>6 DEF ChangeInv, Patching
<1>. QED
  BY <1>1, <1>2, <1>3, <1>4, Places
     DEF Next, Crash, ToolStep, RepoStep, WriteInfo, CreateLists, CollectPackages, FilterPackages,
         RegisterFiles, WriteSums, StopAtMissing, Stops, NothingRuns, Repoing, Patching, Refiltering

-----------------------------------------------------------------------------
\* The index of the documentation.

LastLists == {LastRelease.list : i \in DOMAIN releases}

\* What the sums vouch for is the last release.
LEMMA OfferedIsLast ==
  ASSUME IndexInv
  PROVE  /\ Offered = {} \/ Offered = LastLists
         /\ releases # <<>> => LastLists = {LastList}
         /\ releases = <<>> => LastLists = {}
<1>1. releases # <<>> => LastLists = {LastList} /\ LastList = releases[Len(releases)].list
  BY DEF IndexInv, ReleasesSeq, LastLists, LastList, LastRelease
<1>2. releases = <<>> => LastLists = {}
  BY DEF LastLists
<1>3. Offered # {} => Offered = LastLists
  BY <1>1 DEF Offered, IndexInv, SumsAreReleased, Exists
<1>. QED BY <1>1, <1>2, <1>3

\* Writing the sums of an index is a release of the documented one.
LEMMA ReleaseStep ==
  ASSUME FilesInv, IndexInv, ChangeInv, WriteSums, releases' # releases
  PROVE  Abstract!Release
<1>. DEFINE content == disk["packages"]
            new == [tool |-> Releaser[pc], list |-> content, ext |-> ext]
<1>1. /\ releases' = Append(releases, new) /\ {"info", "packages"} \subseteq DOMAIN sums
      /\ pc \in {"repo", "patched", "provided"} /\ disk' = With(sums, "md5")
  BY Places DEF WriteSums
<1>2. /\ disk["md5"] = EmptyFile /\ "info" \in DOMAIN disk /\ sums["info"] = disk["info"]
      /\ "packages" \in DOMAIN disk /\ sums["packages"] = content
  BY <1>1, Places DEF FilesInv, SumsInv, IndexInv, SumsAreFresh
<1>3. Offered = {}
  BY <1>2 DEF Offered, EmptyFile
<1>4. /\ DOMAIN disk' = DOMAIN disk \cup {"md5"} /\ disk'["md5"] = sums
      /\ disk'["info"] = disk["info"] /\ disk'["packages"] = content
  BY <1>1, <1>2 DEF With
<1>5. Offered' = {content}
  BY <1>1, <1>2, <1>4 DEF Offered, Exists
<1>6. LastLists' = {content}
  BY <1>1, AppendFacts DEF IndexInv, ReleasesSeq, LastLists, LastRelease
<1>7. Abstract!IsPackageList(content)
  BY <1>2, FileNames DEF FilesInv, TypesInv, DiskInv
<1>8. ASSUME NEW old \in LastLists
      PROVE  Abstract!SameSections(old, content) \/ Abstract!SamePackages(old, content)
  <2>1. releases # <<>> /\ old = LastList
    BY OfferedIsLast
  <2>2. CASE pc = "repo"
    BY <2>1, <2>2 DEF FilesInv, SumsInv
  <2>3. CASE pc = "patched"
    BY <1>1, <1>2, <2>1, <2>3 DEF ChangeInv, Exists
  <2>4. CASE pc = "provided"
    <3>1. DOMAIN LastList = DOMAIN disk["descr"]
      BY <1>1, <2>4 DEF ChangeInv
    <3>2. DOMAIN content = DOMAIN disk["descr"]
      BY <1>1, <2>4 DEF FilesInv, ListsInv, RefilterInv
    <3>. QED BY <2>1, <3>1, <3>2 DEF Abstract!SamePackages
  <2>. QED BY <1>1, <2>2, <2>3, <2>4
<1>. QED BY <1>3, <1>5, <1>6, <1>7, <1>8 DEF Abstract!Release, LastLists

\* Every step is one of the documented index, or none.
LEMMA AbstractStep ==
  ASSUME FilesInv, IndexInv, ChangeInv, [RepositoryNext]_vars, IndexInv'
  PROVE  Abstract!Next \/ UNCHANGED Abstract!listVars
<1>1. CASE UNCHANGED releases
  <2>1. LastLists' = LastLists
    BY <1>1 DEF LastLists, LastRelease
  <2>2. Offered = {} \/ Offered = LastLists
    BY OfferedIsLast
  <2>3. Offered' = {} \/ Offered' = LastLists'
    <3>1. releases' # <<>> => LastLists' = {releases'[Len(releases')].list}
      BY DEF IndexInv, ReleasesSeq, LastLists, LastRelease
    <3>2. Offered' # {} => Offered' = LastLists'
      BY <3>1 DEF Offered, IndexInv, SumsAreReleased, Exists
    <3>. QED BY <3>2
  <2>. QED BY <2>1, <2>2, <2>3 DEF Abstract!Next, Abstract!Withdraw, Abstract!Restore, Abstract!listVars, LastLists
<1>2. CASE releases' # releases
  <2>1. WriteSums
    BY <1>2 DEF RepositoryNext, ClientStep, FetchInfo, FetchChecksums, FetchPackages, LoadPackageData,
                FetchMissing, FetchFails, vars, indexVars, historyVars, IndexStep,
                Next, Start, StartRepo, StartPatch, StartProvides, Crash, ToolStep,
                RepoStep, WriteInfo, CreateLists, CollectPackages, FilterPackages, RegisterFiles,
                PatchStep, PatchList, UnlinkList, MoveList, ResumLists,
                ProvidesStep, DropPackages, CreatePackages, RefillPackages, ResumPackages,
                StopAtMissing, Stops
  <2>. QED BY <1>2, <2>1, ReleaseStep DEF Abstract!Next
<1>. QED BY <1>1, <1>2

-----------------------------------------------------------------------------
\* Nothing is missing and the sums match while nothing was interrupted.

\* A whole index, as a program leaves it.
WholeIndex ==
  /\ "md5" \in DOMAIN disk /\ DOMAIN disk["md5"] = SummedFiles
  /\ "info" \in DOMAIN disk /\ disk["info"] # EmptyFile
  /\ Lists \subseteq DOMAIN disk
  /\ \A f \in SummedFiles : disk[f] = disk["md5"][f]

CalmInv ==
  crashes = 0 =>
    /\ pc = "idle" => disk = EmptyFile \/ WholeIndex
    /\ pc \notin {"idle", "info"} => disk["info"] # EmptyFile
    /\ pc \in Patching \cup Refiltering \cup DOMAIN Releaser => DOMAIN sums = SummedFiles
    /\ pc \in Patching => \A f \in Lists : f \in DOMAIN disk \/ (pc = "move" /\ f = PatchOrder[pos])
    /\ pc \in Refiltering =>
         \A f \in Lists \ {"packages"} : f \in DOMAIN disk /\ (f # "complete" => sums[f] = disk[f])
    /\ pc = "drop" => "packages" \in DOMAIN disk
    /\ pc \in DOMAIN Releaser => Lists \subseteq DOMAIN disk /\ \A f \in SummedFiles : sums[f] = disk[f]

\* A file with the parameters is not empty.
LEMMA InfoTextIsText == InfoText # EmptyFile
<1>1. Len(InfoText) = 1 /\ Len(EmptyFile) = 0
  BY DEF InfoText, EmptyFile
<1>. QED BY <1>1

LEMMA CalmKept ==
  ASSUME FilesInv, IndexInv, CalmInv, Next
  PROVE  CalmInv'
<1>. SUFFICES ASSUME crashes' = 0 PROVE CalmInv'
  BY DEF CalmInv
<1>0. crashes = 0 /\ ~ Crash
  <2>1. crashes \in Nat
    BY DEF FilesInv, TypesInv, CountInv
  <2>2. ~ Crash
    BY <2>1 DEF Crash
  <2>3. UNCHANGED crashes
    BY <2>2 DEF Next, Start, StartRepo, StartPatch, StartProvides, ToolStep,
         RepoStep, WriteInfo, CreateLists, CollectPackages, FilterPackages, RegisterFiles,
         PatchStep, PatchList, UnlinkList, MoveList, ResumLists,
         ProvidesStep, DropPackages, CreatePackages, RefillPackages, ResumPackages,
         WriteSums, StopAtMissing, Stops, historyVars
  <2>. QED BY <2>2, <2>3
<1>1. Lists' = Lists /\ SummedFiles' = SummedFiles /\ \A i : PatchOrder[i]' = PatchOrder[i]
  BY DEF Lists, SummedFiles, PatchOrder
<1>a. ASSUME pc' \in Repoing, pc' = "info" \/ disk'["info"] # EmptyFile
      PROVE  CalmInv'
  <2>1. pc' \notin Patching \cup Refiltering \cup {"idle", "repo", "patched", "provided"}
    BY <1>a, Places
  <2>2. pc' # "drop"
    BY <1>a DEF Repoing
  <2>. QED BY <1>a, <2>1, <2>2, Places DEF CalmInv, EmptyFile, Patching, Refiltering
<1>b. ASSUME pc' \in Patching, disk'["info"] # EmptyFile, DOMAIN sums' = SummedFiles,
             \A f \in Lists : f \in DOMAIN disk' \/ (pc' = "move" /\ f = PatchOrder[pos'])
      PROVE  CalmInv'
  <2>1. pc' \notin Refiltering \cup {"idle", "repo", "patched", "provided"} /\ pc' # "drop"
    BY <1>b, Places DEF Patching
  <2>2. \A f \in Lists' : f \in DOMAIN disk' \/ (pc' = "move" /\ f = PatchOrder[pos]')
    BY <1>b, <1>1 DEF PatchOrder
  <2>. QED BY <1>b, <1>1, <2>1, <2>2, Places DEF CalmInv, EmptyFile, Patching, Refiltering
<1>c. ASSUME pc' \in Refiltering, disk'["info"] # EmptyFile, DOMAIN sums' = SummedFiles,
             \A f \in Lists \ {"packages"} : f \in DOMAIN disk' /\ (f # "complete" => sums'[f] = disk'[f]),
             pc' = "drop" => "packages" \in DOMAIN disk'
      PROVE  CalmInv'
  <2>1. pc' \notin Patching \cup {"idle", "repo", "patched", "provided"}
    BY <1>c, Places
  <2>. QED BY <1>c, <1>1, <2>1, Places DEF CalmInv, EmptyFile, Patching, Refiltering
<1>2. CASE Start
  <2>1. CASE pc' = "info"
    BY <1>a, <2>1 DEF Repoing
  <2>2. CASE pc' # "info"
    <3>1. /\ pc = "idle" /\ pc' \in {"patch", "drop"} /\ UNCHANGED disk
          /\ sums' = disk["md5"] /\ IndexIsVerified
      BY <1>2, <2>2 DEF Start, StartRepo, StartPatch, StartProvides, Run
    <3>2. WholeIndex
      BY <1>0, <3>1 DEF IndexIsVerified, Exists, CalmInv, EmptyFile
    <3>3. /\ DOMAIN sums' = SummedFiles /\ \A f \in SummedFiles : sums'[f] = disk'[f]
          /\ Lists \subseteq DOMAIN disk' /\ disk'["info"] # EmptyFile
      BY <3>1, <3>2 DEF WholeIndex
    <3>4. \A f \in Lists : f # "complete" => f \in SummedFiles
      BY DEF SummedFiles
    <3>. QED BY <1>1, <3>1, <3>3, <3>4, FileNames, Places DEF CalmInv
  <2>. QED BY <2>1, <2>2
<1>3. CASE WriteInfo
  <2>1. pc' = "create" /\ disk' = With(InfoText, "info")
    BY <1>3 DEF WriteInfo
  <2>2. disk'["info"] # EmptyFile
    BY <2>1, InfoTextIsText DEF With
  <2>. QED BY <1>a, <2>1, <2>2 DEF Repoing
<1>4. CASE CreateLists \/ CollectPackages \/ FilterPackages
  <2>1. pc \in Repoing \ {"info"} /\ pc' \in Repoing \ {"info"}
    BY <1>4 DEF CreateLists, CollectPackages, FilterPackages, Repoing
  <2>2. disk'["info"] = disk["info"]
    BY <1>4, <2>1, ListStepFacts, Places DEF ListSteps, FilesInv, SumsInv
  <2>3. disk["info"] # EmptyFile
    BY <1>0, <2>1 DEF CalmInv, Repoing
  <2>. QED BY <1>a, <2>1, <2>2, <2>3
<1>5. CASE RegisterFiles \/ ResumLists \/ ResumPackages
  <2>1. /\ \/ pc = "register" /\ pc' = "repo" /\ sums' = Resummed(SummedFiles)
           \/ pc = "resum" /\ pc' = "patched" /\ sums' = Resummed(DOMAIN sums \ {"info"})
           \/ pc = "resumone" /\ pc' = "provided" /\ sums' = Resummed({"packages"})
        /\ disk' = With(EmptyFile, "md5")
    BY <1>5 DEF RegisterFiles, ResumLists, ResumPackages
  <2>2. pc' \in DOMAIN Releaser /\ pc \notin {"idle", "info"}
    BY <2>1, Places
  <2>3. Lists \subseteq DOMAIN disk /\ disk["info"] # EmptyFile /\ "info" \in DOMAIN disk
    <3>1. CASE pc = "register"
      BY <1>0, <3>1 DEF FilesInv, TypesInv, MemoryInv, CalmInv, SumsInv
    <3>2. CASE pc = "resum"
      BY <1>0, <3>2 DEF CalmInv, Patching, FilesInv, SumsInv
    <3>3. CASE pc = "resumone"
      <4>1. "packages" \in DOMAIN disk
        BY <3>3 DEF IndexInv, PackagesExist
      <4>. QED BY <1>0, <3>3, <4>1 DEF CalmInv, Refiltering, FilesInv, SumsInv
    <3>. QED BY <2>1, <3>1, <3>2, <3>3
  <2>4. /\ Lists \subseteq DOMAIN disk' /\ disk'["info"] # EmptyFile
        /\ \A f \in SummedFiles : disk'[f] = disk[f]
    BY <2>1, <2>3, FileNames, SummedNames DEF With
  <2>5. DOMAIN sums' = SummedFiles /\ \A f \in SummedFiles : sums'[f] = disk[f]
    <3>1. CASE pc = "register"
      <4>1. sums' = Resummed(SummedFiles)
        BY <2>1, <3>1
      <4>2. DOMAIN sums \subseteq SummedFiles
        BY DEF FilesInv, SumsInv, SumsShape
      <4>. QED BY <4>1, <4>2 DEF Resummed
    <3>2. CASE pc = "resum"
      <4>1. sums' = Resummed(DOMAIN sums \ {"info"})
        BY <2>1, <3>2
      <4>2. DOMAIN sums = SummedFiles
        BY <1>0, <3>2 DEF CalmInv, Patching
      <4>3. sums["info"] = disk["info"]
        BY <3>2, <4>2, SummedNames DEF FilesInv, SumsInv, Repoing
      <4>. QED BY <4>1, <4>2, <4>3 DEF Resummed
    <3>3. CASE pc = "resumone"
      <4>1. sums' = Resummed({"packages"})
        BY <2>1, <3>3
      <4>2. DOMAIN sums = SummedFiles /\ \A f \in Lists \ {"packages", "complete"} : sums[f] = disk[f]
        BY <1>0, <3>3 DEF CalmInv, Refiltering
      <4>3. sums["info"] = disk["info"]
        BY <3>3, <4>2, SummedNames DEF FilesInv, SumsInv, Repoing
      <4>4. \A f \in SummedFiles : f \in Lists \ {"complete"} \/ f = "info"
        BY DEF SummedFiles
      <4>5. "packages" \in SummedFiles
        BY SummedNames
      <4>. QED BY <4>1, <4>2, <4>3, <4>4, <4>5 DEF Resummed
    <3>. QED BY <2>1, <3>1, <3>2, <3>3
  <2>. QED BY <1>1, <2>2, <2>4, <2>5, Places DEF CalmInv
<1>6. CASE PatchList \/ UnlinkList \/ MoveList
  <2>1. /\ pc \in Patching /\ pc' \in Patching /\ pos \in 1 .. 6
        /\ disk'["info"] = disk["info"] /\ UNCHANGED sums
    <3>1. pc \in Patching /\ pc' \in Patching
      BY <1>6 DEF PatchList, UnlinkList, MoveList, Patching
    <3>2. pc \notin Repoing \cup Refiltering /\ "info" \in DOMAIN disk
      BY <3>1, Places DEF FilesInv, SumsInv
    <3>. QED BY <1>6, <3>1, <3>2, ListStepFacts DEF ListSteps, FilesInv, IndexInv, PackagesExist
  <2>2. \A f \in Lists : f \in DOMAIN disk \/ (pc = "move" /\ f = PatchOrder[pos])
    BY <1>0, <2>1 DEF CalmInv
  <2>3. \A f \in Lists : f \in DOMAIN disk' \/ (pc' = "move" /\ f = PatchOrder[pos'])
    <3>1. CASE PatchList
      BY <2>2, <3>1 DEF PatchList, With
    <3>2. CASE UnlinkList
      <4>1. pc = "unlink" /\ pc' = "move" /\ pos' = pos /\ DOMAIN disk' = DOMAIN disk \ {PatchOrder[pos]}
        BY <3>2 DEF UnlinkList, Without
      <4>. QED BY <2>2, <4>1
    <3>3. CASE MoveList
      <4>1. pc = "move" /\ DOMAIN disk' = (DOMAIN disk \ {"tmp"}) \cup {PatchOrder[pos]}
        BY <3>3 DEF MoveList
      <4>2. "tmp" \notin Lists
        BY FileNames
      <4>. QED BY <2>2, <4>1, <4>2
    <3>. QED BY <1>6, <3>1, <3>2, <3>3
  <2>4. DOMAIN sums = SummedFiles /\ disk["info"] # EmptyFile
    BY <1>0, <2>1, Places DEF CalmInv, Patching
  <2>. QED BY <1>b, <2>1, <2>3, <2>4
<1>7. CASE DropPackages \/ CreatePackages \/ RefillPackages
  <2>1. /\ pc \in Refiltering /\ pc' \in Refiltering \ {"drop"} /\ UNCHANGED sums
    BY <1>7 DEF DropPackages, CreatePackages, RefillPackages, Refiltering
  <2>2. \A f \in DOMAIN disk : f # "packages" => f \in DOMAIN disk' /\ disk'[f] = disk[f]
    BY <1>7 DEF DropPackages, CreatePackages, RefillPackages, With, Without
  <2>3. "info" \in DOMAIN disk
    BY <2>1, Places DEF FilesInv, SumsInv
  <2>4. /\ DOMAIN sums = SummedFiles /\ disk["info"] # EmptyFile
        /\ \A f \in Lists \ {"packages"} : f \in DOMAIN disk /\ (f # "complete" => sums[f] = disk[f])
    BY <1>0, <2>1, Places DEF CalmInv, Refiltering
  <2>. QED BY <1>c, <2>1, <2>2, <2>3, <2>4
<1>8. CASE WriteSums
  <2>1. pc \in DOMAIN Releaser /\ pc' = "idle" /\ disk' = With(sums, "md5")
    BY <1>8 DEF WriteSums, NothingRuns
  <2>2. /\ disk["info"] # EmptyFile /\ DOMAIN sums = SummedFiles /\ "info" \in DOMAIN disk
        /\ Lists \subseteq DOMAIN disk /\ \A f \in SummedFiles : sums[f] = disk[f]
    BY <1>0, <2>1, Places DEF CalmInv, FilesInv, SumsInv
  <2>3. WholeIndex'
    BY <1>1, <2>1, <2>2, SummedNames, FileNames DEF WholeIndex, With
  <2>. QED BY <2>1, <2>3, Places DEF CalmInv
<1>9. CASE StopAtMissing
  <2>1. PatchOrder[pos] \in Lists /\ "complete" \in Lists
    BY FileNames DEF IndexInv, PackagesExist
  <2>. QED BY <1>0, <1>9, <2>1 DEF StopAtMissing, CalmInv, Patching, Refiltering, Exists
<1>. QED BY <1>0, <1>2, <1>3, <1>4, <1>5, <1>6, <1>7, <1>8, <1>9
         DEF Next, ToolStep, RepoStep, PatchStep, ProvidesStep

\* An undisturbed client has what is on the disk.
QuietInv ==
  /\ stage \in {"begin", "info", "checksums", "fetched", "loaded", "failed"}
  /\ quiet =>
       /\ pc = "idle" /\ crashes = 0 /\ disk # EmptyFile
       /\ stage \notin {"begin", "failed"}
       /\ stage = "info" => infoContent = disk["info"]
       /\ stage \in {"checksums", "fetched"} => m_checksums = disk["md5"]
       /\ stage = "fetched" => list = disk["packages"]

LEMMA QuietKept ==
  ASSUME CalmInv, QuietInv, [RepositoryNext]_vars
  PROVE  QuietInv'
<1>1. CASE IndexStep
  BY <1>1 DEF IndexStep, QuietInv
<1>2. quiet => WholeIndex
  BY DEF QuietInv, CalmInv
<1>3. SummedFiles = {"packages", "descr", "sources", "srcdescr", "filelist", "info"}
      /\ "packages" \in Lists
  BY SummedNames, FileNames
<1>4. ASSUME UNCHANGED indexVars PROVE UNCHANGED <<pc, crashes, disk>>
  BY <1>4 DEF indexVars, historyVars
<1>5. CASE FetchInfo
  <2>1. quiet' => pc = "idle" /\ crashes = 0 /\ WholeIndex
    <3>1. "info" \in DOMAIN disk /\ (quiet' => pc = "idle" /\ crashes = 0)
      BY <1>5 DEF FetchInfo, Exists
    <3>2. disk # EmptyFile
      BY <3>1 DEF EmptyFile
    <3>. QED BY <3>1, <3>2 DEF CalmInv
  <2>2. stage' \in {"info", "failed"} /\ (quiet' => stage' = "info")
    BY <1>5, <2>1 DEF FetchInfo, WholeIndex
  <2>3. UNCHANGED <<pc, crashes, disk>> /\ infoContent' = disk["info"] /\ disk # EmptyFile
    BY <1>4, <1>5 DEF FetchInfo, Exists, EmptyFile
  <2>. QED BY <2>1, <2>2, <2>3 DEF QuietInv
<1>6. CASE FetchChecksums
  <2>1. UNCHANGED <<pc, crashes, disk, quiet>> /\ m_checksums' = disk["md5"] /\ stage = "info"
        /\ stage' \in {"checksums", "failed"}
    BY <1>4, <1>6 DEF FetchChecksums
  <2>2. quiet => stage' = "checksums"
    BY <1>2, <1>3, <1>6 DEF FetchChecksums, WholeIndex, QuietInv
  <2>. QED BY <2>1, <2>2 DEF QuietInv
<1>7. CASE FetchPackages
  BY <1>4, <1>7 DEF FetchPackages, QuietInv
<1>8. CASE LoadPackageData
  <2>1. UNCHANGED <<pc, crashes, disk, quiet>> /\ stage = "fetched" /\ stage' \in {"loaded", "failed"}
    BY <1>4, <1>8 DEF LoadPackageData
  <2>2. quiet => stage' = "loaded"
    BY <1>2, <1>3, <1>8 DEF LoadPackageData, WholeIndex, QuietInv
  <2>. QED BY <2>1, <2>2 DEF QuietInv
<1>9. CASE FetchMissing
  <2>1. ~ quiet
    BY <1>2, <1>3, <1>9 DEF FetchMissing, QuietInv, WholeIndex, Exists
  <2>. QED BY <1>9, <2>1 DEF FetchMissing, QuietInv
<1>10. CASE FetchFails
  BY <1>10 DEF FetchFails, QuietInv
<1>11. CASE UNCHANGED vars
  BY <1>11 DEF vars, clientVars, indexVars, historyVars, QuietInv
<1>. QED BY <1>1, <1>5, <1>6, <1>7, <1>8, <1>9, <1>10, <1>11 DEF RepositoryNext, ClientStep

-----------------------------------------------------------------------------
\* The theorems.

\* The client only looks at the index.
LEMMA ClientSteps ==
  ASSUME [RepositoryNext]_vars
  PROVE  Next \/ UNCHANGED indexVars
BY DEF RepositoryNext, IndexStep, ClientStep, FetchInfo, FetchChecksums, FetchPackages, LoadPackageData,
       FetchMissing, FetchFails, vars

\* Nothing that the invariant says of the index changes when the index stays
\* as it is.
LEMMA UnchangedKeepsFiles ==
  ASSUME UNCHANGED indexVars
  PROVE  /\ FilesInv => FilesInv'
         /\ CompleteInv => CompleteInv'
         /\ ChangeInv => ChangeInv'
         /\ CalmInv => CalmInv'
<1>. USE DEF indexVars, inputVars, historyVars
<1>1. TypesInv => TypesInv'
  <2>1. DiskInv => DiskInv'
    BY DEF DiskInv, Lists, PatchOrder, Abstract!IsPackageList
  <2>2. MemoryInv => MemoryInv'
    BY DEF MemoryInv, EmptyFile, Lists, PatchOrder
  <2>3. CountInv => CountInv'
    BY DEF CountInv
  <2>. QED BY <2>1, <2>2, <2>3 DEF TypesInv
<1>2. SumsInv => SumsInv'
  BY DEF SumsInv, SumsShape, SummedFiles, EmptyFile
<1>3. DamageIsNoticed => DamageIsNoticed'
  BY DEF DamageIsNoticed, Verified, Exists, SummedFiles
<1>4. RepoInv => RepoInv'
  BY DEF RepoInv, RefsOf, Kind, Binary, Lists, PatchOrder
<1>5. PatchInv => PatchInv'
  <2>1. /\ \A f : Before(f)' = Before(f) /\ After(f)' = After(f)
        /\ \A i : IsPatched(i)' = IsPatched(i) /\ PatchOrder[i]' = PatchOrder[i]
        /\ PatchOrder[pos]' = PatchOrder[pos]
    BY DEF Before, After, IsPatched, Kind, Binary, PatchOrder
  <2>. QED BY <2>1 DEF PatchInv
<1>6. RefilterInv => RefilterInv'
  BY DEF RefilterInv, ListsAgree, Exists, RefsOf
<1>7. AgreeInv => AgreeInv'
  BY <1>3 DEF AgreeInv, ListsAgree, Exists
<1>8. CompleteInv => CompleteInv'
  BY DEF CompleteInv, IsComplete, Covers, Exists, ReferencedProvidesAreListed, LastRelease, RefsOf
<1>9. ChangeInv => ChangeInv'
  BY DEF ChangeInv, Exists, Abstract!SameSections, LastList, LastRelease
<1>10. CalmInv => CalmInv'
  BY DEF CalmInv, WholeIndex, EmptyFile, Lists, SummedFiles, PatchOrder
<1>. QED BY <1>1, <1>2, <1>4, <1>5, <1>6, <1>7, <1>8, <1>9, <1>10 DEF FilesInv, ListsInv

LEMMA InitFiles ==
  ASSUME RepositoryInit
  PROVE  FilesInv /\ CompleteInv /\ ChangeInv /\ CalmInv /\ QuietInv
<1>. USE DEF RepositoryInit, Init
<1>1. DOMAIN disk = {} /\ DOMAIN sums = {} /\ Len(releases) = 0
  BY DEF EmptyFile
<1>2. TypesInv
  BY <1>1 DEF TypesInv, DiskInv, MemoryInv, CountInv, Pcs
<1>3. SumsInv
  BY <1>1, Places DEF SumsInv, SumsShape, Repoing, Patching, Refiltering
<1>4. ListsInv
  BY <1>1, Places DEF ListsInv, RepoInv, PatchInv, RefilterInv, AgreeInv, DamageIsNoticed, Verified, Exists
<1>5. CompleteInv
  BY <1>1 DEF CompleteInv, ReferencedProvidesAreListed, Exists
<1>6. ChangeInv
  BY <1>1 DEF ChangeInv
<1>7. CalmInv
  BY Places DEF CalmInv, Patching, Refiltering
<1>8. QuietInv
  BY DEF QuietInv
<1>. QED BY <1>2, <1>3, <1>4, <1>5, <1>6, <1>7, <1>8 DEF FilesInv

WholeInv == FilesInv /\ CompleteInv /\ ChangeInv /\ CalmInv /\ QuietInv

LEMMA WholeInvKept ==
  ASSUME Inv, WholeInv, [RepositoryNext]_vars
  PROVE  WholeInv'
<1>1. QuietInv'
  BY QuietKept DEF WholeInv
<1>2. CASE Next
  <2>1. TypesInv'
    BY <1>2, DiskTypesKept, MemoryTypesKept, CountKept DEF WholeInv, FilesInv, Inv, TypesInv
  <2>2. SumsInv'
    BY <1>2, SumsKept DEF WholeInv, FilesInv, Inv
  <2>3. ListsInv'
    BY <1>2, RepoListsKept, PatchListsKept, RefilterKept, AgreeKept DEF WholeInv, FilesInv, Inv, ListsInv
  <2>4. CompleteInv'
    BY <1>2, CompleteListKept, CompletePatchKept, CoversKept, ReferencedKept DEF WholeInv, Inv, CompleteInv
  <2>5. ChangeInv' /\ CalmInv'
    BY <1>2, ChangeKept, CalmKept DEF WholeInv, Inv
  <2>. QED BY <1>1, <2>1, <2>2, <2>3, <2>4, <2>5 DEF WholeInv, FilesInv
<1>3. CASE UNCHANGED indexVars
  BY <1>1, <1>3, UnchangedKeepsFiles DEF WholeInv
<1>. QED BY <1>2, <1>3, ClientSteps

\* What the programs leave on the disk at every step, for any packages,
\* selections and interruptions.
THEOREM WholeInvHolds == RepositorySpec => [](Inv /\ WholeInv)
<1>1. RepositoryInit => WholeInv
  BY InitFiles DEF WholeInv
<1>2. Inv /\ WholeInv /\ [RepositoryNext]_vars => WholeInv'
  BY WholeInvKept
<1>. QED BY <1>1, <1>2, InvHolds, PTL DEF RepositorySpec

\* Every variable has its type, and a program holds sums, references and
\* packages only while it runs.
THEOREM IndexTypeCorrect == RepositorySpec => []IndexTypeOK
<1>1. Inv /\ WholeInv => IndexTypeOK
  <2>. SUFFICES ASSUME Inv, WholeInv PROVE IndexTypeOK
    OBVIOUS
  <2>. USE DEF Inv, WholeInv, FilesInv, TypesInv
  <2>1. /\ DOMAIN disk \subseteq Lists \cup {"info", "md5", "tmp"}
        /\ \A f \in DOMAIN disk \cap (Lists \cup {"tmp"}) : Abstract!IsPackageList(disk[f])
    BY DEF DiskInv
  <2>2. DOMAIN sums \subseteq SummedFiles
    BY DEF SumsInv, SumsShape
  <2>3. pos \in 1 .. 6 /\ (pc = "idle" => pos = 1)
    BY DEF IndexInv, PackagesExist
  <2>4. /\ ext \cup refs \subseteq AllRefs
        /\ add \cup del \subseteq Packages
        /\ pc = "idle" => sums = EmptyFile /\ refs = {} /\ add = {} /\ del = {}
    BY DEF MemoryInv
  <2>5. Len(releases) <= runs /\ crashes <= runs
    <3>1. Len(releases) \in Nat
      BY DEF IndexInv, ReleasesSeq
    <3>. QED BY <3>1 DEF CountInv
  <2>6. stage \in {"begin", "info", "checksums", "fetched", "loaded", "failed"}
    BY DEF QuietInv
  <2>7. since <= Len(releases)
    BY DEF ClientHasReleasedSums
  <2>. QED BY <2>1, <2>2, <2>3, <2>4, <2>5, <2>6, <2>7 DEF IndexTypeOK, AllRefs
<1>. QED BY <1>1, WholeInvHolds, PTL

\* An index whose files all match their sums is whole, however often ds-repo,
\* ds-patch and ds-provides were interrupted before (buildIndex, rebuildIndex,
\* refilterProvides).
THEOREM DamageIsAlwaysNoticed == RepositorySpec => []DamageIsNoticed
<1>1. Inv /\ WholeInv => DamageIsNoticed
  BY DamageNoticed DEF Inv, WholeInv, FilesInv
<1>. QED BY <1>1, WholeInvHolds, PTL

\* Filtering provides by references never makes a require unmet, and what was
\* filtered out before comes back when it is asked for.
THEOREM ReferencedAreListed == RepositorySpec => []ReferencedProvidesAreListed
<1>1. WholeInv => ReferencedProvidesAreListed
  BY DEF WholeInv, CompleteInv
<1>. QED BY <1>1, WholeInvHolds, PTL

\* When no program was interrupted and none runs during the update, the
\* client is served: every program leaves sums that match what it wrote.
THEOREM QuietClientIsServed == RepositorySpec => []QuietClientAccepts
<1>1. WholeInv => QuietClientAccepts
  BY DEF WholeInv, QuietInv, QuietClientAccepts
<1>. QED BY <1>1, WholeInvHolds, PTL

\* Seen through the check sums, the files are the index that the
\* documentation describes: a client is offered the last release or nothing,
\* and from one release to the next either the packages or the provides change.
THEOREM IndexIsImplemented == RepositorySpec => ImplementsRepositoryIndex
<1>1. RepositoryInit => Abstract!Init
  <2>. SUFFICES ASSUME RepositoryInit PROVE Abstract!Init
    OBVIOUS
  <2>1. DOMAIN disk = {} /\ releases = <<>>
    BY DEF RepositoryInit, Init, EmptyFile
  <2>. QED BY <2>1 DEF Abstract!Init, Offered, Exists
<1>2. (Inv /\ WholeInv) /\ [RepositoryNext]_vars /\ (Inv /\ WholeInv)' => [Abstract!Next]_(Abstract!listVars)
  BY AbstractStep DEF Inv, WholeInv
<1>. QED BY <1>1, <1>2, WholeInvHolds, PTL DEF RepositorySpec, ImplementsRepositoryIndex, Abstract!Spec

=============================================================================
