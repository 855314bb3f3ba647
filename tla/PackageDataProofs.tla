------------------------- MODULE PackageDataProofs -------------------------
(***************************************************************************)
(* What ds-update writes and other programs read, for any number of        *)
(* repositories, runs and faults: a reader beside no run of ds-update is   *)
(* given one whole offer of the repositories, a good run repairs what the  *)
(* runs before it have left, no line names a repository for a package it   *)
(* never had, and a run that nothing disturbs ends well.                   *)
(*                                                                         *)
(* Each run carries what it has made so far (WorkInv), the files carry     *)
(* what the last good run left in them (FilesInv), and a reader what it    *)
(* has taken from them (ReaderInv).                                        *)
(***************************************************************************)
EXTENDS PackageData, FiniteSetTheorems, WellFoundedInduction, TLAPS

-----------------------------------------------------------------------------
(***************************************************************************)
(* The inductive invariant                                                 *)
(***************************************************************************)

Places == {"idle", "sums", "mkdir", "enumerate", "erase", "fetch", "download", "verify", "open",
           "read", "sections", "enumerateEnd", "eraseEnd", "rmdir", "done", "failed", "killed"}

\* The snapshot is being written, or it has been.
Saving == {"sections", "enumerateEnd", "eraseEnd", "rmdir"}

\* The file of URLs has been opened by the run.
Reading == {"verify", "open", "read"} \cup Saving

\* Where a run is among the repositories or the parts, and which files there
\* must be.
PlaceInv(i) ==
  /\ pc[i] \in Over => k[i] = 1 /\ sums[i] = <<>> /\ pkgs[i] = {}
  /\ pc[i] = "sums" => k[i] <= Len(Repos) + 1 /\ Len(sums[i]) = k[i] - 1
  /\ pc[i] \in {"mkdir", "enumerate", "erase"} => k[i] = 1
  /\ pc[i] \in {"fetch", "verify"} => k[i] <= Len(Repos) + 1
  /\ pc[i] \in {"download", "open", "read"} => k[i] <= Len(Repos)
  /\ pc[i] = "sections" => k[i] <= Sections(pkgs[i])
  /\ pc[i] = "download" => RemoteAt(i)
  /\ pc[i] \notin Over \cup {"sums"} => Len(sums[i]) = Len(Repos)
  /\ \A m \in 1 .. Len(sums[i]) : m <= Len(Repos) /\ sums[i][m] \in RangeOf(Published[Repos[m]])
  /\ pc[i] \in Reading => urls # NoFile
  /\ pc[i] \in Saving => snapshot # NoFile

TypeInv ==
  /\ layout \in Layouts
  /\ served \in [RepoSet -> Nat]
  /\ \A r \in RepoSet : served[r] \in DOMAIN Published[r]
  /\ tmp \in Dirs \cup {NoFile}
  /\ urls \in Seq(Lines \cup {Hole}) \cup {NoFile}
  /\ snapshot \in Seq(Sects \cup {Hole}) \cup {NoFile}
  /\ pc \in [Runs -> Places]
  /\ k \in [Runs -> Nat \ {0}]
  /\ sums \in [Runs -> Seq(Texts)]
  /\ entries \in [Runs -> SUBSET TempNames]
  /\ fd \in [Runs -> Runs \cup {0}]
  /\ rest \in [Runs -> Seq(Packages)]
  /\ pkgs \in [Runs -> SUBSET Packages]
  /\ urlsPos \in [Runs -> Nat \ {0}]
  /\ bad \in [Runs -> SUBSET {"urls", "snapshot"}]
  /\ faults \in Nat
  /\ alone \in [Runs -> BOOLEAN]
  /\ calm \in [Runs -> BOOLEAN]
  /\ disturbed \in BOOLEAN
  /\ \A i \in Runs : PlaceInv(i)

\* The run i is the last that has started.
Last(i) == pc[i] # "idle" /\ \A j \in Runs : i < j => pc[j] = "idle"

\* Runs start in their order, and a run that is alone is the only one.
OrderInv ==
  /\ \A i, j \in Runs : i < j /\ pc[j] # "idle" => pc[i] # "idle"
  /\ \A i \in Runs : pc[i] = "idle" => alone[i] /\ calm[i]
  /\ \A i \in Runs : calm[i] => alone[i]
  /\ \A i \in Running : alone[i] => Running = {i}
  /\ \A i \in Running : alone[i] \/ disturbed
  /\ \A i \in Runs : alone[i] /\ Last(i) => Running \subseteq {i}

\* A temporary file holds packages of a repository it is the file of.
TmpInv ==
  tmp # NoFile =>
    \A n \in DOMAIN tmp : \E r \in RepoSet :
      layout.temp[r] = n /\ RangeOf(tmp[n].text) \subseteq EverPublished(r)

\* Every line is of a repository that has published the package.
UrlsGood(file) ==
  \A n \in DOMAIN file : file[n] = Hole \/ file[n].pkg \in EverPublished(file[n].url[1])

\* Every package has a line.
Covers(file, S) == \A p \in S : \E n \in DOMAIN file : file[n] # Hole /\ file[n].pkg = p

\* The file begins as a snapshot of S does, and it may be whole.
Begins(file, S) ==
  /\ Len(file) <= Sections(S)
  /\ \A q \in DOMAIN file : file[q] = [part |-> q, pkgs |-> S]

\* What a run that is alone has collected.
Collected(i) ==
  /\ pc[i] \notin Over \cup Reading => pkgs[i] = {}
  /\ pc[i] \in {"verify", "open"} => \E g \in Generations : pkgs[i] = Together(g, k[i] - 1)
  /\ pc[i] = "read" =>
       \E g \in Generations : pkgs[i] \cup RangeOf(rest[i]) = Together(g, k[i])
  /\ pc[i] \in Saving => pkgs[i] \in Offers

\* And what it has written.
Written(i) ==
  /\ pc[i] \in Reading => UrlsGood(urls)
  /\ pc[i] \in Reading /\ "urls" \notin bad[i] => urlsPos[i] > Len(urls) /\ Covers(urls, pkgs[i])
  /\ pc[i] \in Saving => Begins(snapshot, pkgs[i])
  /\ pc[i] = "sections" => Len(snapshot) < k[i]
  /\ pc[i] = "sections" /\ "snapshot" \notin bad[i] => Len(snapshot) = k[i] - 1
  /\ pc[i] \in Saving \ {"sections"} /\ "snapshot" \notin bad[i] =>
       Len(snapshot) = Sections(pkgs[i])

\* The list that has been verified is one of the repository.
Verified(i) ==
  /\ pc[i] = "open" /\ alone[i] => FileOf(i) \subseteq RangeOf(Published[Repos[k[i]]])
  /\ pc[i] = "read" /\ (alone[i] \/ DistinctNames) =>
       RangeOf(rest[i]) \subseteq EverPublished(Repos[k[i]])

WorkInv == \A i \in Runs : Verified(i) /\ (alone[i] => Collected(i) /\ Written(i))

\* The last run has ended well.
EndedWell(i) == pc[i] = "done" /\ alone[i] /\ bad[i] = {} /\ Last(i)

FilesInv ==
  /\ urls # NoFile /\ (DistinctNames \/ ~ disturbed) => UrlsGood(urls)
  /\ snapshot # NoFile /\ ~ disturbed => \E S \in Offers : Begins(snapshot, S)
  /\ \A i \in Runs : EndedWell(i) =>
       /\ urls # NoFile
       /\ snapshot # NoFile
       /\ \E S \in Offers : Begins(snapshot, S) /\ Len(snapshot) = Sections(S) /\ Covers(urls, S)

\* The list of the repository is where the run will look for it.
Fetched(r) ==
  r \notin layout.local =>
    tmp # NoFile /\ layout.temp[r] \in DOMAIN tmp /\ tmp[layout.temp[r]].text = List(r)

\* A run that nothing disturbs finds the directory as it has left it.
CalmInv(i) ==
  /\ pc[i] # "failed"
  /\ \A m \in 1 .. Len(sums[i]) : sums[i][m] = List(Repos[m])
  /\ pc[i] = "mkdir" => tmp = NoFile
  /\ pc[i] \notin Over \cup {"sums", "mkdir"} => tmp # NoFile
  /\ pc[i] \in {"erase", "eraseEnd"} => entries[i] = DOMAIN tmp
  /\ pc[i] = "fetch" => \A m \in 1 .. k[i] - 1 : Fetched(Repos[m])
  /\ pc[i] = "download" =>
       /\ \A m \in 1 .. k[i] - 1 : Repos[m] = Repos[k[i]] \/ Fetched(Repos[m])
       /\ TempOf(i) \in DOMAIN tmp /\ tmp[TempOf(i)].ino = fd[i]
  /\ pc[i] \in {"verify", "open", "read"} => \A m \in 1 .. Len(Repos) : Fetched(Repos[m])
  /\ pc[i] = "rmdir" => tmp = <<>>
  /\ pc[i] = "done" /\ Last(i) => tmp = NoFile

CalmRunsInv == \A i \in Runs : calm[i] /\ DistinctNames => CalmInv(i)

\* The next part is not there.
Stuck ==
  \/ snapshot = NoFile
  \/ Len(parts) + 1 \in DOMAIN snapshot => snapshot[Len(parts) + 1] = Hole

ReaderTypeInv ==
  /\ parts \in Seq(Sects)
  /\ found \in [DOMAIN Asked -> UNION {[D -> (RepoSet \X Packages) \cup {NoUrl}] : D \in SUBSET Packages}]
  /\ quiet \in BOOLEAN

\* What the reader has taken from the files, which are as they were.
Taken ==
  /\ Running = {}
  /\ parts # <<>> => snapshot # NoFile /\ Len(parts) <= Len(snapshot)
  /\ \A p \in 1 .. Len(parts) : parts[p] = snapshot[p]
  /\ at = "load" /\ parts # <<>> => Len(parts) < Sections(parts[1].pkgs)
  /\ at \notin {"load", "aborted"} => parts # <<>> /\ Len(parts) = Sections(parts[1].pkgs)
  /\ \A c \in DOMAIN Asked :
       found[c] = <<>> \/ (urls # NoFile /\ found[c] = [p \in Asked[c] \cap Loaded |-> UrlIn(urls, p)])
  /\ at = "ready" => \A c \in DOMAIN Asked : \A p \in DOMAIN found[c] : found[c][p] # NoUrl
  /\ at = "noUrl" =>
       urls = NoFile \/ \E c \in DOMAIN Asked : \E p \in DOMAIN found[c] : found[c][p] = NoUrl
  /\ at = "aborted" =>
       \/ Stuck /\ (parts # <<>> => Len(parts) < Sections(parts[1].pkgs))
       \/ Loaded = {} /\ kind = "query" /\ Installed # {}

ReaderInv ==
  /\ ReaderTypeInv
  /\ at = "idle" => parts = <<>>
  /\ at \notin {"urls", "ready", "noUrl"} => found = NotFound
  /\ quiet /\ at # "idle" => Taken

PackageDataInv ==
  TypeInv /\ OrderInv /\ TmpInv /\ WorkInv /\ FilesInv /\ CalmRunsInv /\ ReaderInv

-----------------------------------------------------------------------------
(***************************************************************************)
(* What a step leaves alone                                                *)
(***************************************************************************)

\* Nothing of the run changes.
Same(j) ==
  /\ pc'[j] = pc[j] /\ k'[j] = k[j] /\ sums'[j] = sums[j] /\ entries'[j] = entries[j]
  /\ fd'[j] = fd[j] /\ rest'[j] = rest[j] /\ pkgs'[j] = pkgs[j] /\ urlsPos'[j] = urlsPos[j]
  /\ bad'[j] = bad[j]

\* What runs and their surroundings do once a run has started.
Act(i) == Step(i) \/ Kill(i) \/ NetworkFails(i) \/ DiskFails(i)

\* A step of a run that is on its way.
Moves(i) ==
  /\ i \in Running
  /\ \A j \in Runs \ {i} : Same(j)
  /\ pc'[i] \in Places \ {"idle"}
  /\ alone' = alone
  /\ \A j \in Runs : calm'[j] => calm[j]
  /\ \A j \in Runs \ {i} : calm'[j] = calm[j]
  /\ layout' = layout
  /\ served' = served
  /\ disturbed' = disturbed \/ (disturbed' = (disturbed /\ ~ alone[i]) /\ pc'[i] = "done")

LEMMA ActMoves ==
  ASSUME TypeInv, NEW i \in Runs, Act(i)
  PROVE  Moves(i)
<1>. USE DEF TypeInv, Moves, Same, Running, Over, Places, GoTo, Quietly, filesVars, ghostVars
<1>1. CASE FetchSums(i)
  BY <1>1 DEF FetchSums
<1>2. CASE LookForDir(i)
  BY <1>2 DEF LookForDir
<1>3. CASE MakeDir(i)
  BY <1>3 DEF MakeDir
<1>4. CASE Enumerate(i)
  BY <1>4 DEF Enumerate, AfterErase
<1>5. CASE Erase(i)
  BY <1>5 DEF Erase, AfterErase
<1>6. CASE SkipLocal(i)
  BY <1>6 DEF SkipLocal
<1>7. CASE CreateTemp(i)
  BY <1>7 DEF CreateTemp
<1>8. CASE Download(i)
  BY <1>8 DEF Download
<1>9. CASE OpenUrls(i)
  BY <1>9 DEF OpenUrls
<1>10. CASE Verify(i)
  BY <1>10 DEF Verify
<1>11. CASE OpenList(i)
  BY <1>11 DEF OpenList
<1>12. CASE ReadPkg(i)
  BY <1>12 DEF ReadPkg
<1>13. CASE EndOfList(i)
  BY <1>13 DEF EndOfList
<1>14. CASE OpenSnapshot(i)
  BY <1>14 DEF OpenSnapshot
<1>15. CASE SaveSection(i)
  BY <1>15 DEF SaveSection
<1>16. CASE RemoveDir(i)
  BY <1>16 DEF RemoveDir, Cleared
<1>17. CASE Refused(i)
  BY <1>17 DEF Refused, Missing, Fail, Cleared
<1>18. CASE Kill(i)
  BY <1>18 DEF Kill, Fault, Cleared
<1>19. CASE NetworkFails(i)
  BY <1>19 DEF NetworkFails, Fault, Cleared
<1>20. CASE DiskFails(i)
  BY <1>20 DEF DiskFails, Fault, runVars
<1>. QED
  BY <1>1, <1>2, <1>3, <1>4, <1>5, <1>6, <1>7, <1>8, <1>9, <1>10, <1>11, <1>12, <1>13, <1>14,
     <1>15, <1>16, <1>17, <1>18, <1>19, <1>20 DEF Act, Step

-----------------------------------------------------------------------------
(***************************************************************************)
(* Lists, directories and files                                            *)
(***************************************************************************)

LEMMA PublishedFacts ==
  /\ Len(Repos) \in Nat
  /\ \A m \in 1 .. Len(Repos) : Repos[m] \in RepoSet
  /\ \A r \in RepoSet : Published[r] \in Seq(Texts)
  /\ \A r \in RepoSet : 1 \in DOMAIN Published[r] /\ DOMAIN Published[r] \subseteq Nat
  /\ \A r \in RepoSet : EverPublished(r) \subseteq Packages
  /\ \A r \in RepoSet : \A t \in RangeOf(Published[r]) : t \in Texts /\ RangeOf(t) \subseteq EverPublished(r)
  /\ Texts \subseteq Seq(Packages)
<1>1. /\ Len(Repos) \in Nat
      /\ \A m \in 1 .. Len(Repos) : Repos[m] \in RepoSet
  BY ReposAssumption
<1>2. ASSUME NEW r \in RepoSet
      PROVE  /\ Published[r] \in Seq(Texts)
             /\ 1 \in DOMAIN Published[r] /\ DOMAIN Published[r] \subseteq Nat
             /\ EverPublished(r) \subseteq Packages
             /\ \A t \in RangeOf(Published[r]) : t \in Texts /\ RangeOf(t) \subseteq EverPublished(r)
             /\ RangeOf(Published[r]) \subseteq Seq(Packages)
  <2>1. Published[r] \in Seq(Seq(Packages)) /\ Published[r] # <<>>
    BY ReposAssumption
  <2>2. \A g \in DOMAIN Published[r] : Published[r][g] \in RangeOf(Published[r])
    BY DEF RangeOf
  <2>3. \A t \in RangeOf(Published[r]) : t \in Texts
    BY DEF Texts
  <2>4. PICK f : f = Published[r]
    OBVIOUS
  <2>5. f \in Seq(Seq(Packages)) /\ f # <<>> /\ \A g \in DOMAIN f : f[g] \in Texts
    BY <2>1, <2>2, <2>3, <2>4
  <2>6. f \in Seq(Texts) /\ 1 \in DOMAIN f /\ DOMAIN f \subseteq Nat
    <3>1. f \in [1 .. Len(f) -> Texts] /\ Len(f) \in Nat
      BY <2>5
    <3>. QED BY <2>5, <3>1
  <2>7. EverPublished(r) \subseteq Packages
    BY DEF Packages
  <2>8. \A t \in RangeOf(Published[r]) : RangeOf(t) \subseteq EverPublished(r)
    BY DEF EverPublished, RangeOf
  <2>9. RangeOf(Published[r]) \subseteq Seq(Packages)
    BY <2>4, <2>5 DEF RangeOf
  <2>. QED BY <2>3, <2>4, <2>6, <2>7, <2>8, <2>9
<1>3. <<>> \in Seq(Packages)
  OBVIOUS
<1>4. PICK lists : lists = UNION {RangeOf(Published[r]) : r \in RepoSet}
  OBVIOUS
<1>5. lists \subseteq Seq(Packages)
  BY <1>2, <1>4
<1>6. Texts = {<<>>} \cup lists
  BY <1>4 DEF Texts
<1>7. Texts \subseteq Seq(Packages)
  BY <1>3, <1>5, <1>6
<1>. QED BY <1>1, <1>2, <1>7

LEMMA ListFacts ==
  ASSUME TypeInv, NEW r \in RepoSet
  PROVE  /\ List(r) \in RangeOf(Published[r])
         /\ List(r) \in Texts
         /\ RangeOf(List(r)) \subseteq EverPublished(r)
<1>1. served[r] \in DOMAIN Published[r]
  BY DEF TypeInv
<1>. QED BY <1>1, PublishedFacts DEF List, RangeOf

LEMMA DirFacts ==
  /\ \A d : d \in Dirs <=> DOMAIN d \subseteq TempNames /\ d \in [DOMAIN d -> [ino : Runs, text : Texts]]
  /\ \A d \in Dirs : d # NoFile
  /\ <<>> \in Dirs
  /\ \A d \in Dirs : DOMAIN d = {} => d = <<>>
<1>1. \A d : d \in Dirs <=> DOMAIN d \subseteq TempNames /\ d \in [DOMAIN d -> [ino : Runs, text : Texts]]
  BY DEF Dirs
<1>2. \A d \in Dirs : d # NoFile
  BY NothingAssumption
<1>3. <<>> \in [{} -> [ino : Runs, text : Texts]]
  OBVIOUS
<1>4. <<>> \in Dirs
  BY <1>3 DEF Dirs
<1>5. ASSUME NEW d \in Dirs, DOMAIN d = {} PROVE d = <<>>
  BY <1>1, <1>5
<1>. QED BY <1>1, <1>2, <1>4, <1>5

\* What a write leaves, for any position of the writer.
Rewritten(file, new, pos, entry) ==
  /\ pos \in DOMAIN new
  /\ Len(new) = (IF pos > Len(file) THEN pos ELSE Len(file))
  /\ DOMAIN file \subseteq DOMAIN new
  /\ \A n \in DOMAIN new :
       new[n] = IF n = pos THEN entry ELSE IF n <= Len(file) THEN file[n] ELSE Hole

LEMMA WriteAtFacts ==
  ASSUME NEW S, Hole \in S, NEW file \in Seq(S), NEW pos \in Nat \ {0}, NEW entry \in S,
         NEW new, new = WriteAt(file, pos, entry)
  PROVE  new \in Seq(S) /\ Rewritten(file, new, pos, entry)
<1>. DEFINE n == IF pos > Len(file) THEN pos ELSE Len(file)
            f == [i \in 1 .. n |-> IF i = pos THEN entry ELSE IF i <= Len(file) THEN file[i] ELSE Hole]
<1>1. n \in Nat /\ pos \in 1 .. n /\ 1 .. Len(file) \subseteq 1 .. n
  OBVIOUS
<1>2. \A i \in 1 .. n : f[i] \in S
  OBVIOUS
<1>3. f \in Seq(S) /\ Len(f) = n
  BY <1>1, <1>2
<1>4. new = f
  BY DEF WriteAt
<1>5. pos \in DOMAIN f /\ DOMAIN file \subseteq DOMAIN f
  BY <1>1
<1>6. \A m \in DOMAIN f : f[m] = IF m = pos THEN entry ELSE IF m <= Len(file) THEN file[m] ELSE Hole
  OBVIOUS
<1>. HIDE DEF f
<1>. QED BY <1>3, <1>4, <1>5, <1>6 DEF Rewritten

LEMMA FileFacts ==
  /\ \A f \in Seq(Lines \cup {Hole}) : f # NoFile
  /\ \A f \in Seq(Sects \cup {Hole}) : f # NoFile
  /\ \A p \in Packages : \A r \in RepoSet : LineOf(p, <<r, p>>) \in Lines
  /\ <<>> \in Seq(Lines \cup {Hole}) /\ <<>> \in Seq(Sects \cup {Hole})
<1>1. /\ \A f \in Seq(Lines \cup {Hole}) : f # NoFile
      /\ \A f \in Seq(Sects \cup {Hole}) : f # NoFile
  BY NothingAssumption
<1>2. \A p \in Packages : \A r \in RepoSet : LineOf(p, <<r, p>>) \in Lines
  BY DEF Lines
<1>. QED BY <1>1, <1>2

-----------------------------------------------------------------------------
(***************************************************************************)
(* Types                                                                   *)
(***************************************************************************)

TypesOnly ==
  /\ layout \in Layouts
  /\ served \in [RepoSet -> Nat]
  /\ \A r \in RepoSet : served[r] \in DOMAIN Published[r]
  /\ tmp \in Dirs \cup {NoFile}
  /\ urls \in Seq(Lines \cup {Hole}) \cup {NoFile}
  /\ snapshot \in Seq(Sects \cup {Hole}) \cup {NoFile}
  /\ pc \in [Runs -> Places]
  /\ k \in [Runs -> Nat \ {0}]
  /\ sums \in [Runs -> Seq(Texts)]
  /\ entries \in [Runs -> SUBSET TempNames]
  /\ fd \in [Runs -> Runs \cup {0}]
  /\ rest \in [Runs -> Seq(Packages)]
  /\ pkgs \in [Runs -> SUBSET Packages]
  /\ urlsPos \in [Runs -> Nat \ {0}]
  /\ bad \in [Runs -> SUBSET {"urls", "snapshot"}]
  /\ faults \in Nat
  /\ alone \in [Runs -> BOOLEAN]
  /\ calm \in [Runs -> BOOLEAN]
  /\ disturbed \in BOOLEAN

LEMMA AtRepo ==
  ASSUME TypeInv, NEW i \in Runs, k[i] <= Len(Repos)
  PROVE  /\ k[i] \in 1 .. Len(Repos)
         /\ Repos[k[i]] \in RepoSet
         /\ List(Repos[k[i]]) \in RangeOf(Published[Repos[k[i]]]) \cap Texts
         /\ TempOf(i) \in TempNames
<1>1. k[i] \in 1 .. Len(Repos)
  BY PublishedFacts DEF TypeInv
<1>2. Repos[k[i]] \in RepoSet
  BY <1>1, PublishedFacts
<1>3. layout \in Layouts
  BY DEF TypeInv
<1>. QED BY <1>1, <1>2, <1>3, ListFacts DEF TempOf, TempNames

\* The line of the package that has been read.
NewLine(i) == LineOf(Head(rest[i]), <<Repos[k[i]], Head(rest[i])>>)

LEMMA ReadPkgFacts ==
  ASSUME TypeInv, NEW i \in Runs, ReadPkg(i)
  PROVE  /\ Repos[k[i]] \in RepoSet
         /\ Head(rest[i]) \in Packages
         /\ RangeOf(rest[i]) = {Head(rest[i])} \cup RangeOf(Tail(rest[i]))
         /\ NewLine(i) \in Lines
         /\ urls \in Seq(Lines \cup {Hole})
         /\ urls' \in Seq(Lines \cup {Hole})
         /\ "urls" \in bad[i] => urls' = urls /\ urlsPos' = urlsPos
         /\ "urls" \notin bad[i] =>
              /\ Rewritten(urls, urls', urlsPos[i], NewLine(i))
              /\ urlsPos' = [urlsPos EXCEPT ![i] = urlsPos[i] + 1]
<1>1. rest[i] \in Seq(Packages) /\ rest[i] # <<>>
  BY DEF ReadPkg, TypeInv
<1>2. Head(rest[i]) \in Packages
  BY <1>1
<1>3. RangeOf(rest[i]) = {Head(rest[i])} \cup RangeOf(Tail(rest[i]))
  <2>1. PICK s : s = rest[i]
    OBVIOUS
  <2>2. s \in Seq(Packages) /\ s # <<>>
    BY <1>1, <2>1
  <2>3. ASSUME NEW p \in RangeOf(s) PROVE p = Head(s) \/ p \in RangeOf(Tail(s))
    <3>1. PICK n \in 1 .. Len(s) : p = s[n]
      BY <2>2 DEF RangeOf
    <3>2. n = 1 \/ (n - 1 \in 1 .. Len(Tail(s)) /\ Tail(s)[n - 1] = s[n])
      BY <2>2
    <3>3. CASE n - 1 \in 1 .. Len(Tail(s)) /\ Tail(s)[n - 1] = s[n]
      <4>1. n - 1 \in DOMAIN Tail(s)
        BY <2>2, <3>3
      <4>. QED BY <3>1, <3>3, <4>1 DEF RangeOf
    <3>. QED BY <2>2, <3>1, <3>2, <3>3
  <2>4. ASSUME NEW p \in RangeOf(Tail(s)) PROVE p \in RangeOf(s)
    <3>1. PICK n \in 1 .. Len(Tail(s)) : p = Tail(s)[n]
      BY <2>2 DEF RangeOf
    <3>2. n + 1 \in 1 .. Len(s) /\ Tail(s)[n] = s[n + 1]
      BY <2>2
    <3>. QED BY <2>2, <3>1, <3>2 DEF RangeOf
  <2>5. Head(s) \in RangeOf(s)
    BY <2>2 DEF RangeOf
  <2>. QED BY <2>1, <2>3, <2>4, <2>5
<1>4. k[i] <= Len(Repos) /\ urls # NoFile
  BY DEF ReadPkg, TypeInv, PlaceInv, Reading
<1>5. Repos[k[i]] \in RepoSet
  BY <1>4, AtRepo
<1>6. NewLine(i) \in Lines
  BY <1>2, <1>5, FileFacts DEF NewLine
<1>7. PICK S, file, pos, line : S = Lines \cup {Hole} /\ file = urls /\ pos = urlsPos[i] /\ line = NewLine(i)
  OBVIOUS
<1>8. Hole \in S /\ file \in Seq(S) /\ pos \in Nat \ {0} /\ line \in S
  BY <1>4, <1>6, <1>7 DEF TypeInv
<1>9. CASE "urls" \in bad[i]
  BY <1>2, <1>3, <1>5, <1>6, <1>7, <1>8, <1>9 DEF ReadPkg
<1>10. CASE "urls" \notin bad[i]
  <2>1. PICK new : new = urls'
    OBVIOUS
  <2>2. new = WriteAt(file, pos, line)
    BY <1>7, <1>10, <2>1 DEF ReadPkg, NewLine
  <2>3. new \in Seq(S) /\ Rewritten(file, new, pos, line)
    BY <1>8, <2>2, WriteAtFacts
  <2>4. urlsPos' = [urlsPos EXCEPT ![i] = urlsPos[i] + 1]
    BY <1>10 DEF ReadPkg
  <2>. QED BY <1>2, <1>3, <1>5, <1>6, <1>7, <1>8, <1>10, <2>1, <2>3, <2>4
<1>. QED BY <1>9, <1>10

NewPart(i) == [part |-> k[i], pkgs |-> pkgs[i]]

LEMMA SaveSectionFacts ==
  ASSUME TypeInv, NEW i \in Runs, SaveSection(i)
  PROVE  /\ k[i] \in 1 .. Sections(pkgs[i])
         /\ Sections(pkgs[i]) \in {1, 3}
         /\ NewPart(i) \in Sects
         /\ snapshot \in Seq(Sects \cup {Hole})
         /\ snapshot' \in Seq(Sects \cup {Hole})
         /\ "snapshot" \in bad[i] => snapshot' = snapshot
         /\ "snapshot" \notin bad[i] => Rewritten(snapshot, snapshot', k[i], NewPart(i))
<1>1. Sections(pkgs[i]) \in {1, 3}
  BY DEF Sections
<1>2. k[i] \in 1 .. Sections(pkgs[i]) /\ snapshot # NoFile
  BY <1>1 DEF SaveSection, TypeInv, PlaceInv, Saving
<1>3. NewPart(i) \in Sects
  BY <1>1, <1>2 DEF NewPart, Sects, TypeInv
<1>4. PICK S, file, pos, sect : S = Sects \cup {Hole} /\ file = snapshot /\ pos = k[i] /\ sect = NewPart(i)
  OBVIOUS
<1>5. Hole \in S /\ file \in Seq(S) /\ pos \in Nat \ {0} /\ sect \in S
  BY <1>1, <1>2, <1>3, <1>4 DEF TypeInv
<1>6. CASE "snapshot" \in bad[i]
  BY <1>1, <1>2, <1>3, <1>4, <1>5, <1>6 DEF SaveSection
<1>7. CASE "snapshot" \notin bad[i]
  <2>1. PICK new : new = snapshot'
    OBVIOUS
  <2>2. new = WriteAt(file, pos, sect)
    BY <1>4, <1>7, <2>1 DEF SaveSection, NewPart
  <2>3. new \in Seq(S) /\ Rewritten(file, new, pos, sect)
    BY <1>5, <2>2, WriteAtFacts
  <2>. QED BY <1>1, <1>2, <1>3, <1>4, <1>5, <1>7, <2>1, <2>3
<1>. QED BY <1>6, <1>7

LEMMA ActTypes ==
  ASSUME TypeInv, NEW i \in Runs, Act(i)
  PROVE  TypesOnly'
<1>. USE DEF TypesOnly, GoTo, Quietly, filesVars, ghostVars
<1>0. TypesOnly /\ PlaceInv(i)
  BY DEF TypeInv
<1>1. CASE FetchSums(i)
  <2>1. List(Repos[k[i]]) \in Texts /\ k[i] + 1 \in Nat \ {0}
    BY <1>0, <1>1, AtRepo DEF FetchSums
  <2>. QED BY <1>0, <1>1, <2>1 DEF FetchSums
<1>2. CASE LookForDir(i)
  BY <1>0, <1>2 DEF LookForDir, Places
<1>3. CASE MakeDir(i)
  BY <1>0, <1>3, DirFacts DEF MakeDir, Places
<1>4. CASE Enumerate(i)
  <2>1. DOMAIN tmp \subseteq TempNames
    BY <1>0, <1>4, DirFacts DEF Enumerate
  <2>. QED BY <1>0, <1>4, <2>1 DEF Enumerate, AfterErase, Places
<1>5. CASE Erase(i)
  <2>1. PICK name \in entries[i] \cap DOMAIN tmp :
          /\ tmp' = [n \in DOMAIN tmp \ {name} |-> tmp[n]]
          /\ entries' = [entries EXCEPT ![i] = @ \ {name}]
          /\ GoTo(i, IF entries[i] = {name} THEN AfterErase(i) ELSE pc[i])
    BY <1>5 DEF Erase
  <2>2. tmp \in Dirs
    BY <1>0, <1>5 DEF Erase
  <2>3. tmp' \in Dirs
    BY <2>1, <2>2, DirFacts
  <2>. QED BY <1>0, <1>5, <2>1, <2>3 DEF Erase, AfterErase, Places
<1>6. CASE SkipLocal(i)
  BY <1>0, <1>6 DEF SkipLocal
<1>7. CASE CreateTemp(i)
  <2>1. PICK ino : ino = IF TempOf(i) \in DOMAIN tmp THEN tmp[TempOf(i)].ino ELSE i
    OBVIOUS
  <2>2. /\ tmp' = [n \in DOMAIN tmp \cup {TempOf(i)} |->
                    IF n = TempOf(i) THEN [ino |-> ino, text |-> <<>>] ELSE tmp[n]]
        /\ fd' = [fd EXCEPT ![i] = ino]
    BY <1>7, <2>1 DEF CreateTemp
  <2>3. tmp \in Dirs /\ TempOf(i) \in TempNames
    BY <1>0, <1>7, AtRepo DEF CreateTemp
  <2>4. ino \in Runs
    <3>1. ASSUME TempOf(i) \in DOMAIN tmp PROVE tmp[TempOf(i)].ino \in Runs
      BY <2>3, <3>1, DirFacts
    <3>. QED BY <2>1, <3>1
  <2>5. [ino |-> ino, text |-> <<>>] \in [ino : Runs, text : Texts]
    BY <2>4 DEF Texts
  <2>6. tmp' \in Dirs
    <3>1. PICK entry : entry = [ino |-> ino, text |-> <<>>]
      OBVIOUS
    <3>2. tmp \in [DOMAIN tmp -> [ino : Runs, text : Texts]] /\ DOMAIN tmp \subseteq TempNames
      BY <2>3, DirFacts
    <3>3. PICK D : D = DOMAIN tmp \cup {TempOf(i)}
      OBVIOUS
    <3>4. tmp' \in [D -> [ino : Runs, text : Texts]]
      BY <2>2, <2>5, <3>1, <3>2, <3>3
    <3>5. D \subseteq TempNames /\ D = DOMAIN tmp'
      BY <2>3, <3>2, <3>3, <3>4
    <3>. QED BY <3>4, <3>5, DirFacts
  <2>. QED BY <1>0, <1>7, <2>2, <2>4, <2>6 DEF CreateTemp, Places
<1>8. CASE Download(i)
  <2>1. List(Repos[k[i]]) \in Texts /\ k[i] + 1 \in Nat \ {0}
    BY <1>0, <1>8, AtRepo DEF Download, PlaceInv
  <2>2. tmp' \in Dirs \cup {NoFile}
    <3>1. CASE tmp' = tmp
      BY <1>0, <3>1
    <3>2. CASE tmp # NoFile /\ tmp' = [tmp EXCEPT ![TempOf(i)].text = List(Repos[k[i]])]
      <4>1. tmp \in Dirs
        BY <1>0, <3>2
      <4>2. tmp \in [DOMAIN tmp -> [ino : Runs, text : Texts]] /\ DOMAIN tmp \subseteq TempNames
        BY <4>1, DirFacts
      <4>3. PICK text, n : text = List(Repos[k[i]]) /\ n = TempOf(i)
        OBVIOUS
      <4>4. tmp' = [tmp EXCEPT ![n].text = text] /\ text \in Texts
        BY <2>1, <3>2, <4>3
      <4>5. tmp' \in [DOMAIN tmp -> [ino : Runs, text : Texts]]
        BY <4>2, <4>4
      <4>. QED BY <4>2, <4>5, DirFacts
    <3>. QED BY <1>8, <3>1, <3>2 DEF Download
  <2>. QED BY <1>0, <1>8, <2>1, <2>2 DEF Download, Places
<1>9. CASE OpenUrls(i)
  BY <1>0, <1>9, FileFacts DEF OpenUrls, Places
<1>10. CASE Verify(i)
  BY <1>0, <1>10 DEF Verify, Places
<1>11. CASE OpenList(i)
  <2>1. PICK text \in FileOf(i) : rest' = [rest EXCEPT ![i] = text]
    BY <1>11 DEF OpenList
  <2>2. text \in Texts
    BY <1>0, <1>11, <2>1, AtRepo, DirFacts DEF OpenList, PlaceInv, FileOf
  <2>3. text \in Seq(Packages)
    BY <2>2, PublishedFacts
  <2>. QED BY <1>0, <1>11, <2>1, <2>3 DEF OpenList, Places
<1>12. CASE ReadPkg(i)
  <2>1. urls' \in Seq(Lines \cup {Hole}) /\ urlsPos' \in [Runs -> Nat \ {0}]
    <3>1. CASE "urls" \in bad[i]
      BY <1>0, <1>12, <3>1, ReadPkgFacts
    <3>2. CASE "urls" \notin bad[i]
      BY <1>0, <1>12, <3>2, ReadPkgFacts
    <3>. QED BY <3>1, <3>2
  <2>2. rest[i] \in Seq(Packages) /\ rest[i] # <<>>
    BY <1>0, <1>12 DEF ReadPkg
  <2>3. Tail(rest[i]) \in Seq(Packages) /\ Head(rest[i]) \in Packages
    BY <2>2
  <2>. QED BY <1>0, <1>12, <2>1, <2>3 DEF ReadPkg
<1>13. CASE EndOfList(i)
  BY <1>0, <1>13 DEF EndOfList, Places
<1>14. CASE OpenSnapshot(i)
  BY <1>0, <1>14, FileFacts DEF OpenSnapshot, Places
<1>15. CASE SaveSection(i)
  <2>1. snapshot' \in Seq(Sects \cup {Hole})
    BY <1>15, SaveSectionFacts
  <2>2. k' \in [Runs -> Nat \ {0}]
    BY <1>0, <1>15 DEF SaveSection
  <2>. QED BY <1>0, <1>15, <2>1, <2>2 DEF SaveSection, Places
<1>16. CASE RemoveDir(i)
  BY <1>0, <1>16 DEF RemoveDir, Cleared, Places
<1>17. CASE Refused(i)
  BY <1>0, <1>17 DEF Refused, Fail, Cleared, Places
<1>18. CASE Kill(i)
  BY <1>0, <1>18 DEF Kill, Fault, Cleared, Places
<1>19. CASE NetworkFails(i)
  BY <1>0, <1>19 DEF NetworkFails, Fault, Cleared, Places
<1>20. CASE DiskFails(i)
  BY <1>0, <1>20 DEF DiskFails, Fault, runVars
<1>. QED
  BY <1>1, <1>2, <1>3, <1>4, <1>5, <1>6, <1>7, <1>8, <1>9, <1>10, <1>11, <1>12, <1>13, <1>14,
     <1>15, <1>16, <1>17, <1>18, <1>19, <1>20 DEF Act, Step

\* No run removes a file.
LEMMA ActKeepsFiles ==
  ASSUME TypeInv, NEW i \in Runs, Act(i)
  PROVE  (urls # NoFile => urls' # NoFile) /\ (snapshot # NoFile => snapshot' # NoFile)
<1>1. urls' = urls \/ urls' = <<>> \/ ReadPkg(i)
  BY DEF Act, Step, FetchSums, LookForDir, MakeDir, Enumerate, Erase, SkipLocal, CreateTemp, Download, OpenUrls,
         Verify, OpenList, EndOfList, OpenSnapshot, SaveSection, RemoveDir, Refused, Fail, Kill,
         NetworkFails, DiskFails, filesVars
<1>2. snapshot' = snapshot \/ snapshot' = <<>> \/ SaveSection(i)
  BY DEF Act, Step, FetchSums, LookForDir, MakeDir, Enumerate, Erase, SkipLocal, CreateTemp, Download, OpenUrls,
         Verify, OpenList, ReadPkg, EndOfList, OpenSnapshot, RemoveDir, Refused, Fail, Kill,
         NetworkFails, DiskFails, filesVars
<1>. QED BY <1>1, <1>2, FileFacts, ReadPkgFacts, SaveSectionFacts

LEMMA ActPlacesOfOthers ==
  ASSUME TypeInv, NEW i \in Runs, Act(i), NEW j \in Runs \ {i}
  PROVE  PlaceInv(j)'
<1>1. PlaceInv(j) /\ Same(j) /\ layout' = layout
  BY ActMoves DEF TypeInv, Moves
<1>. QED BY <1>1, ActKeepsFiles DEF PlaceInv, Same, RemoteAt

LEMMA ActPlaces ==
  ASSUME TypeInv, NEW i \in Runs, Act(i)
  PROVE  PlaceInv(i)'
<1>. USE DEF PlaceInv, GoTo, Over, Reading, Saving
<1>0. /\ PlaceInv(i) /\ layout' = layout
      /\ (urls # NoFile => urls' # NoFile) /\ (snapshot # NoFile => snapshot' # NoFile)
      /\ pc \in [Runs -> Places] /\ k \in [Runs -> Nat \ {0}] /\ sums \in [Runs -> Seq(Texts)]
      /\ pkgs \in [Runs -> SUBSET Packages] /\ Len(Repos) \in Nat
  BY ActKeepsFiles, ActMoves, PublishedFacts DEF TypeInv, Moves
<1>1. CASE FetchSums(i)
  <2>1. PICK s, x : s = sums[i] /\ x = List(Repos[k[i]])
    OBVIOUS
  <2>2. s \in Seq(Texts) /\ x \in Texts /\ x \in RangeOf(Published[Repos[k[i]]]) /\ k[i] = Len(s) + 1
    BY <1>0, <1>1, <2>1, AtRepo DEF FetchSums
  <2>3. /\ sums'[i] = Append(s, x) /\ pc'[i] = "sums" /\ k'[i] = k[i] + 1
    BY <1>0, <1>1, <2>1 DEF FetchSums
  <2>4. \A m \in 1 .. Len(s) + 1 : m <= Len(Repos) /\ Append(s, x)[m] \in RangeOf(Published[Repos[m]])
    BY <1>0, <1>1, <2>1, <2>2 DEF FetchSums
  <2>5. Len(Append(s, x)) = Len(s) + 1
    BY <2>2
  <2>6. k[i] <= Len(Repos) /\ k[i] \in Nat /\ Len(s) \in Nat
    BY <1>0, <1>1, <2>2 DEF FetchSums
  <2>. DEFINE t == Append(s, x)
  <2>7. sums'[i] = t /\ Len(t) = k'[i] - 1 /\ k'[i] <= Len(Repos) + 1
    BY <2>2, <2>3, <2>5, <2>6
  <2>8. \A m \in 1 .. Len(t) : m <= Len(Repos) /\ t[m] \in RangeOf(Published[Repos[m]])
    BY <2>4, <2>5
  <2>9. \A m \in 1 .. Len(sums'[i]) : m <= Len(Repos) /\ sums'[i][m] \in RangeOf(Published[Repos[m]])
    BY <2>7, <2>8
  <2>. HIDE DEF t
  <2>. QED BY <2>3, <2>7, <2>9
<1>2. CASE LookForDir(i)
  <2>1. pc[i] = "sums" /\ pc'[i] \in {"mkdir", "enumerate"} /\ k'[i] = 1 /\ k[i] > Len(Repos) /\ sums' = sums
    BY <1>0, <1>2 DEF LookForDir
  <2>2. Len(sums'[i]) = Len(Repos)
    BY <1>0, <2>1
  <2>. QED BY <1>0, <2>1, <2>2
<1>3. CASE MakeDir(i)
  BY <1>0, <1>3 DEF MakeDir
<1>4. CASE Enumerate(i)
  BY <1>0, <1>4 DEF Enumerate, AfterErase, filesVars
<1>5. CASE Erase(i)
  BY <1>0, <1>5 DEF Erase, AfterErase
<1>6. CASE SkipLocal(i)
  BY <1>0, <1>6 DEF SkipLocal, filesVars
<1>7. CASE CreateTemp(i)
  BY <1>0, <1>7 DEF CreateTemp, RemoteAt
<1>8. CASE Download(i)
  <2>1. pc[i] = "download" /\ pc'[i] = "fetch" /\ k'[i] = k[i] + 1 /\ sums' = sums
    BY <1>0, <1>8 DEF Download
  <2>2. k'[i] <= Len(Repos) + 1
    BY <1>0, <2>1
  <2>. QED BY <1>0, <2>1, <2>2
<1>9. CASE OpenUrls(i)
  <2>1. pc[i] = "fetch" /\ pc'[i] = "verify" /\ k'[i] = 1 /\ sums' = sums /\ urls' = <<>>
    BY <1>0, <1>9 DEF OpenUrls
  <2>2. urls' # NoFile
    BY <2>1, FileFacts
  <2>3. 1 <= Len(Repos) + 1
    BY <1>0
  <2>. QED BY <1>0, <2>1, <2>2, <2>3
<1>10. CASE Verify(i)
  BY <1>0, <1>10 DEF Verify
<1>11. CASE OpenList(i)
  BY <1>0, <1>11 DEF OpenList
<1>12. CASE ReadPkg(i)
  BY <1>0, <1>12 DEF ReadPkg
<1>13. CASE EndOfList(i)
  <2>1. pc[i] = "read" /\ pc'[i] = "verify" /\ k'[i] = k[i] + 1 /\ sums' = sums
    BY <1>0, <1>13 DEF EndOfList
  <2>2. k[i] <= Len(Repos) /\ k[i] \in Nat
    BY <1>0, <2>1
  <2>. QED BY <1>0, <2>1, <2>2
<1>14. CASE OpenSnapshot(i)
  <2>1. pc[i] = "verify" /\ pc'[i] = "sections" /\ k'[i] = 1 /\ sums' = sums /\ pkgs' = pkgs /\ snapshot' = <<>>
    BY <1>0, <1>14 DEF OpenSnapshot
  <2>2. snapshot' # NoFile /\ urls' # NoFile
    BY <1>0, <2>1, FileFacts
  <2>3. k'[i] <= Sections(pkgs'[i])
    BY <2>1 DEF Sections
  <2>. QED BY <1>0, <2>1, <2>2, <2>3
<1>15. CASE SaveSection(i)
  <2>1. /\ pc[i] = "sections" /\ sums' = sums /\ pkgs' = pkgs
        /\ k[i] < Sections(pkgs[i]) => pc'[i] = "sections" /\ k'[i] = k[i] + 1
        /\ ~ (k[i] < Sections(pkgs[i])) => pc'[i] = "enumerateEnd"
    BY <1>0, <1>15 DEF SaveSection
  <2>2. Sections(pkgs[i]) \in Nat
    BY DEF Sections
  <2>. QED BY <1>0, <2>1, <2>2
<1>16. CASE RemoveDir(i)
  BY <1>0, <1>16 DEF RemoveDir, Cleared
<1>17. CASE Refused(i)
  BY <1>0, <1>17 DEF Refused, Fail, Cleared
<1>18. CASE Kill(i)
  BY <1>0, <1>18 DEF Kill, Fault, Cleared
<1>19. CASE NetworkFails(i)
  BY <1>0, <1>19 DEF NetworkFails, Fault, Cleared
<1>20. CASE DiskFails(i)
  BY <1>0, <1>20 DEF DiskFails, Fault, RemoteAt
<1>. QED
  BY <1>1, <1>2, <1>3, <1>4, <1>5, <1>6, <1>7, <1>8, <1>9, <1>10, <1>11, <1>12, <1>13, <1>14,
     <1>15, <1>16, <1>17, <1>18, <1>19, <1>20 DEF Act, Step

\* Whether another run is on its way when one starts.
Overlaps == Running # {}

LEMMA StartFacts ==
  ASSUME TypeInv, NEW i \in Runs, Start(i)
  PROVE  /\ pc[i] = "idle" /\ \A j \in Runs : j < i => pc[j] # "idle"
         /\ pc' = [pc EXCEPT ![i] = "sums"]
         /\ UNCHANGED <<layout, served, tmp, urls, snapshot, k, sums, entries, fd, rest, pkgs, urlsPos, bad>>
         /\ faults' \in Nat /\ disturbed' \in BOOLEAN
         /\ disturbed' <=> disturbed \/ Overlaps
         /\ alone' \in [Runs -> BOOLEAN] /\ calm' \in [Runs -> BOOLEAN]
         /\ \A j \in Runs : alone'[j] <=> alone[j] /\ ~ ((j = i \/ j \in Running) /\ Overlaps)
         /\ \A j \in Runs : calm'[j] <=> calm[j] /\ ~ ((j = i \/ j \in Running) /\ Overlaps)
<1>1. /\ pc[i] = "idle" /\ \A j \in Runs : j < i => pc[j] # "idle"
      /\ pc' = [pc EXCEPT ![i] = "sums"]
      /\ UNCHANGED <<layout, served, tmp, urls, snapshot, k, sums, entries, fd, rest, pkgs, urlsPos, bad>>
  BY DEF Start, GoTo, filesVars, Runs
<1>2. faults' \in Nat
  BY DEF Start, TypeInv
<1>3. disturbed' = (disturbed \/ Overlaps)
  BY DEF Start, Overlaps
<1>4. disturbed' \in BOOLEAN /\ (disturbed' <=> disturbed \/ Overlaps)
  BY <1>3
<1>5. /\ alone' = [j \in Runs |-> IF j = i \/ j \in Running THEN alone[j] /\ ~ Overlaps ELSE alone[j]]
      /\ calm' = [j \in Runs |-> IF j = i \/ j \in Running THEN calm[j] /\ ~ Overlaps ELSE calm[j]]
  BY DEF Start, Overlaps
<1>6. alone \in [Runs -> BOOLEAN] /\ calm \in [Runs -> BOOLEAN]
  BY DEF TypeInv
<1>7. /\ alone' \in [Runs -> BOOLEAN] /\ calm' \in [Runs -> BOOLEAN]
      /\ \A j \in Runs : alone'[j] <=> alone[j] /\ ~ ((j = i \/ j \in Running) /\ Overlaps)
      /\ \A j \in Runs : calm'[j] <=> calm[j] /\ ~ ((j = i \/ j \in Running) /\ Overlaps)
  BY <1>5, <1>6
<1>. QED BY <1>1, <1>2, <1>4, <1>7

LEMMA PublishFacts ==
  ASSUME TypeInv, Publish
  PROVE  /\ UNCHANGED <<layout, tmp, urls, snapshot, pc, k, sums, entries, fd, rest, pkgs, urlsPos, bad,
                        alone, disturbed>>
         /\ served' \in [RepoSet -> Nat] /\ \A r \in RepoSet : served'[r] \in DOMAIN Published[r]
         /\ faults' \in Nat
         /\ calm' \in [Runs -> BOOLEAN] /\ \A j \in Runs : calm'[j] <=> calm[j] /\ j \notin Running
<1>1. /\ UNCHANGED <<layout, tmp, urls, snapshot, pc, k, sums, entries, fd, rest, pkgs, urlsPos, bad,
                     alone, disturbed, faults>>
      /\ calm' = [j \in Runs |-> calm[j] /\ j \notin Running]
  BY DEF Publish, filesVars, runVars
<1>2. PICK r \in RepoSet : served[r] < Len(Published[r]) /\ served' = [served EXCEPT ![r] = @ + 1]
  BY DEF Publish
<1>3. \A s \in RepoSet : Published[s] \in Seq(Texts)
  BY PublishedFacts
<1>4. \A s \in RepoSet : served'[s] = IF s = r THEN served[r] + 1 ELSE served[s]
  BY <1>2 DEF TypeInv
<1>5. \A s \in RepoSet : served[s] \in DOMAIN Published[s] /\ served[s] \in Nat
  BY DEF TypeInv
<1>6. served[r] + 1 \in DOMAIN Published[r]
  <2>1. PICK n, f : n = served[r] /\ f = Published[r]
    OBVIOUS
  <2>2. f \in Seq(Texts) /\ n \in DOMAIN f /\ n < Len(f)
    BY <1>2, <1>3, <1>5, <2>1
  <2>. QED BY <2>1, <2>2
<1>7. served' \in [RepoSet -> Nat] /\ \A s \in RepoSet : served'[s] \in DOMAIN Published[s]
  BY <1>2, <1>4, <1>5, <1>6 DEF TypeInv
<1>8. faults' \in Nat
  BY <1>1 DEF TypeInv
<1>9. calm \in [Runs -> BOOLEAN]
  BY DEF TypeInv
<1>. QED BY <1>1, <1>7, <1>8, <1>9

LEMMA StartTypes ==
  ASSUME TypeInv, NEW i \in Runs, Start(i)
  PROVE  TypeInv'
<1>1. pc' \in [Runs -> Places]
  BY StartFacts DEF TypeInv, Places
<1>2. ASSUME NEW j \in Runs PROVE PlaceInv(j)'
  <2>1. PlaceInv(j) /\ layout' = layout /\ Len(Repos) \in Nat
    BY StartFacts, PublishedFacts DEF TypeInv
  <2>2. pc'[j] = IF j = i THEN "sums" ELSE pc[j]
    BY StartFacts DEF TypeInv
  <2>3. CASE j = i
    <3>1. k'[i] = 1 /\ Len(sums'[i]) = 0 /\ sums'[i] = sums[i]
      BY <2>1, <2>3, StartFacts DEF PlaceInv, Over
    <3>. QED BY <2>1, <2>2, <2>3, <3>1 DEF PlaceInv, Over, Reading, Saving
  <2>4. CASE j # i
    BY <2>1, <2>2, <2>4, StartFacts DEF PlaceInv, RemoteAt
  <2>. QED BY <2>3, <2>4
<1>. QED BY <1>1, <1>2, StartFacts DEF TypeInv

LEMMA PublishTypes ==
  ASSUME TypeInv, Publish
  PROVE  TypeInv'
<1>1. ASSUME NEW j \in Runs PROVE PlaceInv(j)'
  BY PublishFacts DEF TypeInv, PlaceInv, RemoteAt
<1>. QED BY <1>1, PublishFacts DEF TypeInv

LEMMA TypeInit ==
  ASSUME Init
  PROVE  TypeInv
<1>1. Len(Repos) \in Nat /\ \A r \in RepoSet : 1 \in DOMAIN Published[r]
  BY PublishedFacts
<1>2. ASSUME NEW i \in Runs PROVE PlaceInv(i)
  <2>1. pc[i] = "idle" /\ k[i] = 1 /\ sums[i] = <<>> /\ pkgs[i] = {}
    BY DEF Init
  <2>2. Len(sums[i]) = 0
    BY <2>1
  <2>. QED BY <2>1, <2>2 DEF PlaceInv, Over, Reading, Saving
<1>3. /\ served \in [RepoSet -> Nat] /\ \A r \in RepoSet : served[r] \in DOMAIN Published[r]
  BY <1>1 DEF Init
<1>4. /\ pc \in [Runs -> Places] /\ k \in [Runs -> Nat \ {0}] /\ entries \in [Runs -> SUBSET TempNames]
      /\ fd \in [Runs -> Runs \cup {0}] /\ pkgs \in [Runs -> SUBSET Packages]
      /\ urlsPos \in [Runs -> Nat \ {0}] /\ bad \in [Runs -> SUBSET {"urls", "snapshot"}]
  BY DEF Init, Places
<1>5. sums \in [Runs -> Seq(Texts)] /\ rest \in [Runs -> Seq(Packages)]
  <2>1. <<>> \in Seq(Texts) /\ <<>> \in Seq(Packages)
    OBVIOUS
  <2>. QED BY <2>1 DEF Init
<1>6. alone \in [Runs -> BOOLEAN] /\ calm \in [Runs -> BOOLEAN] /\ disturbed \in BOOLEAN
  BY DEF Init
<1>7. layout \in Layouts /\ tmp = NoFile /\ urls = NoFile /\ snapshot = NoFile /\ faults \in Nat
  BY DEF Init
<1>. QED BY <1>2, <1>3, <1>4, <1>5, <1>6, <1>7 DEF TypeInv

LEMMA TypeStep ==
  ASSUME TypeInv, UpdateNext
  PROVE  TypeInv'
<1>1. ASSUME NEW i \in Runs, Act(i) PROVE TypeInv'
  <2>1. \A j \in Runs : PlaceInv(j)'
    BY <1>1, ActPlaces, ActPlacesOfOthers
  <2>2. TypesOnly'
    BY <1>1, ActTypes
  <2>. QED BY <2>1, <2>2 DEF TypeInv, TypesOnly
<1>2. Publish \/ \E i \in Runs : Start(i) \/ Act(i)
  BY DEF UpdateNext, Act
<1>. QED BY <1>1, <1>2, StartTypes, PublishTypes

-----------------------------------------------------------------------------
(***************************************************************************)
(* The order of runs                                                       *)
(***************************************************************************)

LEMMA OrderStart ==
  ASSUME TypeInv, OrderInv, NEW i \in Runs, Start(i)
  PROVE  OrderInv'
<1>1. \A j \in Runs : pc'[j] = IF j = i THEN "sums" ELSE pc[j]
  BY StartFacts DEF TypeInv
<1>2. \A j \in Runs : j \in Running' <=> j = i \/ j \in Running
  BY <1>1, StartFacts DEF Running, Over
<1>3. Running \subseteq Runs /\ Running' \subseteq Runs
  BY DEF Running
<1>4. ~ Overlaps => Running' = {i}
  BY <1>2, <1>3 DEF Overlaps
<1>5. alone[i] /\ calm[i] /\ i \notin Running
  BY StartFacts DEF OrderInv, Running, Over
<1>6. \A j, l \in Runs : j < l /\ pc'[l] # "idle" => pc'[j] # "idle"
  BY <1>1, StartFacts DEF OrderInv, Runs
<1>7. \A j \in Runs : pc'[j] = "idle" => alone'[j] /\ calm'[j]
  BY <1>1, StartFacts DEF OrderInv, Running, Over
<1>8. \A j \in Runs : calm'[j] => alone'[j]
  BY StartFacts DEF OrderInv
<1>9. \A j \in Running' : alone'[j] => Running' = {j}
  BY <1>2, <1>3, <1>4, StartFacts
<1>10. \A j \in Running' : alone'[j] \/ disturbed'
  BY <1>2, <1>3, <1>4, <1>5, StartFacts
<1>11. ASSUME NEW j \in Runs, alone'[j], pc'[j] # "idle", \A l \in Runs : j < l => pc'[l] = "idle"
       PROVE  Running' \subseteq {j}
  <2>1. j = i
    <3>1. ~ (j < i)
      BY <1>1, <1>11
    <3>2. ~ (i < j)
      <4>. SUFFICES ASSUME i < j PROVE FALSE
        OBVIOUS
      <4>1. pc[j] # "idle"
        BY <1>1, <1>11 DEF Runs
      <4>. QED BY <4>1, StartFacts DEF OrderInv
    <3>. QED BY <3>1, <3>2 DEF Runs
  <2>. QED BY <1>4, <1>11, <2>1, StartFacts
<1>. QED BY <1>6, <1>7, <1>8, <1>9, <1>10, <1>11 DEF OrderInv, Last

LEMMA OrderAct ==
  ASSUME TypeInv, OrderInv, NEW i \in Runs, Act(i)
  PROVE  OrderInv'
<1>1. Moves(i)
  BY ActMoves
<1>2. i \in Running /\ alone' = alone /\ pc[i] # "idle" /\ pc'[i] # "idle"
  BY <1>1 DEF Moves, Running, Over
<1>3. \A j \in Runs : j # i => pc'[j] = pc[j]
  BY <1>1 DEF Moves, Same
<1>4. \A j \in Runs : pc'[j] = "idle" <=> pc[j] = "idle"
  BY <1>2, <1>3
<1>5. Running' \subseteq Running /\ Running \subseteq Runs
  BY <1>2, <1>3 DEF Running
<1>6. \A j \in Runs : calm'[j] => calm[j]
  BY <1>1 DEF Moves
<1>7. \A j \in Runs : pc'[j] = "idle" => alone'[j] /\ calm'[j]
  <2>. SUFFICES ASSUME NEW j \in Runs, pc'[j] = "idle" PROVE alone'[j] /\ calm'[j]
    OBVIOUS
  <2>1. j # i /\ pc[j] = "idle"
    BY <1>2, <1>4
  <2>2. calm'[j] = calm[j]
    BY <1>1, <2>1 DEF Moves
  <2>. QED BY <1>2, <2>1, <2>2 DEF OrderInv
<1>8. \A j \in Running' : alone'[j] => Running' = {j}
  BY <1>2, <1>5 DEF OrderInv
<1>9. ASSUME NEW j \in Running', ~ alone'[j] PROVE disturbed'
  <2>1. disturbed /\ ~ alone[j]
    BY <1>2, <1>5, <1>9 DEF OrderInv
  <2>2. CASE disturbed' = disturbed
    BY <2>1, <2>2
  <2>3. CASE disturbed' = (disturbed /\ ~ alone[i])
    <3>1. ~ alone[i]
      BY <1>2, <1>5, <1>9, <2>1 DEF OrderInv
    <3>. QED BY <2>1, <2>3, <3>1
  <2>. QED BY <1>1, <2>2, <2>3 DEF Moves
<1>10. \A j \in Runs : alone'[j] /\ Last(j)' => Running' \subseteq {j}
  <2>1. \A j \in Runs : Last(j)' => Last(j)
    BY <1>4 DEF Last
  <2>. QED BY <1>2, <1>5, <2>1 DEF OrderInv
<1>11. \A j, l \in Runs : j < l /\ pc'[l] # "idle" => pc'[j] # "idle"
  BY <1>4 DEF OrderInv
<1>12. \A j \in Runs : calm'[j] => alone'[j]
  BY <1>2, <1>6 DEF OrderInv
<1>13. \A j \in Running' : alone'[j] \/ disturbed'
  BY <1>9
<1>. QED BY <1>7, <1>8, <1>10, <1>11, <1>12, <1>13 DEF OrderInv

LEMMA OrderPublish ==
  ASSUME TypeInv, OrderInv, Publish
  PROVE  OrderInv'
<1>1. pc' = pc /\ alone' = alone /\ disturbed' = disturbed /\ Running' = Running
  BY PublishFacts DEF Running
<1>2. \A j \in Runs : calm'[j] <=> calm[j] /\ j \notin Running
  BY PublishFacts
<1>3. \A j \in Runs : pc[j] = "idle" => j \notin Running
  BY DEF Running, Over
<1>. QED BY <1>1, <1>2, <1>3 DEF OrderInv, Last

LEMMA OrderStep ==
  ASSUME TypeInv, OrderInv, UpdateNext
  PROVE  OrderInv'
<1>1. Publish \/ \E i \in Runs : Start(i) \/ Act(i)
  BY DEF UpdateNext, Act
<1>. QED BY <1>1, OrderStart, OrderAct, OrderPublish

LEMMA OrderInit ==
  ASSUME Init
  PROVE  OrderInv
<1>1. \A i \in Runs : pc[i] = "idle" /\ alone[i] /\ calm[i]
  BY DEF Init
<1>2. Running = {}
  BY <1>1 DEF Running, Over
<1>. QED BY <1>1, <1>2 DEF OrderInv

-----------------------------------------------------------------------------
(***************************************************************************)
(* The temporary directory                                                 *)
(***************************************************************************)

\* Only these actions change the directory.
LEMMA ActTmp ==
  ASSUME NEW i \in Runs, Act(i), ~ MakeDir(i), ~ Erase(i), ~ CreateTemp(i), ~ Download(i), ~ RemoveDir(i)
  PROVE  tmp' = tmp
  BY DEF Act, Step, FetchSums, LookForDir, Enumerate, SkipLocal, OpenUrls, Verify, OpenList, ReadPkg,
         EndOfList, OpenSnapshot, SaveSection, Refused, Fail, Kill, NetworkFails, DiskFails, filesVars

\* What the directory is after each of them.
LEMMA EraseFacts ==
  ASSUME TypeInv, NEW i \in Runs, Erase(i)
  PROVE  \E name \in entries[i] \cap DOMAIN tmp :
           /\ tmp \in Dirs /\ tmp' \in Dirs
           /\ DOMAIN tmp' = DOMAIN tmp \ {name}
           /\ \A n \in DOMAIN tmp' : tmp'[n] = tmp[n]
           /\ entries' = [entries EXCEPT ![i] = @ \ {name}]
           /\ pc' = [pc EXCEPT ![i] = IF entries[i] = {name} THEN AfterErase(i) ELSE pc[i]]
<1>1. PICK name \in entries[i] \cap DOMAIN tmp :
        /\ tmp' = [n \in DOMAIN tmp \ {name} |-> tmp[n]]
        /\ entries' = [entries EXCEPT ![i] = @ \ {name}]
        /\ GoTo(i, IF entries[i] = {name} THEN AfterErase(i) ELSE pc[i])
  BY DEF Erase
<1>2. tmp \in Dirs
  BY DEF Erase, TypeInv
<1>3. tmp' \in Dirs
  BY <1>1, <1>2, DirFacts
<1>. QED BY <1>1, <1>2, <1>3 DEF GoTo

LEMMA CreateTempFacts ==
  ASSUME TypeInv, NEW i \in Runs, CreateTemp(i)
  PROVE  /\ k[i] \in 1 .. Len(Repos) /\ Repos[k[i]] \in RepoSet
         /\ TempOf(i) = layout.temp[Repos[k[i]]]
         /\ tmp \in Dirs /\ tmp' \in Dirs
         /\ DOMAIN tmp' = DOMAIN tmp \cup {TempOf(i)}
         /\ \A n \in DOMAIN tmp : n # TempOf(i) => tmp'[n] = tmp[n]
         /\ tmp'[TempOf(i)].text = <<>>
         /\ tmp'[TempOf(i)].ino = fd'[i]
<1>1. k[i] <= Len(Repos) /\ tmp \in Dirs
  BY DEF CreateTemp, TypeInv
<1>2. k[i] \in 1 .. Len(Repos) /\ Repos[k[i]] \in RepoSet
  BY <1>1, AtRepo
<1>3. PICK ino : ino = IF TempOf(i) \in DOMAIN tmp THEN tmp[TempOf(i)].ino ELSE i
  OBVIOUS
<1>4. /\ tmp' = [n \in DOMAIN tmp \cup {TempOf(i)} |->
                  IF n = TempOf(i) THEN [ino |-> ino, text |-> <<>>] ELSE tmp[n]]
      /\ fd' = [fd EXCEPT ![i] = ino]
  BY <1>3 DEF CreateTemp
<1>5. TypesOnly'
  BY ActTypes DEF Act, Step
<1>6. tmp' # NoFile
  <2>1. /\ DOMAIN tmp \subseteq TempNames /\ TempOf(i) \in TempNames
        /\ tmp \in [DOMAIN tmp -> [ino : Runs, text : Texts]]
    BY <1>1, AtRepo, DirFacts
  <2>2. ino \in Runs
    BY <1>3, <2>1
  <2>3. PICK D, entry : D = DOMAIN tmp \cup {TempOf(i)} /\ entry = [ino |-> ino, text |-> <<>>]
    OBVIOUS
  <2>4. entry \in [ino : Runs, text : Texts]
    BY <2>2, <2>3 DEF Texts
  <2>5. tmp' \in [D -> [ino : Runs, text : Texts]] /\ D \subseteq TempNames
    BY <1>4, <2>1, <2>3, <2>4
  <2>6. tmp' \in Dirs
    BY <2>5, DirFacts
  <2>. QED BY <2>6, DirFacts
<1>7. fd'[i] = ino
  BY <1>4 DEF TypeInv
<1>8. tmp' \in Dirs
  BY <1>5, <1>6 DEF TypesOnly
<1>. QED BY <1>1, <1>2, <1>4, <1>7, <1>8 DEF TempOf

LEMMA DownloadFacts ==
  ASSUME TypeInv, NEW i \in Runs, Download(i)
  PROVE  /\ k[i] \in 1 .. Len(Repos) /\ Repos[k[i]] \in RepoSet
         /\ TempOf(i) = layout.temp[Repos[k[i]]]
         /\ tmp' = tmp \/ /\ tmp \in Dirs /\ TempOf(i) \in DOMAIN tmp
                          /\ tmp' \in Dirs /\ DOMAIN tmp' = DOMAIN tmp
                          /\ \A n \in DOMAIN tmp : n # TempOf(i) => tmp'[n] = tmp[n]
                          /\ tmp'[TempOf(i)].text = List(Repos[k[i]])
         /\ tmp \in Dirs /\ TempOf(i) \in DOMAIN tmp /\ tmp[TempOf(i)].ino = fd[i] =>
              /\ tmp' \in Dirs /\ DOMAIN tmp' = DOMAIN tmp
              /\ tmp'[TempOf(i)].text = List(Repos[k[i]])
              /\ \A n \in DOMAIN tmp : n # TempOf(i) => tmp'[n] = tmp[n]
<1>1. k[i] <= Len(Repos)
  BY DEF Download, TypeInv, PlaceInv
<1>2. /\ k[i] \in 1 .. Len(Repos) /\ Repos[k[i]] \in RepoSet
      /\ List(Repos[k[i]]) \in Texts
  BY <1>1, AtRepo
<1>3. PICK text, n : text = List(Repos[k[i]]) /\ n = TempOf(i)
  OBVIOUS
<1>4. ASSUME tmp \in Dirs, n \in DOMAIN tmp, tmp' = [tmp EXCEPT ![n].text = text]
      PROVE  /\ tmp' \in Dirs /\ DOMAIN tmp' = DOMAIN tmp
             /\ tmp'[n].text = text
             /\ \A m \in DOMAIN tmp : m # n => tmp'[m] = tmp[m]
  <2>1. tmp \in [DOMAIN tmp -> [ino : Runs, text : Texts]] /\ DOMAIN tmp \subseteq TempNames
    BY <1>4, DirFacts
  <2>2. tmp' \in [DOMAIN tmp -> [ino : Runs, text : Texts]]
    BY <1>2, <1>3, <1>4, <2>1
  <2>3. tmp' \in Dirs
    BY <2>1, <2>2, DirFacts
  <2>. QED BY <1>4, <2>1, <2>3
<1>5. LET linked == tmp # NoFile /\ n \in DOMAIN tmp /\ tmp[n].ino = fd[i] IN
      tmp' = IF linked THEN [tmp EXCEPT ![n].text = text] ELSE tmp
  BY <1>3 DEF Download
<1>6. tmp # NoFile => tmp \in Dirs
  BY DEF TypeInv
<1>7. tmp \in Dirs => tmp # NoFile
  BY DirFacts
<1>. QED BY <1>2, <1>3, <1>4, <1>5, <1>6, <1>7 DEF TempOf

LEMMA TmpStep ==
  ASSUME TypeInv, TmpInv, UpdateNext
  PROVE  TmpInv'
<1>1. layout' = layout
  <2>1. Publish \/ \E i \in Runs : Start(i) \/ Act(i)
    BY DEF UpdateNext, Act
  <2>. QED BY <2>1, ActMoves, StartFacts, PublishFacts DEF Moves
<1>2. CASE tmp' = tmp
  BY <1>1, <1>2 DEF TmpInv
<1>3. SUFFICES ASSUME NEW i \in Runs, Act(i), tmp' # tmp, tmp' # NoFile,
                      NEW n \in DOMAIN tmp'
               PROVE  \E r \in RepoSet : layout.temp[r] = n /\ RangeOf(tmp'[n].text) \subseteq EverPublished(r)
  <2>1. Publish \/ \E i \in Runs : Start(i) \/ Act(i)
    BY DEF UpdateNext, Act
  <2>2. (\E i \in Runs : Act(i)) \/ tmp' = tmp
    BY <2>1, StartFacts, PublishFacts
  <2>. QED BY <1>1, <1>2, <2>2 DEF TmpInv
<1>4. tmp # NoFile => \A m \in DOMAIN tmp : \E r \in RepoSet :
        layout.temp[r] = m /\ RangeOf(tmp[m].text) \subseteq EverPublished(r)
  BY DEF TmpInv
<1>5. CASE MakeDir(i)
  BY <1>3, <1>5 DEF MakeDir
<1>6. CASE Erase(i)
  <2>1. tmp # NoFile /\ DOMAIN tmp' \subseteq DOMAIN tmp /\ tmp'[n] = tmp[n]
    BY <1>3, <1>6, EraseFacts DEF Erase
  <2>. QED BY <1>3, <1>4, <2>1
<1>7. CASE CreateTemp(i)
  <2>1. CASE n = TempOf(i)
    <3>1. tmp'[n].text = <<>> /\ Repos[k[i]] \in RepoSet /\ layout.temp[Repos[k[i]]] = n
      BY <1>7, <2>1, CreateTempFacts
    <3>2. RangeOf(<<>>) = {}
      BY DEF RangeOf
    <3>. QED BY <3>1, <3>2
  <2>2. CASE n # TempOf(i)
    <3>1. tmp # NoFile /\ n \in DOMAIN tmp /\ tmp'[n] = tmp[n]
      BY <1>3, <1>7, <2>2, CreateTempFacts DEF CreateTemp
    <3>. QED BY <1>4, <3>1
  <2>. QED BY <2>1, <2>2
<1>8. CASE Download(i)
  <2>1. CASE n = TempOf(i)
    <3>1. tmp'[n].text = List(Repos[k[i]]) /\ Repos[k[i]] \in RepoSet /\ layout.temp[Repos[k[i]]] = n
      BY <1>3, <1>8, <2>1, DownloadFacts
    <3>2. RangeOf(List(Repos[k[i]])) \subseteq EverPublished(Repos[k[i]])
      BY <3>1, ListFacts
    <3>. QED BY <3>1, <3>2
  <2>2. CASE n # TempOf(i)
    <3>1. tmp # NoFile /\ n \in DOMAIN tmp /\ tmp'[n] = tmp[n]
      BY <1>3, <1>8, <2>2, DownloadFacts DEF Download
    <3>. QED BY <1>4, <3>1
  <2>. QED BY <2>1, <2>2
<1>9. CASE RemoveDir(i)
  BY <1>3, <1>9 DEF RemoveDir
<1>. QED BY <1>3, <1>5, <1>6, <1>7, <1>8, <1>9, ActTmp

-----------------------------------------------------------------------------
(***************************************************************************)
(* What a run collects and writes                                          *)
(***************************************************************************)

LEMMA FirstGeneration ==
  \E g \in Generations : Together(g, 0) = {}
<1>1. PICK first : first = [m \in DOMAIN Repos |-> 1]
  OBVIOUS
<1>2. \A m \in DOMAIN Repos : Repos[m] \in RepoSet /\ 1 \in DOMAIN Published[Repos[m]]
  BY PublishedFacts DEF RepoSet
<1>3. first \in Generations
  BY <1>1, <1>2 DEF Generations
<1>4. Together(first, 0) = {}
  BY DEF Together
<1>. QED BY <1>3, <1>4

\* A run may take any of the lists of the next repository.
LEMMA NextGeneration ==
  ASSUME NEW g \in Generations, NEW n \in 1 .. Len(Repos), NEW t \in RangeOf(Published[Repos[n]])
  PROVE  \E h \in Generations : Together(h, n) = Together(g, n - 1) \cup RangeOf(t)
<1>1. PICK e \in DOMAIN Published[Repos[n]] : t = Published[Repos[n]][e]
  BY DEF RangeOf
<1>2. PICK h : h = [g EXCEPT ![n] = e]
  OBVIOUS
<1>3. n \in DOMAIN Repos /\ Repos[n] \in RepoSet
  BY ReposAssumption, PublishedFacts
<1>4. e \in UNION {DOMAIN Published[r] : r \in RepoSet}
  BY <1>1, <1>3
<1>5. h \in Generations
  BY <1>1, <1>2, <1>3, <1>4 DEF Generations
<1>6. h[n] = e /\ \A m \in 1 .. n - 1 : h[m] = g[m]
  BY <1>2, <1>3 DEF Generations
<1>7. n \in Nat /\ Len(Repos) \in Nat
  BY PublishedFacts
<1>8. 1 .. n = (1 .. n - 1) \cup {n}
  BY <1>7
<1>9. /\ \A x : x \in Together(h, n) <=> \E m \in 1 .. n : x \in RangeOf(Published[Repos[m]][h[m]])
      /\ \A x : x \in Together(g, n - 1) <=> \E m \in 1 .. n - 1 : x \in RangeOf(Published[Repos[m]][g[m]])
  BY DEF Together
<1>10. ASSUME NEW x \in Together(h, n) PROVE x \in Together(g, n - 1) \cup RangeOf(t)
  BY <1>1, <1>6, <1>8, <1>9, <1>10
<1>11. Together(g, n - 1) \subseteq Together(h, n)
  BY <1>6, <1>8, <1>9
<1>12. RangeOf(t) \subseteq Together(h, n)
  <2>1. n \in 1 .. n
    BY <1>7
  <2>. QED BY <1>1, <1>6, <1>9, <2>1
<1>. QED BY <1>5, <1>10, <1>11, <1>12

\* What holds of one run.
Own(i) == Verified(i) /\ (alone[i] => Collected(i) /\ Written(i))

LEMMA OwnIsWork == WorkInv <=> \A i \in Runs : Own(i)
  BY DEF WorkInv, Own

LEMMA OwnOver ==
  ASSUME NEW i \in Runs, pc[i] \in Over
  PROVE  Own(i)
  BY DEF Own, Over, Verified, Collected, Written, Reading, Saving

LEMMA OtherWork ==
  ASSUME TypeInv, OrderInv, WorkInv, NEW i \in Runs, Act(i), NEW j \in Runs \ {i}
  PROVE  Own(j)'
<1>1. /\ Same(j) /\ alone' = alone /\ layout' = layout /\ i \in Running
  BY ActMoves DEF Moves
<1>2. Verified(j)
  BY DEF WorkInv
<1>3. ASSUME alone[j] PROVE pc[j] \in Over
  <2>1. j \notin Running
    BY <1>1, <1>3 DEF OrderInv
  <2>. QED BY <2>1 DEF Running
<1>4. CASE alone[j]
  <2>1. pc'[j] \in Over
    BY <1>1, <1>3, <1>4 DEF Same
  <2>2. pc[j] \in Over => Own(j)
    BY OwnOver
  <2>. QED BY <2>1 DEF Own, Over, Verified, Collected, Written, Reading, Saving
<1>5. CASE ~ alone[j]
  <2>1. (pc[j] = "read" /\ DistinctNames => RangeOf(rest[j]) \subseteq EverPublished(Repos[k[j]]))'
    BY <1>1, <1>2 DEF Same, Verified, DistinctNames
  <2>. QED BY <1>1, <1>5, <2>1 DEF Own, Verified
<1>. QED BY <1>4, <1>5

LEMMA WorkStart ==
  ASSUME TypeInv, WorkInv, NEW i \in Runs, Start(i)
  PROVE  WorkInv'
<1>1. \A j \in Runs : pc'[j] = IF j = i THEN "sums" ELSE pc[j]
  BY StartFacts DEF TypeInv
<1>2. UNCHANGED <<layout, served, tmp, urls, snapshot, k, sums, rest, pkgs, urlsPos, bad>>
  BY StartFacts
<1>3. \A j \in Runs : alone'[j] => alone[j]
  BY StartFacts
<1>4. pkgs'[i] = {}
  BY <1>2, StartFacts DEF TypeInv, PlaceInv, Over
<1>5. ASSUME NEW j \in Runs PROVE Own(j)'
  <2>1. CASE j = i
    BY <1>1, <1>4, <2>1 DEF Own, Verified, Collected, Written, Reading, Saving
  <2>2. CASE j # i
    <3>1. pc'[j] = pc[j] /\ Own(j)
      BY <1>1, <2>2, OwnIsWork
    <3>2. Collected(j) => Collected(j)'
      BY <1>2, <3>1 DEF Collected
    <3>3. Written(j) => Written(j)'
      BY <1>2, <3>1 DEF Written
    <3>4. Verified(j)'
      BY <1>2, <1>3, <3>1 DEF Own, Verified, FileOf, RemoteAt, TempOf, List, DistinctNames
    <3>. QED BY <1>3, <3>1, <3>2, <3>3, <3>4 DEF Own
  <2>. QED BY <2>1, <2>2
<1>. QED BY <1>5 DEF WorkInv, Own

LEMMA WorkPublish ==
  ASSUME TypeInv, WorkInv, Publish
  PROVE  WorkInv'
<1>1. UNCHANGED <<layout, tmp, urls, snapshot, pc, k, sums, rest, pkgs, urlsPos, bad, alone>>
  BY PublishFacts
<1>2. ASSUME NEW j \in Runs PROVE Own(j)'
  <2>1. Own(j)
    BY OwnIsWork
  <2>2. Collected(j) => Collected(j)'
    BY <1>1 DEF Collected
  <2>3. Written(j) => Written(j)'
    BY <1>1 DEF Written
  <2>4. (pc[j] = "read" /\ (alone[j] \/ DistinctNames) => RangeOf(rest[j]) \subseteq EverPublished(Repos[k[j]]))'
    BY <1>1, <2>1 DEF Own, Verified, DistinctNames
  <2>5. ASSUME pc[j] = "open", alone[j] PROVE FileOf(j)' \subseteq RangeOf(Published[Repos[k[j]]])
    <3>1. CASE RemoteAt(j)
      <4>1. FileOf(j)' = FileOf(j)
        BY <1>1, <3>1 DEF FileOf, RemoteAt, TempOf
      <4>. QED BY <2>1, <2>5, <4>1 DEF Own, Verified
    <3>2. CASE ~ RemoteAt(j)
      <4>1. FileOf(j)' = {List(Repos[k[j]])'}
        BY <1>1, <3>2 DEF FileOf, RemoteAt, List
      <4>2. k[j] <= Len(Repos)
        BY <2>5 DEF TypeInv, PlaceInv
      <4>3. Repos[k[j]] \in RepoSet
        BY <4>2, AtRepo
      <4>4. served'[Repos[k[j]]] \in DOMAIN Published[Repos[k[j]]]
        BY <4>3, PublishFacts
      <4>5. List(Repos[k[j]])' = Published[Repos[k[j]]][served'[Repos[k[j]]]]
        BY <1>1 DEF List
      <4>. QED BY <4>1, <4>4, <4>5 DEF RangeOf
    <3>. QED BY <3>1, <3>2
  <2>. QED BY <1>1, <2>1, <2>2, <2>3, <2>4, <2>5 DEF Own, Verified
<1>. QED BY <1>2 DEF WorkInv, Own

\* Up to the reading nothing is collected, and afterwards nothing changes.
LEMMA WorkElsewhere ==
  ASSUME TypeInv, NEW i \in Runs, Own(i), Moves(i),
         UNCHANGED <<urls, snapshot, pkgs, urlsPos, bad>>,
         \/ pc[i] \notin Reading /\ pc'[i] \notin Reading
         \/ pc[i] \in Saving \ {"sections"} /\ pc'[i] \in Saving \ {"sections"}
  PROVE  Own(i)'
<1>1. alone' = alone /\ pc[i] \notin Over
  BY DEF Moves, Running
<1>2. Collected(i) => Collected(i)'
  BY <1>1 DEF Collected, Saving, Reading, Over
<1>3. Written(i) => Written(i)'
  BY <1>1 DEF Written, Saving, Reading
<1>4. Verified(i)'
  BY DEF Verified, Saving, Reading
<1>. QED BY <1>1, <1>2, <1>3, <1>4 DEF Own

LEMMA WorkOpenUrls ==
  ASSUME TypeInv, NEW i \in Runs, Own(i), OpenUrls(i)
  PROVE  Own(i)'
<1>1. /\ pc[i] = "fetch" /\ pc'[i] = "verify" /\ k'[i] = 1 /\ urls' = <<>>
      /\ UNCHANGED <<pkgs, urlsPos, alone>> /\ urlsPos[i] \in Nat \ {0}
  BY DEF OpenUrls, GoTo, Quietly, ghostVars, TypeInv
<1>2. ASSUME alone[i] PROVE pkgs'[i] = {}
  BY <1>1, <1>2 DEF Own, Collected, Over, Reading, Saving
<1>3. ASSUME alone[i] PROVE Collected(i)'
  <2>1. PICK g \in Generations : Together(g, 0) = {}
    BY FirstGeneration
  <2>2. k'[i] - 1 = 0
    BY <1>1
  <2>3. pkgs'[i] = Together(g, k'[i] - 1)
    BY <1>2, <1>3, <2>1, <2>2
  <2>. QED BY <1>1, <2>3 DEF Collected, Over, Reading, Saving
<1>4. UrlsGood(<<>>) /\ Covers(<<>>, {})
  BY DEF UrlsGood, Covers
<1>5. urlsPos[i] > Len(<<>>)
  BY <1>1
<1>6. alone[i] => Written(i)'
  BY <1>1, <1>2, <1>4, <1>5 DEF Written, Reading, Saving
<1>. QED BY <1>1, <1>3, <1>6 DEF Own, Verified

LEMMA WorkVerify ==
  ASSUME TypeInv, NEW i \in Runs, Own(i), Verify(i)
  PROVE  Own(i)'
<1>1. /\ pc[i] = "verify" /\ pc'[i] = "open" /\ k[i] <= Len(Repos) /\ sums[i][k[i]] \in FileOf(i)
      /\ UNCHANGED <<layout, served, tmp, urls, snapshot, k, pkgs, urlsPos, bad, alone>>
  BY DEF Verify, GoTo, Quietly, ghostVars, filesVars, TypeInv
<1>2. k[i] \in 1 .. Len(Repos) /\ Len(sums[i]) = Len(Repos)
  BY <1>1, AtRepo DEF TypeInv, PlaceInv, Over
<1>3. sums[i][k[i]] \in RangeOf(Published[Repos[k[i]]])
  BY <1>2 DEF TypeInv, PlaceInv
<1>4. \A t, u \in FileOf(i) : t = u
  BY DEF FileOf
<1>5. FileOf(i)' = FileOf(i)
  BY <1>1 DEF FileOf, RemoteAt, TempOf, List
<1>6. FileOf(i)' \subseteq RangeOf(Published[Repos[k'[i]]])
  BY <1>1, <1>3, <1>4, <1>5
<1>7. Collected(i) => Collected(i)'
  BY <1>1 DEF Collected, Over, Reading, Saving
<1>8. Written(i) => Written(i)'
  BY <1>1 DEF Written, Reading, Saving
<1>. QED BY <1>1, <1>6, <1>7, <1>8 DEF Own, Verified

\* The list that is opened is one the repository has published: the one that
\* has been verified, or one of a file no other repository is downloaded to.
LEMMA WorkOpenList ==
  ASSUME TypeInv, TmpInv, NEW i \in Runs, Own(i), OpenList(i)
  PROVE  Own(i)'
<1>1. PICK t \in FileOf(i) : rest' = [rest EXCEPT ![i] = t]
  BY DEF OpenList
<1>2. /\ pc[i] = "open" /\ pc'[i] = "read" /\ rest'[i] = t
      /\ UNCHANGED <<layout, urls, snapshot, k, pkgs, urlsPos, bad, alone>>
  BY <1>1 DEF OpenList, GoTo, Quietly, ghostVars, filesVars, TypeInv
<1>3. k[i] <= Len(Repos)
  BY <1>2 DEF TypeInv, PlaceInv
<1>4. k[i] \in 1 .. Len(Repos) /\ Repos[k[i]] \in RepoSet /\ List(Repos[k[i]]) \in RangeOf(Published[Repos[k[i]]])
  BY <1>3, AtRepo
<1>5. alone[i] => t \in RangeOf(Published[Repos[k[i]]])
  BY <1>2 DEF Own, Verified
<1>6. ASSUME alone[i] \/ DistinctNames PROVE RangeOf(t) \subseteq EverPublished(Repos[k[i]])
  <2>1. CASE t \in RangeOf(Published[Repos[k[i]]])
    BY <1>4, <2>1, PublishedFacts
  <2>2. CASE ~ alone[i] /\ RemoteAt(i)
    <3>1. tmp # NoFile /\ TempOf(i) \in DOMAIN tmp /\ t = tmp[TempOf(i)].text
      BY <1>1, <2>2 DEF FileOf
    <3>2. PICK r \in RepoSet : layout.temp[r] = TempOf(i) /\ RangeOf(tmp[TempOf(i)].text) \subseteq EverPublished(r)
      BY <3>1 DEF TmpInv
    <3>3. r = Repos[k[i]]
      BY <1>4, <1>6, <2>2, <3>2 DEF DistinctNames, TempOf
    <3>. QED BY <3>1, <3>2, <3>3
  <2>3. ~ RemoteAt(i) => t = List(Repos[k[i]])
    BY <1>1 DEF FileOf
  <2>. QED BY <1>4, <1>5, <2>1, <2>2, <2>3
<1>7. ASSUME alone[i], Collected(i) PROVE Collected(i)'
  <2>1. PICK g \in Generations : pkgs[i] = Together(g, k[i] - 1)
    BY <1>2, <1>7 DEF Collected
  <2>2. t \in RangeOf(Published[Repos[k[i]]])
    BY <1>5, <1>7
  <2>3. \E h \in Generations : Together(h, k[i]) = Together(g, k[i] - 1) \cup RangeOf(t)
    BY <1>4, <2>2, NextGeneration
  <2>4. \E h \in Generations : pkgs'[i] \cup RangeOf(rest'[i]) = Together(h, k'[i])
    BY <1>2, <2>1, <2>3
  <2>. QED BY <1>2, <2>4 DEF Collected, Over, Reading, Saving
<1>8. Written(i) => Written(i)'
  BY <1>2 DEF Written, Reading, Saving
<1>9. (alone[i] \/ DistinctNames)' => alone[i] \/ DistinctNames
  BY <1>2 DEF DistinctNames
<1>10. Verified(i)'
  BY <1>2, <1>6, <1>9 DEF Verified
<1>. QED BY <1>2, <1>7, <1>8, <1>10 DEF Own

\* The line that is written is of the repository that is read.
LEMMA ReadPkgKeepsGood ==
  ASSUME TypeInv, NEW i \in Runs, Own(i), ReadPkg(i), UrlsGood(urls), alone[i] \/ DistinctNames
  PROVE  UrlsGood(urls')
<1>1. pc[i] = "read"
  BY DEF ReadPkg
<1>2. Head(rest[i]) \in EverPublished(Repos[k[i]])
  BY <1>1, ReadPkgFacts DEF Own, Verified
<1>3. NewLine(i).pkg = Head(rest[i]) /\ NewLine(i).url[1] = Repos[k[i]]
  BY DEF NewLine, LineOf
<1>4. CASE "urls" \in bad[i]
  BY <1>4, ReadPkgFacts
<1>5. CASE "urls" \notin bad[i]
  <2>1. Rewritten(urls, urls', urlsPos[i], NewLine(i)) /\ urls \in Seq(Lines \cup {Hole})
        /\ urls' \in Seq(Lines \cup {Hole})
    BY <1>5, ReadPkgFacts
  <2>2. ASSUME NEW n \in DOMAIN urls'
        PROVE  urls'[n] = Hole \/ urls'[n].pkg \in EverPublished(urls'[n].url[1])
    <3>1. CASE n = urlsPos[i]
      BY <1>2, <1>3, <2>1, <3>1 DEF Rewritten
    <3>2. CASE n # urlsPos[i] /\ n <= Len(urls)
      <4>1. n \in DOMAIN urls /\ urls'[n] = urls[n]
        BY <2>1, <3>2 DEF Rewritten
      <4>. QED BY <4>1 DEF UrlsGood
    <3>3. CASE n # urlsPos[i] /\ ~ (n <= Len(urls))
      BY <2>1, <3>3 DEF Rewritten
    <3>. QED BY <3>1, <3>2, <3>3
  <2>. QED BY <2>2 DEF UrlsGood
<1>. QED BY <1>4, <1>5

\* A package is collected together with its line.
LEMMA WorkReadPkg ==
  ASSUME TypeInv, NEW i \in Runs, Own(i), ReadPkg(i)
  PROVE  Own(i)'
<1>1. /\ pc[i] = "read" /\ pc' = pc
      /\ UNCHANGED <<layout, snapshot, k, bad, alone>>
      /\ rest'[i] = Tail(rest[i]) /\ pkgs'[i] = pkgs[i] \cup {Head(rest[i])}
  BY DEF ReadPkg, Quietly, ghostVars, TypeInv
<1>2. RangeOf(rest[i]) = {Head(rest[i])} \cup RangeOf(rest'[i])
  BY <1>1, ReadPkgFacts
<1>3. pkgs'[i] \cup RangeOf(rest'[i]) = pkgs[i] \cup RangeOf(rest[i])
  BY <1>1, <1>2
<1>4. Collected(i) => Collected(i)'
  BY <1>1, <1>3 DEF Collected, Over, Reading, Saving
<1>5. (alone[i] \/ DistinctNames)' <=> alone[i] \/ DistinctNames
  BY <1>1 DEF DistinctNames
<1>6. Verified(i)'
  BY <1>1, <1>2, <1>5 DEF Own, Verified
<1>7. ASSUME alone[i], Written(i) PROVE Written(i)'
  <2>1. UrlsGood(urls) /\ Head(rest[i]) \in EverPublished(Repos[k[i]])
    BY <1>1, <1>2, <1>7 DEF Own, Written, Verified, Reading
  <2>2. CASE "urls" \in bad[i]
    <3>1. urls' = urls
      BY <2>2, ReadPkgFacts
    <3>. QED BY <1>1, <2>1, <2>2, <3>1 DEF Written, Reading, Saving
  <2>3. CASE "urls" \notin bad[i]
    <3>1. urlsPos[i] > Len(urls) /\ Covers(urls, pkgs[i])
      BY <1>1, <1>7, <2>3 DEF Written, Reading
    <3>2. Rewritten(urls, urls', urlsPos[i], NewLine(i)) /\ urlsPos'[i] = urlsPos[i] + 1
      BY <2>3, ReadPkgFacts DEF TypeInv
    <3>3. NewLine(i).pkg = Head(rest[i]) /\ NewLine(i).url[1] = Repos[k[i]] /\ NewLine(i) # Hole
      BY ReadPkgFacts, NothingAssumption DEF NewLine, LineOf
    <3>4. urls \in Seq(Lines \cup {Hole}) /\ urlsPos[i] \in Nat
      BY ReadPkgFacts DEF TypeInv
    <3>5. UrlsGood(urls')
      BY <1>7, <2>1, ReadPkgKeepsGood
    <3>6. Covers(urls', pkgs'[i])
      <4>1. ASSUME NEW p \in pkgs[i] PROVE \E n \in DOMAIN urls' : urls'[n] # Hole /\ urls'[n].pkg = p
        <5>1. PICK n \in DOMAIN urls : urls[n] # Hole /\ urls[n].pkg = p
          BY <3>1 DEF Covers
        <5>2. n \in DOMAIN urls' /\ n # urlsPos[i] /\ n <= Len(urls)
          BY <3>1, <3>2, <3>4 DEF Rewritten
        <5>3. urls'[n] = urls[n]
          BY <3>2, <5>2 DEF Rewritten
        <5>. QED BY <5>1, <5>2, <5>3
      <4>2. urlsPos[i] \in DOMAIN urls' /\ urls'[urlsPos[i]] = NewLine(i)
        BY <3>2 DEF Rewritten
      <4>. QED BY <1>1, <3>3, <4>1, <4>2 DEF Covers
    <3>7. urlsPos'[i] > Len(urls')
      BY <3>1, <3>2, <3>4 DEF Rewritten
    <3>. QED BY <1>1, <3>5, <3>6, <3>7 DEF Written, Reading, Saving
  <2>. QED BY <2>2, <2>3
<1>. QED BY <1>1, <1>4, <1>6, <1>7 DEF Own

LEMMA WorkEndOfList ==
  ASSUME TypeInv, NEW i \in Runs, Own(i), EndOfList(i)
  PROVE  Own(i)'
<1>1. /\ pc[i] = "read" /\ pc'[i] = "verify" /\ rest[i] = <<>> /\ k'[i] = k[i] + 1 /\ k[i] \in Nat
      /\ UNCHANGED <<layout, urls, snapshot, pkgs, urlsPos, bad, alone>>
  BY DEF EndOfList, GoTo, Quietly, ghostVars, filesVars, TypeInv
<1>2. RangeOf(rest[i]) = {}
  <2>1. RangeOf(<<>>) = {}
    BY DEF RangeOf
  <2>. QED BY <1>1, <2>1
<1>3. k'[i] - 1 = k[i]
  BY <1>1
<1>4. Collected(i) => Collected(i)'
  BY <1>1, <1>2, <1>3 DEF Collected, Over, Reading, Saving
<1>5. Written(i) => Written(i)'
  BY <1>1 DEF Written, Reading, Saving
<1>6. Verified(i)'
  BY <1>1 DEF Verified
<1>. QED BY <1>1, <1>4, <1>5, <1>6 DEF Own

LEMMA WorkOpenSnapshot ==
  ASSUME TypeInv, NEW i \in Runs, Own(i), OpenSnapshot(i)
  PROVE  Own(i)'
<1>1. /\ pc[i] = "verify" /\ pc'[i] = "sections" /\ k[i] > Len(Repos) /\ k'[i] = 1 /\ snapshot' = <<>>
      /\ UNCHANGED <<layout, urls, pkgs, urlsPos, bad, alone>>
  BY DEF OpenSnapshot, GoTo, Quietly, ghostVars, TypeInv
<1>2. k[i] - 1 = Len(Repos)
  <2>1. k[i] <= Len(Repos) + 1 /\ k[i] \in Nat /\ Len(Repos) \in Nat
    BY <1>1, PublishedFacts DEF TypeInv, PlaceInv
  <2>. QED BY <1>1, <2>1
<1>3. ASSUME Collected(i) PROVE Collected(i)'
  <2>1. pkgs[i] \in Offers
    BY <1>1, <1>2, <1>3 DEF Collected, Offers
  <2>. QED BY <1>1, <2>1 DEF Collected, Over, Reading, Saving
<1>4. Begins(<<>>, pkgs[i]) /\ Len(<<>>) = 0
  BY DEF Begins, Sections
<1>5. Written(i) => Written(i)'
  BY <1>1, <1>4 DEF Written, Reading, Saving
<1>6. Verified(i)'
  BY <1>1 DEF Verified
<1>. QED BY <1>1, <1>3, <1>5, <1>6 DEF Own

\* A part is written behind the parts before it, or no part is written any
\* more.
LEMMA WorkSaveSection ==
  ASSUME TypeInv, NEW i \in Runs, Own(i), SaveSection(i)
  PROVE  Own(i)'
<1>1. /\ pc[i] = "sections" /\ pc'[i] \in {"sections", "enumerateEnd"}
      /\ k[i] < Sections(pkgs[i]) => pc'[i] = "sections" /\ k'[i] = k[i] + 1
      /\ ~ (k[i] < Sections(pkgs[i])) => pc'[i] = "enumerateEnd"
      /\ UNCHANGED <<layout, urls, pkgs, urlsPos, bad, alone>>
  BY DEF SaveSection, GoTo, Quietly, ghostVars, TypeInv
<1>2. k[i] \in 1 .. Sections(pkgs[i]) /\ Sections(pkgs[i]) \in Nat /\ snapshot \in Seq(Sects \cup {Hole})
  BY SaveSectionFacts
<1>3. Collected(i) => Collected(i)'
  BY <1>1 DEF Collected, Over, Reading, Saving
<1>4. ASSUME Written(i) PROVE Written(i)'
  <2>1. Begins(snapshot, pkgs[i]) /\ Len(snapshot) < k[i]
    BY <1>1, <1>4 DEF Written, Saving
  <2>2. /\ UrlsGood(urls')
        /\ "urls" \notin bad'[i] => urlsPos'[i] > Len(urls') /\ Covers(urls', pkgs'[i])
    BY <1>1, <1>4 DEF Written, Reading, Saving
  <2>3. CASE "snapshot" \in bad[i]
    <3>1. snapshot' = snapshot
      BY <2>3, SaveSectionFacts
    <3>2. pc'[i] = "sections" => Len(snapshot') < k'[i]
      BY <1>1, <1>2, <2>1, <3>1
    <3>. QED BY <1>1, <2>1, <2>2, <2>3, <3>1, <3>2 DEF Written, Saving
  <2>4. CASE "snapshot" \notin bad[i]
    <3>1. Len(snapshot) = k[i] - 1
      BY <1>1, <1>4, <2>4 DEF Written
    <3>2. Rewritten(snapshot, snapshot', k[i], NewPart(i)) /\ snapshot' \in Seq(Sects \cup {Hole})
      BY <2>4, SaveSectionFacts
    <3>3. Len(snapshot') = k[i]
      BY <1>2, <3>1, <3>2 DEF Rewritten
    <3>4. Begins(snapshot', pkgs[i])
      <4>1. ASSUME NEW q \in DOMAIN snapshot' PROVE snapshot'[q] = [part |-> q, pkgs |-> pkgs[i]]
        <5>1. q \in 1 .. k[i]
          BY <3>2, <3>3
        <5>2. CASE q = k[i]
          BY <3>2, <5>2 DEF Rewritten, NewPart
        <5>3. CASE q # k[i]
          <6>1. q <= Len(snapshot) /\ q \in DOMAIN snapshot
            BY <1>2, <3>1, <5>1, <5>3
          <6>2. snapshot'[q] = snapshot[q]
            BY <3>2, <5>3, <6>1 DEF Rewritten
          <6>. QED BY <2>1, <6>1, <6>2 DEF Begins
        <5>. QED BY <5>2, <5>3
      <4>. QED BY <1>2, <3>3, <4>1 DEF Begins
    <3>5. pc'[i] = "sections" => Len(snapshot') = k'[i] - 1 /\ Len(snapshot') < k'[i]
      BY <1>1, <1>2, <3>3
    <3>6. pc'[i] = "enumerateEnd" => Len(snapshot') = Sections(pkgs[i])
      BY <1>1, <1>2, <3>3
    <3>. QED BY <1>1, <2>2, <3>4, <3>5, <3>6 DEF Written, Saving
  <2>. QED BY <2>3, <2>4
<1>5. Verified(i)'
  BY <1>1 DEF Verified
<1>. QED BY <1>1, <1>3, <1>4, <1>5 DEF Own

\* Once the output stream has failed nothing more is claimed of it.
LEMMA WorkDiskFails ==
  ASSUME TypeInv, NEW i \in Runs, Own(i), DiskFails(i)
  PROVE  Own(i)'
<1>1. UNCHANGED <<layout, served, tmp, urls, snapshot, pc, k, rest, pkgs, urlsPos, alone>>
  BY DEF DiskFails, filesVars, ghostVars
<1>2. bad[i] \subseteq bad'[i]
  BY DEF DiskFails, TypeInv
<1>3. Collected(i) => Collected(i)'
  BY <1>1 DEF Collected
<1>4. Written(i) => Written(i)'
  BY <1>1, <1>2 DEF Written
<1>5. Verified(i)'
  BY <1>1 DEF Own, Verified, FileOf, RemoteAt, TempOf, List, DistinctNames
<1>. QED BY <1>1, <1>3, <1>4, <1>5 DEF Own

LEMMA WorkAct ==
  ASSUME TypeInv, TmpInv, NEW i \in Runs, Own(i), Act(i)
  PROVE  Own(i)'
<1>0. Moves(i) /\ pc \in [Runs -> Places]
  BY ActMoves DEF TypeInv
<1>1. CASE FetchSums(i)
  <2>1. pc[i] \notin Reading /\ pc'[i] \notin Reading /\ UNCHANGED <<urls, snapshot, pkgs, urlsPos, bad>>
    BY <1>0, <1>1 DEF FetchSums, filesVars, Reading, Saving
  <2>. QED BY <1>0, <2>1, WorkElsewhere
<1>2. CASE LookForDir(i)
  <2>1. pc[i] \notin Reading /\ pc'[i] \notin Reading /\ UNCHANGED <<urls, snapshot, pkgs, urlsPos, bad>>
    BY <1>0, <1>2 DEF LookForDir, GoTo, filesVars, Reading, Saving
  <2>. QED BY <1>0, <2>1, WorkElsewhere
<1>3. CASE MakeDir(i)
  <2>1. pc[i] \notin Reading /\ pc'[i] \notin Reading /\ UNCHANGED <<urls, snapshot, pkgs, urlsPos, bad>>
    BY <1>0, <1>3 DEF MakeDir, GoTo, Reading, Saving
  <2>. QED BY <1>0, <2>1, WorkElsewhere
<1>4. CASE Enumerate(i)
  <2>1. UNCHANGED <<urls, snapshot, pkgs, urlsPos, bad>>
    BY <1>4 DEF Enumerate, filesVars
  <2>2. \/ pc[i] \notin Reading /\ pc'[i] \notin Reading
        \/ pc[i] \in Saving \ {"sections"} /\ pc'[i] \in Saving \ {"sections"}
    BY <1>0, <1>4 DEF Enumerate, AfterErase, GoTo, Reading, Saving
  <2>. QED BY <1>0, <2>1, <2>2, WorkElsewhere
<1>5. CASE Erase(i)
  <2>1. UNCHANGED <<urls, snapshot, pkgs, urlsPos, bad>>
    BY <1>5 DEF Erase
  <2>2. \/ pc[i] \notin Reading /\ pc'[i] \notin Reading
        \/ pc[i] \in Saving \ {"sections"} /\ pc'[i] \in Saving \ {"sections"}
    BY <1>0, <1>5 DEF Erase, AfterErase, GoTo, Reading, Saving
  <2>. QED BY <1>0, <2>1, <2>2, WorkElsewhere
<1>6. CASE SkipLocal(i)
  <2>1. pc[i] \notin Reading /\ pc'[i] \notin Reading /\ UNCHANGED <<urls, snapshot, pkgs, urlsPos, bad>>
    BY <1>0, <1>6 DEF SkipLocal, filesVars, Reading, Saving
  <2>. QED BY <1>0, <2>1, WorkElsewhere
<1>7. CASE CreateTemp(i)
  <2>1. pc[i] \notin Reading /\ pc'[i] \notin Reading /\ UNCHANGED <<urls, snapshot, pkgs, urlsPos, bad>>
    BY <1>0, <1>7 DEF CreateTemp, GoTo, Reading, Saving
  <2>. QED BY <1>0, <2>1, WorkElsewhere
<1>8. CASE Download(i)
  <2>1. pc[i] \notin Reading /\ pc'[i] \notin Reading /\ UNCHANGED <<urls, snapshot, pkgs, urlsPos, bad>>
    BY <1>0, <1>8 DEF Download, GoTo, Reading, Saving
  <2>. QED BY <1>0, <2>1, WorkElsewhere
<1>9. ASSUME pc'[i] \in Over PROVE Own(i)'
  BY <1>9 DEF Own, Over, Verified, Collected, Written, Reading, Saving
<1>10. RemoveDir(i) \/ Refused(i) \/ Kill(i) \/ NetworkFails(i) => pc'[i] \in Over
  BY <1>0 DEF RemoveDir, Refused, Fail, Kill, NetworkFails, GoTo, Over
<1>11. \/ FetchSums(i) \/ LookForDir(i) \/ MakeDir(i) \/ Enumerate(i) \/ Erase(i) \/ SkipLocal(i)
       \/ CreateTemp(i) \/ Download(i) \/ OpenUrls(i) \/ Verify(i) \/ OpenList(i) \/ ReadPkg(i)
       \/ EndOfList(i) \/ OpenSnapshot(i) \/ SaveSection(i) \/ DiskFails(i) \/ pc'[i] \in Over
  BY <1>10 DEF Act, Step
<1>. QED
  BY <1>1, <1>2, <1>3, <1>4, <1>5, <1>6, <1>7, <1>8, <1>9, <1>11, WorkOpenUrls, WorkVerify, WorkOpenList,
     WorkReadPkg, WorkEndOfList, WorkOpenSnapshot, WorkSaveSection, WorkDiskFails

LEMMA WorkStep ==
  ASSUME TypeInv, OrderInv, TmpInv, WorkInv, UpdateNext
  PROVE  WorkInv'
<1>1. ASSUME NEW i \in Runs, Act(i) PROVE WorkInv'
  <2>1. \A j \in Runs : Own(j)
    BY OwnIsWork
  <2>2. Own(i)'
    BY <1>1, <2>1, WorkAct
  <2>3. \A j \in Runs \ {i} : Own(j)'
    BY <1>1, OtherWork
  <2>. QED BY <2>2, <2>3 DEF WorkInv, Own
<1>2. Publish \/ \E i \in Runs : Start(i) \/ Act(i)
  BY DEF UpdateNext, Act
<1>. QED BY <1>1, <1>2, WorkStart, WorkPublish

LEMMA WorkInit ==
  ASSUME Init
  PROVE  WorkInv
<1>1. \A i \in Runs : pc[i] \in Over
  BY DEF Init, Over
<1>. QED BY <1>1, OwnOver, OwnIsWork

-----------------------------------------------------------------------------
(***************************************************************************)
(* The files                                                               *)
(***************************************************************************)

LEMMA ActFiles ==
  ASSUME NEW i \in Runs, Act(i)
  PROVE  /\ urls' = urls \/ OpenUrls(i) \/ ReadPkg(i)
         /\ snapshot' = snapshot \/ OpenSnapshot(i) \/ SaveSection(i)
         /\ disturbed' = disturbed \/ RemoveDir(i)
         /\ pc'[i] = "done" => pc[i] = "done" \/ RemoveDir(i) \/ pc \notin [Runs -> Places]
<1>1. \/ RemoveDir(i) \/ OpenUrls(i) \/ ReadPkg(i) \/ OpenSnapshot(i) \/ SaveSection(i)
      \/ UNCHANGED <<urls, snapshot, disturbed>>
  BY DEF Act, Step, FetchSums, LookForDir, MakeDir, Enumerate, Erase, SkipLocal, CreateTemp, Download,
         Verify, OpenList, EndOfList, Refused, Fail, Kill, NetworkFails, DiskFails,
         filesVars, ghostVars, Quietly
<1>2. /\ RemoveDir(i) => UNCHANGED <<urls, snapshot>>
      /\ OpenUrls(i) => UNCHANGED <<snapshot, disturbed>>
      /\ ReadPkg(i) => UNCHANGED <<snapshot, disturbed>>
      /\ OpenSnapshot(i) => UNCHANGED <<urls, disturbed>>
      /\ SaveSection(i) => UNCHANGED <<urls, disturbed>>
  BY DEF RemoveDir, OpenUrls, ReadPkg, OpenSnapshot, SaveSection, ghostVars, Quietly
<1>3. ASSUME pc \in [Runs -> Places], pc'[i] = "done", pc[i] # "done" PROVE RemoveDir(i)
  BY <1>3 DEF Act, Step, FetchSums, LookForDir, MakeDir, Enumerate, AfterErase, Erase, SkipLocal, CreateTemp,
         Download, OpenUrls, Verify, OpenList, ReadPkg, EndOfList, OpenSnapshot, SaveSection,
         Refused, Fail, Kill, NetworkFails, DiskFails, GoTo
<1>. QED BY <1>1, <1>2, <1>3

LEMMA SomeOffer ==
  \E S \in Offers : Begins(<<>>, S)
<1>1. PICK g \in Generations : Together(g, 0) = {}
  BY FirstGeneration
<1>2. Together(g, Len(Repos)) \in Offers
  BY DEF Offers
<1>3. Begins(<<>>, Together(g, Len(Repos)))
  BY DEF Begins, Sections
<1>. QED BY <1>2, <1>3

LEMMA FilesAct ==
  ASSUME TypeInv, OrderInv, TmpInv, WorkInv, FilesInv, NEW i \in Runs, Act(i)
  PROVE  FilesInv'
<1>1. Moves(i) /\ Own(i) /\ Own(i)'
  BY ActMoves, WorkAct, OwnIsWork
<1>2. i \in Running /\ alone' = alone /\ layout' = layout
  BY <1>1 DEF Moves
<1>3. RemoveDir(i) => /\ pc[i] = "rmdir" /\ UNCHANGED <<urls, snapshot, bad>>
                      /\ disturbed' = (disturbed /\ ~ alone[i])
  BY DEF RemoveDir
<1>4. ASSUME DistinctNames \/ ~ disturbed', urls' # NoFile PROVE UrlsGood(urls')
  <2>1. CASE OpenUrls(i)
    BY <2>1 DEF OpenUrls, UrlsGood
  <2>2. CASE RemoveDir(i)
    <3>1. CASE alone[i]
      <4>1. UrlsGood(urls)
        BY <1>1, <1>3, <2>2, <3>1 DEF Own, Written, Reading, Saving
      <4>. QED BY <1>3, <2>2, <4>1
    <3>2. CASE ~ alone[i]
      <4>1. DistinctNames \/ ~ disturbed
        BY <1>3, <1>4, <2>2, <3>2
      <4>. QED BY <1>3, <1>4, <2>2, <4>1 DEF FilesInv
    <3>. QED BY <3>1, <3>2
  <2>3. CASE ReadPkg(i)
    <3>1. ReadPkg(i) => disturbed' = disturbed
      BY DEF ReadPkg, Quietly, ghostVars
    <3>2. alone[i] \/ DistinctNames
      BY <1>2, <1>4, <2>3, <3>1 DEF OrderInv
    <3>3. urls # NoFile
      BY <2>3 DEF ReadPkg, TypeInv, PlaceInv, Reading
    <3>4. UrlsGood(urls)
      BY <1>4, <2>3, <3>1, <3>3 DEF FilesInv
    <3>. QED BY <1>1, <2>3, <3>2, <3>4, ReadPkgKeepsGood
  <2>4. CASE urls' = urls /\ disturbed' = disturbed
    BY <1>4, <2>4 DEF FilesInv
  <2>. QED BY <2>1, <2>2, <2>3, <2>4, ActFiles
<1>5. ASSUME snapshot' # NoFile, ~ disturbed' PROVE \E S \in Offers : Begins(snapshot', S)
  <2>1. CASE OpenSnapshot(i)
    BY <2>1, SomeOffer DEF OpenSnapshot
  <2>2. CASE RemoveDir(i)
    <3>1. CASE alone[i]
      <4>1. Begins(snapshot, pkgs[i]) /\ pkgs[i] \in Offers
        BY <1>1, <1>3, <2>2, <3>1 DEF Own, Written, Collected, Reading, Saving
      <4>. QED BY <1>3, <2>2, <4>1
    <3>2. CASE ~ alone[i]
      <4>1. ~ disturbed
        BY <1>3, <1>5, <2>2, <3>2
      <4>. QED BY <1>3, <1>5, <2>2, <4>1 DEF FilesInv
    <3>. QED BY <3>1, <3>2
  <2>3. CASE SaveSection(i)
    <3>1. disturbed' = disturbed /\ pc'[i] \in {"sections", "enumerateEnd"}
      BY <2>3 DEF SaveSection, Quietly, ghostVars, GoTo, TypeInv
    <3>2. alone'[i]
      BY <1>2, <1>5, <3>1 DEF OrderInv
    <3>3. Begins(snapshot', pkgs'[i]) /\ pkgs'[i] \in Offers
      BY <1>1, <3>1, <3>2 DEF Own, Written, Collected, Saving
    <3>. QED BY <3>3
  <2>4. CASE snapshot' = snapshot /\ disturbed' = disturbed
    BY <1>5, <2>4 DEF FilesInv
  <2>. QED BY <2>1, <2>2, <2>3, <2>4, ActFiles
<1>6. ASSUME NEW j \in Runs, EndedWell(j)'
      PROVE  /\ urls' # NoFile
             /\ snapshot' # NoFile
             /\ \E S \in Offers : Begins(snapshot', S) /\ Len(snapshot') = Sections(S) /\ Covers(urls', S)
  <2>1. pc'[j] = "done" /\ alone[j] /\ bad'[j] = {} /\ Last(j)'
    BY <1>2, <1>6 DEF EndedWell
  <2>2. pc'[i] # "idle" /\ pc[i] # "idle"
    BY <1>1 DEF Moves, Running, Over
  <2>3. \A l \in Runs : l # i => pc'[l] = pc[l]
    BY <1>1 DEF Moves, Same
  <2>4. Last(j)
    BY <2>1, <2>2, <2>3 DEF Last
  <2>5. j = i
    BY <1>2, <2>1, <2>4 DEF OrderInv
  <2>6. RemoveDir(i)
    <3>1. pc[i] # "done" /\ pc \in [Runs -> Places]
      BY <1>2 DEF Running, Over, TypeInv
    <3>. QED BY <2>1, <2>5, <3>1, ActFiles
  <2>7. bad[i] = {} /\ pc[i] = "rmdir" /\ urls # NoFile /\ snapshot # NoFile
    BY <1>3, <2>1, <2>5, <2>6 DEF TypeInv, PlaceInv, Reading, Saving
  <2>8. /\ Begins(snapshot, pkgs[i]) /\ pkgs[i] \in Offers
        /\ Len(snapshot) = Sections(pkgs[i]) /\ Covers(urls, pkgs[i])
    BY <1>1, <2>1, <2>5, <2>7 DEF Own, Written, Collected, Reading, Saving
  <2>. QED BY <1>3, <2>6, <2>7, <2>8
<1>7. DistinctNames' <=> DistinctNames
  BY <1>2 DEF DistinctNames
<1>. QED BY <1>4, <1>5, <1>6, <1>7 DEF FilesInv

LEMMA FilesStart ==
  ASSUME TypeInv, OrderInv, FilesInv, NEW i \in Runs, Start(i)
  PROVE  FilesInv'
<1>1. /\ UNCHANGED <<layout, urls, snapshot, bad>>
      /\ disturbed => disturbed'
  BY StartFacts
<1>2. \A j \in Runs : ~ EndedWell(j)'
  <2>. SUFFICES ASSUME NEW j \in Runs, pc'[j] = "done", Last(j)' PROVE FALSE
    BY DEF EndedWell
  <2>1. pc[i] = "idle" /\ \A l \in Runs : pc'[l] = IF l = i THEN "sums" ELSE pc[l]
    BY StartFacts DEF TypeInv
  <2>2. j # i /\ pc[j] # "idle"
    BY <2>1
  <2>3. ~ (i < j)
    BY <2>1, <2>2 DEF OrderInv
  <2>4. j < i
    BY <2>2, <2>3 DEF Runs
  <2>. QED BY <2>1, <2>4 DEF Last
<1>3. DistinctNames' <=> DistinctNames
  BY <1>1 DEF DistinctNames
<1>. QED BY <1>1, <1>2, <1>3 DEF FilesInv

LEMMA FilesStep ==
  ASSUME TypeInv, OrderInv, TmpInv, WorkInv, FilesInv, UpdateNext
  PROVE  FilesInv'
<1>1. ASSUME Publish PROVE FilesInv'
  <2>1. UNCHANGED <<layout, urls, snapshot, bad, pc, alone, disturbed>>
    BY <1>1, PublishFacts
  <2>2. DistinctNames' <=> DistinctNames
    BY <2>1 DEF DistinctNames
  <2>3. \A j \in Runs : EndedWell(j)' <=> EndedWell(j)
    BY <2>1 DEF EndedWell, Last
  <2>. QED BY <2>1, <2>2, <2>3 DEF FilesInv
<1>2. Publish \/ \E i \in Runs : Start(i) \/ Act(i)
  BY DEF UpdateNext, Act
<1>. QED BY <1>1, <1>2, FilesStart, FilesAct

LEMMA FilesInit ==
  ASSUME Init
  PROVE  FilesInv
  BY DEF Init, FilesInv, EndedWell

-----------------------------------------------------------------------------
(***************************************************************************)
(* Runs nothing disturbs                                                   *)
(***************************************************************************)

\* A run that is over has nothing to lose but its tidiness.
LEMMA CalmOver ==
  ASSUME TypeInv, NEW i \in Runs, pc[i] \in Over \ {"failed"}, pc[i] = "done" /\ Last(i) => tmp = NoFile
  PROVE  CalmInv(i)
<1>1. sums[i] = <<>>
  BY DEF TypeInv, PlaceInv
<1>2. \A m \in 1 .. Len(<<>>) : FALSE
  OBVIOUS
<1>3. \A m \in 1 .. Len(sums[i]) : sums[i][m] = List(Repos[m])
  BY <1>1, <1>2
<1>. QED BY <1>3 DEF CalmInv, Over

LEMMA CalmOverNext ==
  ASSUME NEW i \in Runs
  PROVE  (TypeInv /\ pc[i] \in Over \ {"failed"} /\ ~ Last(i))' => CalmInv(i)'
<1>1. TypeInv /\ pc[i] \in Over \ {"failed"} /\ ~ Last(i) => CalmInv(i)
  BY CalmOver
<1>. QED BY <1>1, PTL

\* No run but the one that starts is the last.
LEMMA LastStarts ==
  ASSUME TypeInv, OrderInv, NEW i \in Runs, Start(i), NEW j \in Runs, j # i
  PROVE  ~ Last(j)'
<1>. SUFFICES ASSUME Last(j)' PROVE FALSE
  OBVIOUS
<1>1. pc[i] = "idle" /\ \A l \in Runs : pc'[l] = IF l = i THEN "sums" ELSE pc[l]
  BY StartFacts DEF TypeInv
<1>2. pc[j] # "idle"
  BY <1>1 DEF Last
<1>3. ~ (i < j)
  BY <1>1, <1>2 DEF OrderInv
<1>4. j < i
  BY <1>3 DEF Runs
<1>. QED BY <1>1, <1>4 DEF Last

LEMMA CalmStart ==
  ASSUME TypeInv, OrderInv, CalmRunsInv, NEW i \in Runs, Start(i)
  PROVE  CalmRunsInv'
<1>1. TypeInv'
  BY StartTypes
<1>2. \A j \in Runs : pc'[j] = IF j = i THEN "sums" ELSE pc[j]
  BY StartFacts DEF TypeInv
<1>3. UNCHANGED <<layout, served, tmp, sums>>
  BY StartFacts
<1>4. ASSUME NEW j \in Runs, calm'[j], DistinctNames' PROVE CalmInv(j)'
  <2>1. calm[j] /\ DistinctNames
    BY <1>3, <1>4, StartFacts DEF DistinctNames
  <2>2. CASE j = i
    <3>1. sums'[i] = <<>>
      BY <1>3, StartFacts DEF TypeInv, PlaceInv, Over
    <3>2. \A m \in 1 .. Len(<<>>) : FALSE
      OBVIOUS
    <3>3. (\A m \in 1 .. Len(sums[i]) : sums[i][m] = List(Repos[m]))'
      BY <3>1, <3>2
    <3>. QED BY <1>2, <2>2, <3>3 DEF CalmInv, Over
  <2>3. CASE j # i
    <3>1. j \notin Running
      BY <1>4, <2>1, StartFacts DEF Overlaps
    <3>2. pc'[j] \in Over \ {"failed"}
      BY <1>2, <2>1, <2>3, <3>1 DEF Running, CalmRunsInv, CalmInv
    <3>3. ~ Last(j)'
      BY <2>3, LastStarts
    <3>. QED BY <1>1, <3>2, <3>3, CalmOverNext
  <2>. QED BY <2>2, <2>3
<1>. QED BY <1>4 DEF CalmRunsInv

LEMMA CalmPublish ==
  ASSUME TypeInv, CalmRunsInv, Publish
  PROVE  CalmRunsInv'
<1>1. UNCHANGED <<layout, tmp, pc, sums>>
  BY PublishFacts
<1>2. ASSUME NEW j \in Runs, calm'[j], DistinctNames' PROVE CalmInv(j)'
  <2>1. calm[j] /\ j \notin Running /\ DistinctNames
    BY <1>1, <1>2, PublishFacts DEF DistinctNames
  <2>2. pc[j] \in Over \ {"failed"} /\ (pc[j] = "done" /\ Last(j) => tmp = NoFile)
    BY <2>1 DEF Running, CalmRunsInv, CalmInv
  <2>3. sums'[j] = <<>>
    BY <1>1, <2>2 DEF TypeInv, PlaceInv
  <2>4. \A m \in 1 .. Len(<<>>) : FALSE
    OBVIOUS
  <2>5. (\A m \in 1 .. Len(sums[j]) : sums[j][m] = List(Repos[m]))'
    BY <2>3, <2>4
  <2>. QED BY <1>1, <2>2, <2>5 DEF CalmInv, Over, Last
<1>. QED BY <1>2 DEF CalmRunsInv

LEMMA OtherCalm ==
  ASSUME TypeInv, TypeInv', OrderInv, CalmRunsInv, NEW i \in Runs, Act(i),
         NEW j \in Runs \ {i}, calm'[j], DistinctNames'
  PROVE  CalmInv(j)'
<1>1. /\ Same(j) /\ calm[j] /\ alone' = alone /\ layout' = layout /\ i \in Running
      /\ \A l \in Runs \ {i} : Same(l)
      /\ pc'[i] # "idle"
  BY ActMoves DEF Moves
<1>2. alone[j] /\ DistinctNames
  BY <1>1 DEF OrderInv, DistinctNames
<1>3. j \notin Running
  BY <1>1, <1>2 DEF OrderInv
<1>4. pc'[j] \in Over \ {"failed"}
  BY <1>1, <1>2, <1>3 DEF Running, CalmRunsInv, CalmInv, Same
<1>5. ~ Last(j)
  BY <1>1, <1>2 DEF OrderInv
<1>6. ~ Last(j)'
  <2>1. \A l \in Runs : pc'[l] = "idle" <=> pc[l] = "idle"
    BY <1>1 DEF Same, Running, Over
  <2>. QED BY <1>5, <2>1 DEF Last
<1>. QED BY <1>4, <1>6, CalmOverNext

\* Nothing is missing.
LEMMA CalmIsNotRefused ==
  ASSUME TypeInv, NEW i \in Runs, CalmInv(i), Missing(i)
  PROVE  FALSE
<1>1. CASE pc[i] = "mkdir" /\ tmp # NoFile
  BY <1>1 DEF CalmInv
<1>2. CASE pc[i] \in {"enumerate", "enumerateEnd"} /\ tmp = NoFile
  BY <1>2 DEF CalmInv, Over
<1>3. CASE pc[i] \in {"erase", "eraseEnd"} /\ IF tmp = NoFile THEN entries[i] # {} ELSE ~ entries[i] \subseteq DOMAIN tmp
  BY <1>3 DEF CalmInv, Over
<1>4. CASE pc[i] = "fetch" /\ tmp = NoFile
  BY <1>4 DEF CalmInv, Over
<1>5. CASE pc[i] \in {"verify", "open"} /\ k[i] <= Len(Repos)
  <2>1. k[i] \in 1 .. Len(Repos)
    BY <1>5, AtRepo
  <2>2. Fetched(Repos[k[i]])
    BY <1>5, <2>1 DEF CalmInv
  <2>3. FileOf(i) = {List(Repos[k[i]])}
    BY <2>2 DEF FileOf, Fetched, RemoteAt, TempOf
  <2>4. Len(sums[i]) = Len(Repos)
    BY <1>5 DEF TypeInv, PlaceInv, Over
  <2>5. sums[i][k[i]] = List(Repos[k[i]])
    BY <2>1, <2>4 DEF CalmInv
  <2>. QED BY <1>5, <2>3, <2>5 DEF Missing
<1>6. CASE pc[i] = "rmdir" /\ tmp # <<>>
  BY <1>6 DEF CalmInv
<1>7. pc[i] = "open" => k[i] <= Len(Repos)
  BY DEF TypeInv, PlaceInv
<1>. QED BY <1>1, <1>2, <1>3, <1>4, <1>5, <1>6, <1>7 DEF Missing

\* A file of another name stays where it is.
LEMMA StillFetched ==
  ASSUME NEW r \in RepoSet, Fetched(r), layout' = layout, served' = served,
         tmp' \in Dirs, layout.temp[r] \in DOMAIN tmp', tmp'[layout.temp[r]] = tmp[layout.temp[r]]
  PROVE  Fetched(r)'
  BY DirFacts DEF Fetched, List

LEMMA CalmWorkOnDir ==
  ASSUME TypeInv, NEW i \in Runs, CalmInv(i), Moves(i), Step(i), DistinctNames,
         MakeDir(i) \/ Enumerate(i) \/ Erase(i) \/ LookForDir(i) \/ RemoveDir(i)
  PROVE  CalmInv(i)'
<1>. USE DEF Over
<1>0. /\ pc \in [Runs -> Places] /\ k \in [Runs -> Nat \ {0}] /\ entries \in [Runs -> SUBSET TempNames]
      /\ served' = served
  BY DEF TypeInv, Moves
<1>1. CASE LookForDir(i)
  <2>1. /\ pc[i] = "sums" /\ UNCHANGED <<tmp, sums>>
        /\ pc'[i] = IF tmp = NoFile THEN "mkdir" ELSE "enumerate"
    BY <1>0, <1>1 DEF LookForDir, GoTo, filesVars
  <2>. QED BY <1>0, <2>1 DEF CalmInv, List
<1>2. CASE MakeDir(i)
  <2>1. pc[i] = "mkdir" /\ sums' = sums /\ tmp' = <<>> /\ pc'[i] = "enumerate"
    BY <1>0, <1>2 DEF MakeDir, GoTo
  <2>2. tmp' # NoFile
    BY <2>1, DirFacts
  <2>. QED BY <1>0, <2>1, <2>2 DEF CalmInv, List
<1>3. CASE Enumerate(i)
  <2>1. /\ pc[i] \in {"enumerate", "enumerateEnd"} /\ tmp # NoFile /\ UNCHANGED <<tmp, sums, k>>
        /\ entries'[i] = DOMAIN tmp
    BY <1>0, <1>3 DEF Enumerate, filesVars
  <2>5. \/ pc'[i] \in {"erase", "eraseEnd"}
        \/ DOMAIN tmp = {} /\ pc'[i] = AfterErase(i)
    <3>1. pc'[i] = CASE DOMAIN tmp = {} -> AfterErase(i)
                     [] pc[i] = "enumerate" -> "erase"
                     [] OTHER -> "eraseEnd"
      BY <1>0, <1>3 DEF Enumerate, GoTo
    <3>2. CASE DOMAIN tmp = {}
      BY <3>1, <3>2
    <3>3. CASE DOMAIN tmp # {}
      BY <3>1, <3>3
    <3>. QED BY <3>2, <3>3
  <2>2. CASE pc'[i] \in {"erase", "eraseEnd"}
    BY <1>0, <2>1, <2>2 DEF CalmInv, List
  <2>3. CASE DOMAIN tmp = {} /\ pc[i] = "enumerate" /\ pc'[i] = "fetch"
    <3>1. k'[i] = 1
      BY <2>1, <2>3 DEF TypeInv, PlaceInv
    <3>2. \A m \in 1 .. k'[i] - 1 : FALSE
      BY <3>1
    <3>. QED BY <1>0, <2>1, <2>3, <3>2 DEF CalmInv, List
  <2>4. CASE DOMAIN tmp = {} /\ pc'[i] = "rmdir"
    <3>1. tmp = <<>>
      BY <2>1, <2>4, DirFacts DEF TypeInv
    <3>. QED BY <1>0, <2>1, <2>4, <3>1 DEF CalmInv, List
  <2>. QED BY <2>1, <2>2, <2>3, <2>4, <2>5 DEF AfterErase
<1>4. CASE Erase(i)
  <2>1. PICK name \in entries[i] \cap DOMAIN tmp :
          /\ tmp' \in Dirs
          /\ DOMAIN tmp' = DOMAIN tmp \ {name}
          /\ entries' = [entries EXCEPT ![i] = @ \ {name}]
          /\ pc' = [pc EXCEPT ![i] = IF entries[i] = {name} THEN AfterErase(i) ELSE pc[i]]
    BY <1>4, EraseFacts
  <2>2. /\ pc[i] \in {"erase", "eraseEnd"} /\ UNCHANGED <<sums, k>> /\ entries[i] = DOMAIN tmp
    BY <1>4 DEF Erase, CalmInv
  <2>3. entries'[i] = DOMAIN tmp' /\ tmp' # NoFile
    BY <1>0, <2>1, <2>2, DirFacts
  <2>4. CASE entries[i] # {name}
    BY <1>0, <2>1, <2>2, <2>3, <2>4 DEF CalmInv, List
  <2>5. CASE entries[i] = {name}
    <3>1. tmp' = <<>>
      <4>1. DOMAIN tmp' = {}
        BY <2>1, <2>2, <2>5
      <4>. QED BY <2>1, <4>1, DirFacts
    <3>2. pc'[i] = AfterErase(i) /\ AfterErase(i) \in {"fetch", "rmdir"} /\ (pc[i] = "eraseEnd" => AfterErase(i) = "rmdir")
      BY <1>0, <2>1, <2>2, <2>5 DEF AfterErase
    <3>3. CASE pc'[i] = "rmdir"
      BY <1>0, <2>2, <2>3, <3>1, <3>3 DEF CalmInv, List
    <3>4. CASE pc[i] = "erase" /\ pc'[i] = "fetch"
      <4>1. k'[i] = 1
        BY <2>2, <3>4 DEF TypeInv, PlaceInv
      <4>2. \A m \in 1 .. k'[i] - 1 : FALSE
        BY <4>1
      <4>. QED BY <1>0, <2>2, <2>3, <3>4, <4>2 DEF CalmInv, List
    <3>. QED BY <2>2, <3>2, <3>3, <3>4
  <2>. QED BY <2>4, <2>5
<1>5. CASE RemoveDir(i)
  <2>1. pc'[i] = "done" /\ sums'[i] = <<>> /\ tmp' = NoFile
    BY <1>0, <1>5 DEF RemoveDir, Cleared, GoTo, TypeInv
  <2>2. \A m \in 1 .. Len(<<>>) : FALSE
    OBVIOUS
  <2>3. (\A m \in 1 .. Len(sums[i]) : sums[i][m] = List(Repos[m]))'
    BY <2>1, <2>2
  <2>. QED BY <2>1, <2>3 DEF CalmInv
<1>. QED BY <1>1, <1>2, <1>3, <1>4, <1>5

LEMMA CalmFetch ==
  ASSUME TypeInv, NEW i \in Runs, CalmInv(i), Moves(i), Step(i), DistinctNames,
         FetchSums(i) \/ SkipLocal(i) \/ CreateTemp(i) \/ Download(i) \/ OpenUrls(i)
  PROVE  CalmInv(i)'
<1>. USE DEF Over
<1>0. /\ pc \in [Runs -> Places] /\ k \in [Runs -> Nat \ {0}] /\ Len(Repos) \in Nat
      /\ layout' = layout /\ served' = served
      /\ \A r \in RepoSet : List(r)' = List(r)
  BY PublishedFacts DEF TypeInv, Moves, List
<1>1. CASE FetchSums(i)
  <2>1. PICK s, x : s = sums[i] /\ x = List(Repos[k[i]])
    OBVIOUS
  <2>2. s \in Seq(Texts) /\ k[i] = Len(s) + 1
    BY <1>1, <2>1 DEF FetchSums, TypeInv, PlaceInv
  <2>3. sums'[i] = Append(s, x) /\ pc'[i] = "sums"
    BY <1>1, <2>1 DEF FetchSums, TypeInv
  <2>4. \A m \in 1 .. Len(s) : s[m] = List(Repos[m])
    BY <2>1 DEF CalmInv
  <2>5. \A m \in 1 .. Len(Append(s, x)) : Append(s, x)[m] = List(Repos[m])
    BY <2>1, <2>2, <2>4
  <2>6. (\A m \in 1 .. Len(sums[i]) : sums[i][m] = List(Repos[m]))'
    BY <1>0, <2>3, <2>5 DEF List
  <2>. QED BY <2>3, <2>6 DEF CalmInv
<1>2. CASE SkipLocal(i)
  <2>1. pc[i] = "fetch" /\ pc' = pc /\ ~ RemoteAt(i) /\ k'[i] = k[i] + 1 /\ UNCHANGED <<tmp, sums>>
    BY <1>0, <1>2 DEF SkipLocal, filesVars
  <2>2. \A m \in 1 .. k[i] - 1 : Fetched(Repos[m])
    BY <2>1 DEF CalmInv
  <2>3. Fetched(Repos[k[i]])
    BY <2>1 DEF Fetched, RemoteAt
  <2>4. \A m \in 1 .. k[i] : Fetched(Repos[m])
    BY <1>0, <2>2, <2>3
  <2>5. k'[i] - 1 = k[i]
    BY <1>0, <2>1
  <2>6. (\A m \in 1 .. k[i] - 1 : Fetched(Repos[m]))'
    BY <1>0, <2>1, <2>4, <2>5 DEF Fetched, List
  <2>. QED BY <1>0, <2>1, <2>6 DEF CalmInv, List
<1>3. CASE CreateTemp(i)
  <2>1. pc[i] = "fetch" /\ pc'[i] = "download" /\ UNCHANGED <<k, sums>>
    BY <1>0, <1>3 DEF CreateTemp, GoTo
  <2>2. tmp' # NoFile /\ TempOf(i)' = TempOf(i) /\ TempOf(i) \in DOMAIN tmp' /\ tmp'[TempOf(i)].ino = fd'[i]
    BY <1>0, <1>3, <2>1, CreateTempFacts, DirFacts DEF TempOf
  <2>3. ASSUME NEW m \in 1 .. k[i] - 1, Repos[m] # Repos[k[i]] PROVE Fetched(Repos[m])'
    <3>1. Fetched(Repos[m]) /\ k[i] \in 1 .. Len(Repos)
      BY <1>3, <2>1, CreateTempFacts DEF CalmInv
    <3>2. Repos[m] \in RepoSet /\ Repos[k[i]] \in RepoSet
      BY <1>0, <1>3, <3>1, CreateTempFacts, PublishedFacts
    <3>3. CASE Repos[m] \in layout.local
      BY <1>0, <3>3 DEF Fetched
    <3>4. CASE Repos[m] \notin layout.local
      <4>1. layout.temp[Repos[m]] # TempOf(i) /\ layout.temp[Repos[m]] \in DOMAIN tmp
        BY <2>3, <3>1, <3>2, <3>4 DEF Fetched, DistinctNames, TempOf
      <4>2. /\ tmp' \in Dirs /\ layout.temp[Repos[m]] \in DOMAIN tmp'
            /\ tmp'[layout.temp[Repos[m]]] = tmp[layout.temp[Repos[m]]]
        BY <1>3, <4>1, CreateTempFacts
      <4>. QED BY <1>0, <3>1, <3>2, <4>2, StillFetched
    <3>. QED BY <3>3, <3>4
  <2>4. (\A m \in 1 .. k[i] - 1 : Repos[m] = Repos[k[i]] \/ Fetched(Repos[m]))'
    BY <2>1, <2>3
  <2>5. (\A m \in 1 .. Len(sums[i]) : sums[i][m] = List(Repos[m]))'
    BY <1>0, <2>1 DEF CalmInv, List
  <2>. QED BY <2>1, <2>2, <2>4, <2>5 DEF CalmInv
<1>4. CASE Download(i)
  <2>1. pc[i] = "download" /\ pc'[i] = "fetch" /\ k'[i] = k[i] + 1 /\ sums' = sums
    BY <1>0, <1>4 DEF Download, GoTo
  <2>2. TempOf(i) \in DOMAIN tmp /\ tmp[TempOf(i)].ino = fd[i] /\ tmp \in Dirs
    BY <2>1 DEF CalmInv, TypeInv
  <2>3. /\ k[i] \in 1 .. Len(Repos) /\ Repos[k[i]] \in RepoSet
        /\ TempOf(i) = layout.temp[Repos[k[i]]]
        /\ tmp' \in Dirs /\ DOMAIN tmp' = DOMAIN tmp
        /\ tmp'[TempOf(i)].text = List(Repos[k[i]])
        /\ \A n \in DOMAIN tmp : n # TempOf(i) => tmp'[n] = tmp[n]
    BY <1>4, <2>2, DownloadFacts
  <2>4. tmp' # NoFile
    BY <2>3, DirFacts
  <2>5. PICK r, n : r = Repos[k[i]] /\ n = k[i]
    OBVIOUS
  <2>11. Fetched(r)'
    <3>1. List(r)' = List(r)
      BY <1>0, <2>3, <2>5
    <3>2. layout.temp[r] \in DOMAIN tmp' /\ tmp'[layout.temp[r]].text = List(r)
      BY <2>2, <2>3, <2>5
    <3>. QED BY <1>0, <2>4, <3>1, <3>2 DEF Fetched
  <2>6. ASSUME NEW m \in 1 .. n, Repos[m] # r PROVE Fetched(Repos[m])'
    <3>1. m \in 1 .. k[i] - 1
      BY <2>3, <2>5, <2>6
    <3>2. Fetched(Repos[m])
      BY <2>1, <2>5, <2>6, <3>1 DEF CalmInv
    <3>3. Repos[m] \in RepoSet
      BY <1>0, <2>3, <3>1, PublishedFacts
    <3>4. CASE Repos[m] \in layout.local
      BY <1>0, <3>4 DEF Fetched
    <3>5. CASE Repos[m] \notin layout.local
      <4>1. layout.temp[Repos[m]] # TempOf(i) /\ layout.temp[Repos[m]] \in DOMAIN tmp
        BY <2>3, <2>5, <2>6, <3>2, <3>3, <3>5 DEF Fetched, DistinctNames
      <4>2. layout.temp[Repos[m]] \in DOMAIN tmp' /\ tmp'[layout.temp[Repos[m]]] = tmp[layout.temp[Repos[m]]]
        BY <2>3, <4>1
      <4>. QED BY <1>0, <2>3, <3>2, <3>3, <4>2, StillFetched
    <3>. QED BY <3>4, <3>5
  <2>7. \A m \in 1 .. n : Fetched(Repos[m])'
    <3>1. ASSUME NEW m \in 1 .. n PROVE Fetched(Repos[m])'
      <4>1. CASE Repos[m] = r
        BY <2>11, <4>1
      <4>. QED BY <2>6, <4>1
    <3>. QED BY <3>1
  <2>8. k'[i] - 1 = n
    BY <1>0, <2>1, <2>5
  <2>9. (\A m \in 1 .. k[i] - 1 : Fetched(Repos[m]))'
    BY <2>7, <2>8
  <2>10. (\A m \in 1 .. Len(sums[i]) : sums[i][m] = List(Repos[m]))'
    BY <1>0, <2>1 DEF CalmInv, List
  <2>. QED BY <2>1, <2>4, <2>9, <2>10 DEF CalmInv
<1>5. CASE OpenUrls(i)
  <2>1. pc[i] = "fetch" /\ pc'[i] = "verify" /\ k[i] > Len(Repos) /\ UNCHANGED <<tmp, sums>>
    BY <1>0, <1>5 DEF OpenUrls, GoTo
  <2>2. 1 .. Len(Repos) \subseteq 1 .. k[i] - 1
    BY <1>0, <2>1
  <2>3. \A m \in 1 .. Len(Repos) : Fetched(Repos[m])
    BY <2>1, <2>2 DEF CalmInv
  <2>4. (\A m \in 1 .. Len(Repos) : Fetched(Repos[m]))'
    BY <1>0, <2>1, <2>3 DEF Fetched, List
  <2>. QED BY <1>0, <2>1, <2>4 DEF CalmInv, List
<1>. QED BY <1>1, <1>2, <1>3, <1>4, <1>5

\* While it reads and writes, the directory stays.
LEMMA CalmRead ==
  ASSUME TypeInv, NEW i \in Runs, CalmInv(i), Moves(i), UNCHANGED <<tmp, sums>>,
         \/ pc[i] \in {"verify", "open", "read"} /\ pc'[i] \in {"verify", "open", "read", "sections"}
         \/ pc[i] = "sections" /\ pc'[i] \in {"sections", "enumerateEnd"}
  PROVE  CalmInv(i)'
<1>1. layout' = layout /\ served' = served
  BY DEF Moves
<1>2. (\A m \in 1 .. Len(sums[i]) : sums[i][m] = List(Repos[m]))'
  BY <1>1 DEF CalmInv, List
<1>3. tmp' # NoFile
  BY DEF CalmInv, Over
<1>4. pc[i] \in {"verify", "open", "read"} => (\A m \in 1 .. Len(Repos) : Fetched(Repos[m]))'
  BY <1>1 DEF CalmInv, Fetched, List
<1>. QED BY <1>2, <1>3, <1>4 DEF CalmInv

LEMMA CalmAct ==
  ASSUME TypeInv, TypeInv', NEW i \in Runs, CalmInv(i), Act(i), calm'[i], DistinctNames
  PROVE  CalmInv(i)'
<1>0. Moves(i) /\ pc \in [Runs -> Places] /\ sums \in [Runs -> Seq(Texts)]
  BY ActMoves DEF TypeInv
<1>1. CASE \/ Verify(i) \/ OpenList(i) \/ ReadPkg(i) \/ EndOfList(i) \/ OpenSnapshot(i) \/ SaveSection(i)
  <2>1. UNCHANGED <<tmp, sums>>
    BY <1>1 DEF Verify, OpenList, ReadPkg, EndOfList, OpenSnapshot, SaveSection, filesVars
  <2>2. \/ pc[i] \in {"verify", "open", "read"} /\ pc'[i] \in {"verify", "open", "read", "sections"}
        \/ pc[i] = "sections" /\ pc'[i] \in {"sections", "enumerateEnd"}
    BY <1>0, <1>1 DEF Verify, OpenList, ReadPkg, EndOfList, OpenSnapshot, SaveSection, GoTo
  <2>. QED BY <1>0, <2>1, <2>2, CalmRead
<1>2. CASE Refused(i)
  BY <1>2, CalmIsNotRefused DEF Refused
<1>3. CASE Kill(i)
  <2>1. pc'[i] = "killed"
    BY <1>0, <1>3 DEF Kill, GoTo
  <2>2. (pc[i] \in Over \ {"failed", "done"})'
    BY <2>1 DEF Over
  <2>3. sums'[i] = <<>>
    BY <1>0, <1>3 DEF Kill, Cleared
  <2>4. \A m \in 1 .. Len(<<>>) : FALSE
    OBVIOUS
  <2>5. (\A m \in 1 .. Len(sums[i]) : sums[i][m] = List(Repos[m]))'
    BY <2>3, <2>4
  <2>. QED BY <2>1, <2>5 DEF CalmInv, Over
<1>4. CASE NetworkFails(i)
  <2>1. ~ calm'[i]
    BY <1>4 DEF NetworkFails, TypeInv
  <2>. QED BY <2>1
<1>5. CASE DiskFails(i)
  <2>1. UNCHANGED <<layout, served, tmp, pc, k, sums, entries, fd>> /\ pc[i] \in {"read", "sections"}
    BY <1>5 DEF DiskFails, filesVars
  <2>. QED BY <1>0, <2>1, CalmRead
<1>6. CASE \/ FetchSums(i) \/ LookForDir(i) \/ MakeDir(i) \/ Enumerate(i) \/ Erase(i)
           \/ SkipLocal(i) \/ CreateTemp(i) \/ Download(i) \/ OpenUrls(i) \/ RemoveDir(i)
  <2>1. Step(i)
    BY <1>6 DEF Step
  <2>. QED BY <1>0, <1>6, <2>1, CalmWorkOnDir, CalmFetch
<1>. QED BY <1>1, <1>2, <1>3, <1>4, <1>5, <1>6 DEF Act, Step

LEMMA CalmStep ==
  ASSUME TypeInv, OrderInv, CalmRunsInv, UpdateNext
  PROVE  CalmRunsInv'
<1>1. ASSUME NEW i \in Runs, Act(i) PROVE CalmRunsInv'
  <2>1. TypeInv'
    BY TypeStep
  <2>2. ASSUME calm'[i], DistinctNames' PROVE CalmInv(i)'
    <3>1. calm[i] /\ DistinctNames
      BY <1>1, <2>2, ActMoves DEF Moves, DistinctNames
    <3>. QED BY <1>1, <2>1, <2>2, <3>1, CalmAct DEF CalmRunsInv
  <2>3. \A j \in Runs \ {i} : calm'[j] /\ DistinctNames' => CalmInv(j)'
    BY <1>1, <2>1, OtherCalm
  <2>. QED BY <2>2, <2>3 DEF CalmRunsInv
<1>2. Publish \/ \E i \in Runs : Start(i) \/ Act(i)
  BY DEF UpdateNext, Act
<1>. QED BY <1>1, <1>2, CalmStart, CalmPublish

LEMMA CalmInit ==
  ASSUME Init
  PROVE  CalmRunsInv
<1>1. ASSUME NEW i \in Runs PROVE CalmInv(i)
  <2>1. pc[i] = "idle"
    BY DEF Init
  <2>2. TypeInv
    BY TypeInit
  <2>. QED BY <2>1, <2>2, CalmOver DEF Over
<1>. QED BY <1>1 DEF CalmRunsInv

-----------------------------------------------------------------------------
(***************************************************************************)
(* The reader                                                              *)
(***************************************************************************)

\* Some set of positions has a last one.
LEMMA LastExists ==
  ASSUME NEW n \in Nat, NEW S \in SUBSET (1 .. n), S # {}
  PROVE  \E m \in S : \A j \in S : j <= m
<1>. DEFINE Above == {u \in Nat : \A j \in S : j <= u}
<1>1. n \in Above
  OBVIOUS
<1>2. IsWellFoundedOn(OpToRel(<, Nat), Nat)
  BY NatLessThanWellFounded
<1>3. PICK R : R = OpToRel(<, Nat)
  OBVIOUS
<1>4. Above \subseteq Nat /\ Above # {}
  BY <1>1
<1>5. \E u \in Above : \A v \in Above : ~ (<<v, u>> \in R)
  <2>. HIDE DEF Above
  <2>. QED BY <1>2, <1>3, <1>4, WFMin
<1>6. PICK u \in Above : \A v \in Above : <<v, u>> \notin R
  BY <1>5
<1>7. \A v \in Above : ~ (v < u)
  BY <1>3, <1>6 DEF OpToRel
<1>8. u \in Nat /\ \A j \in S : j <= u
  BY <1>6
<1>9. u \in S
  <2>. SUFFICES ASSUME u \notin S PROVE FALSE
    OBVIOUS
  <2>1. \A j \in S : j \in Nat \ {0} /\ j < u
    BY <1>8
  <2>2. u - 1 \in Nat
    <3>1. PICK j \in S : TRUE
      OBVIOUS
    <3>2. u \in Nat /\ j \in Nat \ {0} /\ j < u
      BY <1>8, <2>1, <3>1
    <3>. QED BY <3>2
  <2>3. u - 1 \in Above
    BY <2>1, <2>2, <1>8
  <2>4. u - 1 < u
    BY <1>8
  <2>. QED BY <1>7, <2>3, <2>4
<1>. QED BY <1>8, <1>9

LEMMA LinesFacts ==
  \A l \in Lines :
    /\ l # Hole
    /\ l.pkg \in Packages /\ l.url \in RepoSet \X Packages
    /\ l.url[2] = l.pkg /\ l.url # NoUrl
<1>1. ASSUME NEW l \in Lines
      PROVE  /\ l # Hole
             /\ l.pkg \in Packages /\ l.url \in RepoSet \X Packages
             /\ l.url[2] = l.pkg /\ l.url # NoUrl
  <2>1. PICK p \in Packages, r \in RepoSet : l = LineOf(p, <<r, p>>)
    BY DEF Lines
  <2>2. l.pkg = p /\ l.url = <<r, p>>
    BY <2>1 DEF LineOf
  <2>3. <<r, p>> \in RepoSet \X Packages
    BY <2>1
  <2>. QED BY <2>2, <2>3, NothingAssumption
<1>. QED BY <1>1

\* The URL of a package comes from a line of it, and there is one if there
\* is a line.
LEMMA UrlInFacts ==
  ASSUME NEW file \in Seq(Lines \cup {Hole}), NEW p
  PROVE  \/ UrlIn(file, p) = NoUrl /\ \A n \in DOMAIN file : file[n] = Hole \/ file[n].pkg # p
         \/ \E n \in DOMAIN file :
              /\ file[n] \in Lines /\ file[n].pkg = p
              /\ UrlIn(file, p) = file[n].url
<1>1. \A n \in DOMAIN file : file[n] = Hole \/ file[n] \in Lines
  OBVIOUS
<1>2. CASE LinesFor(file, p) = {}
  <2>1. UrlIn(file, p) = NoUrl
    BY <1>2 DEF UrlIn
  <2>2. \A n \in DOMAIN file : file[n] = Hole \/ file[n].pkg # p \/ file[n].url = NoUrl
    BY <1>2 DEF LinesFor
  <2>. QED BY <1>1, <2>1, <2>2, LinesFacts
<1>3. CASE LinesFor(file, p) # {}
  <2>1. PICK S : S = LinesFor(file, p)
    OBVIOUS
  <2>2. S \subseteq 1 .. Len(file) /\ Len(file) \in Nat /\ DOMAIN file = 1 .. Len(file)
    BY <2>1 DEF LinesFor
  <2>3. \E m \in S : \A j \in S : j <= m
    BY <1>3, <2>1, <2>2, LastExists
  <2>4. PICK m : m = CHOOSE i \in S : \A j \in S : j <= i
    OBVIOUS
  <2>5. m \in S
    BY <2>3, <2>4
  <2>6. UrlIn(file, p) = file[m].url
    BY <1>3, <2>1, <2>4 DEF UrlIn
  <2>7. m \in DOMAIN file /\ file[m] # Hole /\ file[m].pkg = p
    BY <2>1, <2>5 DEF LinesFor
  <2>. QED BY <1>1, <2>6, <2>7
<1>. QED BY <1>2, <1>3

LEMMA UrlInType ==
  ASSUME NEW file \in Seq(Lines \cup {Hole}), NEW p
  PROVE  UrlIn(file, p) \in (RepoSet \X Packages) \cup {NoUrl}
  BY UrlInFacts, LinesFacts

LEMMA LoadedPackages ==
  ASSUME parts \in Seq(Sects)
  PROVE  Loaded \subseteq Packages
<1>1. \A p \in DOMAIN parts : parts[p] \in Sects
  OBVIOUS
<1>2. \A x \in Sects : x.pkgs \subseteq Packages
  BY DEF Sects
<1>. QED BY <1>1, <1>2 DEF Loaded

LEMMA OffersPackages ==
  \A S \in Offers : S \subseteq Packages
<1>1. ASSUME NEW g \in Generations, NEW m \in 1 .. Len(Repos)
      PROVE  RangeOf(Published[Repos[m]][g[m]]) \subseteq Packages
  <2>1. m \in DOMAIN Repos /\ Repos[m] \in RepoSet
    BY ReposAssumption, PublishedFacts
  <2>2. g[m] \in DOMAIN Published[Repos[m]]
    BY <2>1 DEF Generations
  <2>3. Published[Repos[m]][g[m]] \in RangeOf(Published[Repos[m]])
    BY <2>2 DEF RangeOf
  <2>. QED BY <2>1, <2>3, PublishedFacts
<1>2. \A g \in Generations : Together(g, Len(Repos)) \subseteq Packages
  BY <1>1 DEF Together
<1>. QED BY <1>2 DEF Offers

\* A step of the reader leaves what runs of ds-update are about.
LEMMA UpdateIdle ==
  ASSUME TypeInv, OrderInv, TmpInv, WorkInv, FilesInv, CalmRunsInv, UNCHANGED updateVars
  PROVE  TypeInv' /\ OrderInv' /\ TmpInv' /\ WorkInv' /\ FilesInv' /\ CalmRunsInv'
<1>. USE DEF updateVars, filesVars, runVars, ghostVars
<1>1. TypeInv'
  BY DEF TypeInv, PlaceInv, RemoteAt
<1>2. OrderInv'
  BY DEF OrderInv, Running, Last
<1>3. TmpInv'
  BY DEF TmpInv
<1>4. WorkInv'
  <2>1. ASSUME NEW i \in Runs PROVE (Verified(i) /\ (alone[i] => Collected(i) /\ Written(i)))'
    <3>1. Verified(i) /\ (alone[i] => Collected(i) /\ Written(i))
      BY DEF WorkInv
    <3>2. Verified(i)'
      BY <3>1 DEF Verified, FileOf, RemoteAt, List, TempOf, DistinctNames
    <3>3. Collected(i)' = Collected(i)
      BY DEF Collected
    <3>4. Written(i)' = Written(i)
      BY DEF Written
    <3>. QED BY <3>1, <3>2, <3>3, <3>4
  <2>. QED BY <2>1 DEF WorkInv
<1>5. FilesInv'
  BY DEF FilesInv, EndedWell, Last, DistinctNames
<1>6. CalmRunsInv'
  <2>1. ASSUME NEW i \in Runs PROVE (calm[i] /\ DistinctNames => CalmInv(i))'
    <3>1. calm[i] /\ DistinctNames => CalmInv(i)
      BY DEF CalmRunsInv
    <3>2. CalmInv(i)' = CalmInv(i)
      BY DEF CalmInv, Fetched, TempOf, List, Last
    <3>. QED BY <3>1, <3>2 DEF DistinctNames
  <2>. QED BY <2>1 DEF CalmRunsInv
<1>. QED BY <1>1, <1>2, <1>3, <1>4, <1>5, <1>6

\* No run of ds-update that a quiet reader is beside takes a step.
LEMMA ReaderBesideUpdate ==
  ASSUME TypeInv, ReaderInv, UpdateNext,
         quiet' = (at = "idle" \/ (quiet /\ Running' = {})), UNCHANGED <<kind, at, parts, found>>
  PROVE  ReaderInv'
<1>1. ReaderTypeInv'
  BY DEF ReaderInv, ReaderTypeInv
<1>2. ASSUME quiet', at # "idle" PROVE Taken'
  <2>1. quiet /\ Running' = {} /\ Taken
    BY <1>2 DEF ReaderInv, ReaderTypeInv
  <2>2. Running = {}
    BY <2>1 DEF Taken
  <2>3. ASSUME NEW i \in Runs, Act(i) PROVE FALSE
    BY <2>2, <2>3, ActMoves DEF Moves
  <2>4. ASSUME NEW i \in Runs, Start(i) PROVE FALSE
    <3>1. pc'[i] = "sums"
      BY <2>4 DEF Start, GoTo, TypeInv
    <3>2. i \in Running'
      BY <3>1 DEF Running, Over
    <3>. QED BY <2>1, <3>2
  <2>5. Publish
    BY <2>3, <2>4 DEF UpdateNext, Act
  <2>6. UNCHANGED <<urls, snapshot, pc>>
    BY <2>5 DEF Publish, filesVars, runVars
  <2>7. Running' = {}
    BY <2>1
  <2>8. Stuck' = Stuck /\ Loaded' = Loaded
    BY <2>6 DEF Stuck, Loaded
  <2>9. UNCHANGED <<urls, snapshot, kind, at, parts, found, Running, Stuck, Loaded>>
    BY <2>2, <2>6, <2>7, <2>8
  <2>. QED BY <2>1, <2>9 DEF Taken
<1>. QED BY <1>1, <1>2 DEF ReaderInv

LEMMA NothingIsFound ==
  NotFound \in [DOMAIN Asked -> UNION {[D -> (RepoSet \X Packages) \cup {NoUrl}] : D \in SUBSET Packages}]
<1>1. <<>> \in [{} -> (RepoSet \X Packages) \cup {NoUrl}]
  OBVIOUS
<1>2. <<>> \in UNION {[D -> (RepoSet \X Packages) \cup {NoUrl}] : D \in SUBSET Packages}
  BY <1>1
<1>. QED BY <1>2 DEF NotFound

LEMMA ReaderInit ==
  ASSUME PackageDataInit
  PROVE  ReaderInv
<1>1. at = "idle" /\ parts = <<>> /\ found = NotFound /\ quiet = TRUE
  BY DEF PackageDataInit
<1>. QED BY <1>1, NothingIsFound DEF ReaderInv, ReaderTypeInv

LEMMA ReaderBegin ==
  ASSUME ReaderInv, Begin, UNCHANGED updateVars
  PROVE  ReaderInv'
<1>1. /\ at' = "load" /\ UNCHANGED <<kind, parts, found>> /\ quiet' = (Running = {})
      /\ parts = <<>> /\ found = NotFound
      /\ UNCHANGED <<snapshot, urls, pc>>
  BY DEF ReaderInv, Begin, updateVars, filesVars, runVars
<1>2. ReaderTypeInv'
  BY <1>1 DEF ReaderInv, ReaderTypeInv
<1>3. ASSUME quiet' PROVE Taken'
  <2>1. Running' = {}
    BY <1>1, <1>3 DEF Running
  <2>2. parts' = <<>> /\ Len(<<>>) = 0 /\ \A p \in 1 .. 0 : FALSE
    BY <1>1
  <2>3. \A p \in 1 .. Len(parts') : parts'[p] = snapshot'[p]
    BY <2>2
  <2>4. \A c \in DOMAIN Asked : found'[c] = <<>>
    BY <1>1 DEF NotFound
  <2>. QED BY <1>1, <2>1, <2>2, <2>3, <2>4 DEF Taken
<1>. QED BY <1>1, <1>2, <1>3 DEF ReaderInv

LEMMA ReaderLoad ==
  ASSUME TypeInv, ReaderInv, LoadPart, UNCHANGED updateVars
  PROVE  ReaderInv'
<1>1. UNCHANGED <<snapshot, urls, pc, kind, found, quiet>>
  BY DEF LoadPart, updateVars, filesVars, runVars
<1>2. /\ at = "load" /\ snapshot # NoFile
      /\ Len(parts) + 1 \in DOMAIN snapshot /\ snapshot[Len(parts) + 1] # Hole
      /\ parts' = Append(parts, snapshot[Len(parts) + 1])
      /\ at' = IF Len(parts) + 1 < Sections(parts'[1].pkgs) THEN "load" ELSE "read"
  BY DEF LoadPart
<1>3. PICK old, p, x : old = parts /\ p = Len(parts) + 1 /\ x = snapshot[Len(parts) + 1]
  OBVIOUS
<1>4. old \in Seq(Sects) /\ p = Len(old) + 1 /\ p \in 1 .. Len(snapshot) /\ x \in Sects
  BY <1>2, <1>3 DEF TypeInv, ReaderInv, ReaderTypeInv
<1>5. /\ parts' = Append(old, x) /\ Append(old, x) \in Seq(Sects) /\ Append(old, x) # <<>>
      /\ Len(Append(old, x)) = p
      /\ \A q \in 1 .. p : Append(old, x)[q] = IF q = p THEN x ELSE old[q]
  BY <1>2, <1>3, <1>4
<1>6. ReaderTypeInv'
  BY <1>1, <1>5 DEF ReaderInv, ReaderTypeInv
<1>7. found = NotFound /\ at' \in {"load", "read"}
  BY <1>2 DEF ReaderInv
<1>8. ASSUME quiet' PROVE Taken'
  <2>1. Taken
    BY <1>1, <1>2, <1>8 DEF ReaderInv
  <2>2. Running' = {}
    BY <1>1, <2>1 DEF Taken, Running
  <2>3. snapshot' # NoFile /\ Len(parts') <= Len(snapshot')
    BY <1>1, <1>2, <1>4, <1>5
  <2>4. ASSUME NEW q \in 1 .. p PROVE Append(old, x)[q] = snapshot[q]
    <3>1. CASE q = p
      BY <1>2, <1>3, <1>5, <3>1
    <3>2. CASE q # p
      <4>1. q \in 1 .. Len(old)
        BY <1>4, <3>2
      <4>2. old[q] = snapshot[q]
        BY <1>3, <2>1, <4>1 DEF Taken
      <4>. QED BY <1>5, <3>2, <4>2
    <3>. QED BY <3>1, <3>2
  <2>5. \A q \in 1 .. Len(parts') : parts'[q] = snapshot'[q]
    BY <1>1, <1>5, <2>4
  <2>6. p <= Sections(parts'[1].pkgs)
    <3>1. CASE old = <<>>
      <4>1. p = 1
        BY <1>4, <3>1
      <4>2. Sections(parts'[1].pkgs) \in {1, 3}
        BY DEF Sections
      <4>. QED BY <4>1, <4>2
    <3>2. CASE old # <<>>
      <4>1. 1 \in 1 .. p /\ 1 # p
        BY <1>4, <3>2
      <4>2. parts'[1] = parts[1]
        BY <1>3, <1>5, <4>1
      <4>3. Len(parts) < Sections(parts[1].pkgs)
        BY <1>2, <1>3, <2>1, <3>2 DEF Taken
      <4>4. Sections(parts[1].pkgs) \in {1, 3} /\ Len(parts) = p - 1 /\ p \in Nat
        BY <1>3, <1>4 DEF Sections
      <4>. QED BY <4>2, <4>3, <4>4
    <3>. QED BY <3>1, <3>2
  <2>7. Sections(parts'[1].pkgs) \in Nat /\ p \in Nat
    BY <1>4 DEF Sections
  <2>8. IF at' = "load" THEN Len(parts') < Sections(parts'[1].pkgs) ELSE Len(parts') = Sections(parts'[1].pkgs)
    BY <1>2, <1>3, <1>5, <2>6, <2>7
  <2>9. \A c \in DOMAIN Asked : found'[c] = <<>>
    BY <1>1, <1>7 DEF NotFound
  <2>. QED BY <1>5, <1>7, <2>2, <2>3, <2>5, <2>8, <2>9 DEF Taken
<1>. QED BY <1>1, <1>6, <1>7, <1>8 DEF ReaderInv

\* What holds of the files and of what was read stays.
LEMMA StillTaken ==
  ASSUME UNCHANGED updateVars, UNCHANGED <<parts, found>>
  PROVE  /\ UNCHANGED <<snapshot, urls, Running, Loaded, Stuck>>
         /\ ReaderTypeInv /\ quiet' = quiet => ReaderTypeInv'
  BY DEF updateVars, filesVars, runVars, Running, Loaded, Stuck, ReaderTypeInv

LEMMA ReaderLoadFails ==
  ASSUME ReaderInv, LoadFails, UNCHANGED updateVars
  PROVE  ReaderInv'
<1>1. at = "load" /\ at' = "aborted" /\ UNCHANGED <<kind, parts, found, quiet>> /\ Stuck
  BY DEF LoadFails, Stuck
<1>2. found' = NotFound /\ ReaderTypeInv'
  BY <1>1, StillTaken DEF ReaderInv
<1>3. ASSUME quiet' PROVE Taken'
  <2>1. Taken
    BY <1>1, <1>3 DEF ReaderInv
  <2>2. UNCHANGED <<snapshot, urls, Running, Loaded, Stuck>>
    BY <1>1, StillTaken
  <2>. QED BY <1>1, <2>1, <2>2 DEF Taken
<1>. QED BY <1>1, <1>2, <1>3 DEF ReaderInv

LEMMA ReaderAnswer ==
  ASSUME ReaderInv, Answer, UNCHANGED updateVars
  PROVE  ReaderInv'
<1>1. /\ at = "read" /\ at' \in {"refused", "aborted", "urls", "ready"}
      /\ UNCHANGED <<parts, found, quiet>>
      /\ at' = "aborted" => kind' = "query" /\ Loaded = {} /\ Installed # {}
  BY DEF Answer
<1>2. found' = NotFound /\ ReaderTypeInv'
  BY <1>1, StillTaken DEF ReaderInv
<1>3. ASSUME quiet' PROVE Taken'
  <2>1. Taken
    BY <1>1, <1>3 DEF ReaderInv
  <2>2. UNCHANGED <<snapshot, urls, Running, Loaded, Stuck>>
    BY <1>1, StillTaken
  <2>3. \A c \in DOMAIN Asked : DOMAIN found'[c] = {}
    BY <1>2 DEF NotFound
  <2>4. at' = "ready" => \A c \in DOMAIN Asked : \A p \in DOMAIN found'[c] : found'[c][p] # NoUrl
    BY <2>3
  <2>. QED BY <1>1, <2>1, <2>2, <2>4 DEF Taken
<1>. QED BY <1>1, <1>2, <1>3 DEF ReaderInv

LEMMA ReaderReadsUrls ==
  ASSUME TypeInv, ReaderInv, ReadUrls, UNCHANGED updateVars
  PROVE  ReaderInv'
<1>1. /\ at = "urls" /\ urls # NoFile /\ UNCHANGED <<kind, at, parts, quiet>>
      /\ UNCHANGED <<snapshot, urls, pc>>
  BY DEF ReadUrls, updateVars, filesVars, runVars
<1>2. PICK c \in DOMAIN Asked :
        found' = [found EXCEPT ![c] = [p \in Asked[c] \cap Loaded |-> UrlIn(urls, p)]]
  BY DEF ReadUrls
<1>3. Loaded \subseteq Packages /\ Loaded' = Loaded
  BY <1>1, LoadedPackages DEF ReaderInv, ReaderTypeInv, Loaded
<1>4. urls \in Seq(Lines \cup {Hole})
  BY <1>1 DEF TypeInv
<1>5. PICK f : f = [p \in Asked[c] \cap Loaded |-> UrlIn(urls, p)]
  OBVIOUS
<1>6. f \in [Asked[c] \cap Loaded -> (RepoSet \X Packages) \cup {NoUrl}]
  <2>1. \A p : UrlIn(urls, p) \in (RepoSet \X Packages) \cup {NoUrl}
    <3>1. PICK file : file = urls
      OBVIOUS
    <3>2. \A p : UrlIn(file, p) \in (RepoSet \X Packages) \cup {NoUrl}
      BY <1>4, <3>1, UrlInType
    <3>. QED BY <3>1, <3>2
  <2>. QED BY <1>5, <2>1
<1>7. Asked[c] \cap Loaded \in SUBSET Packages
  BY <1>3
<1>8. f \in UNION {[D -> (RepoSet \X Packages) \cup {NoUrl}] : D \in SUBSET Packages}
  BY <1>6, <1>7
<1>9. ReaderTypeInv'
  BY <1>1, <1>2, <1>5, <1>8 DEF ReaderInv, ReaderTypeInv
<1>10. ASSUME quiet' PROVE Taken'
  <2>1. Taken
    BY <1>1, <1>10 DEF ReaderInv
  <2>2. Running' = Running /\ Stuck' = Stuck
    BY <1>1 DEF Running, Stuck
  <2>3. ASSUME NEW d \in DOMAIN Asked
        PROVE  found'[d] = <<>> \/ (urls' # NoFile /\ found'[d] = [p \in Asked[d] \cap Loaded' |-> UrlIn(urls', p)])
    <3>1. CASE d = c
      <4>1. found'[c] = [p \in Asked[c] \cap Loaded |-> UrlIn(urls, p)]
        BY <1>2 DEF ReaderInv, ReaderTypeInv
      <4>. QED BY <1>1, <1>3, <3>1, <4>1
    <3>2. CASE d # c
      <4>1. found'[d] = found[d]
        BY <1>2, <3>2 DEF ReaderInv, ReaderTypeInv
      <4>2. found[d] = <<>> \/ (urls # NoFile /\ found[d] = [p \in Asked[d] \cap Loaded |-> UrlIn(urls, p)])
        BY <2>1 DEF Taken
      <4>. QED BY <1>1, <1>3, <4>1, <4>2
    <3>. QED BY <3>1, <3>2
  <2>. QED BY <1>1, <2>1, <2>2, <2>3 DEF Taken
<1>. QED BY <1>1, <1>9, <1>10 DEF ReaderInv

LEMMA ReaderHasUrls ==
  ASSUME ReaderInv, UrlsRead, UNCHANGED updateVars
  PROVE  ReaderInv'
<1>1. at = "urls" /\ at' \in {"noUrl", "ready"} /\ UNCHANGED <<kind, parts, found, quiet>>
  BY DEF UrlsRead
<1>2. /\ at' = "ready" => \A c \in DOMAIN Asked : \A p \in DOMAIN found[c] : found[c][p] # NoUrl
      /\ at' = "noUrl" => urls = NoFile \/ \E c \in DOMAIN Asked : \E p \in DOMAIN found[c] : found[c][p] = NoUrl
  BY DEF UrlsRead
<1>3. ReaderTypeInv'
  BY <1>1, StillTaken DEF ReaderInv
<1>4. ASSUME quiet' PROVE Taken'
  <2>1. Taken
    BY <1>1, <1>4 DEF ReaderInv
  <2>2. UNCHANGED <<snapshot, urls, Running, Loaded, Stuck>>
    BY <1>1, StillTaken
  <2>. QED BY <1>1, <1>2, <2>1, <2>2 DEF Taken
<1>. QED BY <1>1, <1>3, <1>4 DEF ReaderInv

LEMMA ReaderEnd ==
  ASSUME End
  PROVE  ReaderInv'
<1>1. at' = "idle" /\ parts' = <<>> /\ found' = NotFound /\ quiet' = TRUE
  BY DEF End
<1>2. NotFound \in [DOMAIN Asked -> UNION {[D -> (RepoSet \X Packages) \cup {NoUrl}] : D \in SUBSET Packages}]
  BY NothingIsFound
<1>. QED BY <1>1, <1>2 DEF ReaderInv, ReaderTypeInv

LEMMA ReaderStep ==
  ASSUME TypeInv, ReaderInv, ReaderNext, UNCHANGED updateVars
  PROVE  ReaderInv'
  BY ReaderBegin, ReaderLoad, ReaderLoadFails, ReaderAnswer, ReaderReadsUrls, ReaderHasUrls, ReaderEnd
     DEF ReaderNext

-----------------------------------------------------------------------------
(***************************************************************************)
(* The theorems                                                            *)
(***************************************************************************)

\* Whatever runs of ds-update overlap, are killed or fail, and whatever a
\* reader does beside them: the files are what the runs before have left, each
\* run and the reader hold what they have taken from them.
THEOREM PackageDataIsInductive == PackageDataSpec => []PackageDataInv
<1>1. PackageDataInit => PackageDataInv
  <2>. SUFFICES ASSUME PackageDataInit PROVE PackageDataInv
    OBVIOUS
  <2>1. Init
    BY DEF PackageDataInit
  <2>2. TmpInv
    BY <2>1 DEF Init, TmpInv
  <2>. QED BY <2>1, <2>2, TypeInit, OrderInit, WorkInit, FilesInit, CalmInit, ReaderInit DEF PackageDataInv
<1>2. PackageDataInv /\ [PackageDataNext]_vars => PackageDataInv'
  <2>. SUFFICES ASSUME PackageDataInv, [PackageDataNext]_vars PROVE PackageDataInv'
    OBVIOUS
  <2>. USE DEF PackageDataInv
  <2>1. CASE UpdateNext /\ quiet' = (at = "idle" \/ (quiet /\ Running' = {})) /\ UNCHANGED <<kind, at, parts, found>>
    BY <2>1, TypeStep, OrderStep, TmpStep, WorkStep, FilesStep, CalmStep, ReaderBesideUpdate
  <2>2. CASE ReaderNext /\ UNCHANGED updateVars
    BY <2>2, UpdateIdle, ReaderStep
  <2>3. CASE UNCHANGED vars
    <3>1. UNCHANGED updateVars /\ UNCHANGED <<kind, at, parts, found, quiet>>
      BY <2>3 DEF vars, readerVars
    <3>2. ReaderTypeInv'
      BY <3>1, StillTaken DEF ReaderInv
    <3>3. Taken => Taken'
      <4>1. UNCHANGED <<snapshot, urls, Running, Loaded, Stuck>>
        BY <3>1, StillTaken
      <4>. QED BY <3>1, <4>1 DEF Taken
    <3>. QED BY <3>1, <3>2, <3>3, UpdateIdle DEF ReaderInv
  <2>. QED BY <2>1, <2>2, <2>3 DEF PackageDataNext
<1>. QED BY <1>1, <1>2, PTL DEF PackageDataSpec

\* What has been read is of one snapshot.
LEMMA LoadedIs ==
  ASSUME ReaderInv, Taken, NEW S, Begins(snapshot, S), parts # <<>>
  PROVE  /\ Loaded = S /\ parts[1].pkgs = S
         /\ \A p \in DOMAIN parts : parts[p] = [part |-> p, pkgs |-> S]
<1>1. parts \in Seq(Sects) /\ 1 \in DOMAIN parts
  BY DEF ReaderInv, ReaderTypeInv
<1>2. \A p \in DOMAIN parts : p \in DOMAIN snapshot /\ parts[p] = snapshot[p]
  <2>1. DOMAIN parts = 1 .. Len(parts) /\ Len(parts) \in Nat
    BY <1>1
  <2>2. Len(snapshot) <= Sections(S) /\ \A q \in DOMAIN snapshot : snapshot[q] = [part |-> q, pkgs |-> S]
    BY DEF Begins
  <2>3. Len(parts) <= Len(snapshot) /\ \A p \in 1 .. Len(parts) : parts[p] = snapshot[p]
    BY DEF Taken
  <2>. QED BY <2>1, <2>3
<1>3. \A p \in DOMAIN parts : parts[p] = [part |-> p, pkgs |-> S]
  BY <1>2 DEF Begins
<1>4. \A p \in DOMAIN parts : parts[p].pkgs = S
  BY <1>3
<1>5. Loaded = S
  BY <1>1, <1>4 DEF Loaded
<1>. QED BY <1>1, <1>3, <1>4, <1>5

\* No line of the file of URLs names a repository that never had the package,
\* for any repositories and layouts, whatever runs overlap and wherever they
\* are killed, as long as the files have names of their own or no runs have
\* overlapped since the last good one.
THEOREM NoWrongUrl == PackageDataSpec => []UrlsPointToPublished
<1>1. PackageDataInv => UrlsPointToPublished
  BY DEF PackageDataInv, FilesInv, UrlsGood, UrlsPointToPublished
<1>. QED BY <1>1, PackageDataIsInductive, PTL

\* A run that nothing disturbs succeeds and removes its directory, whatever
\* the runs before it have left there.
THEOREM CalmRunsEndWell == PackageDataSpec => []CalmUpdateSucceeds
<1>1. PackageDataInv => CalmUpdateSucceeds
  <2>. SUFFICES ASSUME PackageDataInv, NEW i \in Runs, calm[i], DistinctNames
                PROVE  /\ pc[i] # "failed"
                       /\ pc[i] = "done" /\ (\A j \in i + 1 .. MaxRuns : pc[j] = "idle") => tmp = NoFile
    BY DEF CalmUpdateSucceeds
  <2>1. CalmInv(i)
    BY DEF PackageDataInv, CalmRunsInv
  <2>2. pc[i] = "done" /\ (\A j \in i + 1 .. MaxRuns : pc[j] = "idle") => Last(i)
    BY RunsAssumption DEF Last, Runs
  <2>. QED BY <2>1, <2>2 DEF CalmInv
<1>. QED BY <1>1, PackageDataIsInductive, PTL

\* A reader beside no run of ds-update is given one whole offer of the
\* repositories, with good URLs, whatever earlier runs were killed or failed.
THEOREM QuietReaders == PackageDataSpec => []QuietReaderIsServed
<1>1. PackageDataInv => QuietReaderIsServed
  <2>. SUFFICES ASSUME PackageDataInv, quiet, at = "ready", ~ disturbed
                PROVE  /\ DOMAIN parts = 1 .. Sections(Loaded)
                       /\ \A p \in DOMAIN parts : parts[p] = [part |-> p, pkgs |-> Loaded]
                       /\ Loaded \in Offers
                       /\ \A c \in DOMAIN Asked : \A p \in DOMAIN found[c] :
                            found[c][p][2] = p /\ p \in EverPublished(found[c][p][1])
    BY DEF QuietReaderIsServed
  <2>1. TypeInv /\ FilesInv /\ ReaderInv /\ Taken
    BY DEF PackageDataInv, ReaderInv
  <2>2. parts # <<>> /\ Len(parts) = Sections(parts[1].pkgs) /\ snapshot # NoFile /\ parts \in Seq(Sects)
    BY <2>1 DEF Taken, ReaderInv, ReaderTypeInv
  <2>3. PICK S \in Offers : Begins(snapshot, S)
    BY <2>1, <2>2 DEF FilesInv
  <2>4. /\ Loaded = S /\ parts[1].pkgs = S
        /\ \A p \in DOMAIN parts : parts[p] = [part |-> p, pkgs |-> S]
    BY <2>1, <2>2, <2>3, LoadedIs
  <2>5. DOMAIN parts = 1 .. Sections(Loaded)
    <3>1. DOMAIN parts = 1 .. Len(parts)
      BY <2>2
    <3>. QED BY <2>2, <2>4, <3>1
  <2>6. ASSUME NEW c \in DOMAIN Asked, NEW p \in DOMAIN found[c]
        PROVE  found[c][p][2] = p /\ p \in EverPublished(found[c][p][1])
    <3>1. urls # NoFile /\ found[c] = [q \in Asked[c] \cap Loaded |-> UrlIn(urls, q)]
      <4>1. found[c] # <<>>
        <5>1. \A x \in DOMAIN <<>> : FALSE
          OBVIOUS
        <5>. QED BY <2>6, <5>1
      <4>. QED BY <2>1, <4>1 DEF Taken
    <3>2. found[c][p] = UrlIn(urls, p) /\ found[c][p] # NoUrl
      BY <2>1, <2>6, <3>1 DEF Taken
    <3>3. PICK file, q : file = urls /\ q = p
      OBVIOUS
    <3>4. file \in Seq(Lines \cup {Hole})
      BY <2>1, <3>1, <3>3 DEF TypeInv
    <3>5. PICK n \in DOMAIN file : file[n] \in Lines /\ file[n].pkg = q /\ UrlIn(file, q) = file[n].url
      BY <3>2, <3>3, <3>4, UrlInFacts
    <3>6. file[n].url[2] = q /\ file[n] # Hole
      BY <3>5, LinesFacts
    <3>7. UrlsGood(file)
      BY <2>1, <3>1, <3>3 DEF FilesInv
    <3>8. q \in EverPublished(file[n].url[1])
      BY <3>5, <3>6, <3>7 DEF UrlsGood
    <3>. QED BY <3>2, <3>3, <3>5, <3>6, <3>8
  <2>. QED BY <2>4, <2>5, <2>6
<1>. QED BY <1>1, PackageDataIsInductive, PTL

\* A run that ends well, alone, repairs whatever killed, failed and
\* overlapping runs have left: the snapshot it leaves is whole, and each of
\* its packages has a URL.
THEOREM UpdatesRepair == PackageDataSpec => []UpdateRepairs
<1>1. PackageDataInv => UpdateRepairs
  <2>. SUFFICES ASSUME PackageDataInv, NEW i \in Runs, pc[i] = "done", alone[i], bad[i] = {},
                       \A j \in i + 1 .. MaxRuns : pc[j] = "idle", quiet
                PROVE  /\ at # "noUrl"
                       /\ at = "aborted" => Loaded = {} /\ kind = "query" /\ Installed # {}
    BY DEF UpdateRepairs, PackageDataInv, ReaderInv, ReaderTypeInv
  <2>1. TypeInv /\ FilesInv /\ ReaderInv
    BY DEF PackageDataInv
  <2>2. EndedWell(i)
    BY RunsAssumption DEF EndedWell, Last, Runs
  <2>3. PICK S \in Offers : Begins(snapshot, S) /\ Len(snapshot) = Sections(S) /\ Covers(urls, S)
    BY <2>1, <2>2 DEF FilesInv
  <2>4. urls # NoFile /\ snapshot # NoFile
    BY <2>1, <2>2 DEF FilesInv
  <2>5. urls \in Seq(Lines \cup {Hole}) /\ snapshot \in Seq(Sects \cup {Hole}) /\ parts \in Seq(Sects)
    BY <2>1, <2>4 DEF TypeInv, ReaderInv, ReaderTypeInv
  <2>6. ASSUME at = "noUrl" PROVE FALSE
    <3>1. Taken /\ parts # <<>>
      BY <2>1, <2>6 DEF ReaderInv, Taken
    <3>2. Loaded = S
      BY <2>1, <2>3, <3>1, LoadedIs
    <3>3. PICK c \in DOMAIN Asked : \E p \in DOMAIN found[c] : found[c][p] = NoUrl
      BY <2>4, <2>6, <3>1 DEF Taken
    <3>4. PICK p \in DOMAIN found[c] : found[c][p] = NoUrl
      BY <3>3
    <3>5. found[c] = [q \in Asked[c] \cap Loaded |-> UrlIn(urls, q)]
      <4>1. found[c] # <<>>
        <5>1. \A x \in DOMAIN <<>> : FALSE
          OBVIOUS
        <5>. QED BY <3>4, <5>1
      <4>. QED BY <3>1, <4>1 DEF Taken
    <3>6. p \in S /\ UrlIn(urls, p) = NoUrl
      BY <3>2, <3>4, <3>5
    <3>7. PICK file, q : file = urls /\ q = p
      OBVIOUS
    <3>8. PICK n \in DOMAIN file : file[n] # Hole /\ file[n].pkg = q
      BY <2>3, <3>6, <3>7 DEF Covers
    <3>9. PICK m \in DOMAIN file : file[m] \in Lines /\ UrlIn(file, q) = file[m].url
      <4>1. file \in Seq(Lines \cup {Hole})
        BY <2>5, <3>7
      <4>2. \/ \A m \in DOMAIN file : file[m] = Hole \/ file[m].pkg # q
            \/ \E m \in DOMAIN file : file[m] \in Lines /\ UrlIn(file, q) = file[m].url
        BY <4>1, UrlInFacts
      <4>. QED BY <3>8, <4>2
    <3>. QED BY <3>6, <3>7, <3>9, LinesFacts
  <2>7. ASSUME at = "aborted" PROVE ~ (Stuck /\ (parts # <<>> => Len(parts) < Sections(parts[1].pkgs)))
    <3>. SUFFICES ASSUME Stuck, parts # <<>> => Len(parts) < Sections(parts[1].pkgs) PROVE FALSE
      OBVIOUS
    <3>1. Taken
      BY <2>1, <2>7 DEF ReaderInv
    <3>2. Sections(S) \in {1, 3} /\ Len(parts) \in Nat
      BY <2>5 DEF Sections
    <3>3. Len(parts) + 1 <= Sections(S)
      <4>1. CASE parts = <<>>
        BY <3>2, <4>1
      <4>2. CASE parts # <<>>
        <5>1. parts[1].pkgs = S
          BY <2>1, <2>3, <3>1, <4>2, LoadedIs
        <5>. QED BY <3>2, <4>2, <5>1
      <4>. QED BY <4>1, <4>2
    <3>4. PICK q : q = Len(parts) + 1
      OBVIOUS
    <3>5. q \in 1 .. 3 /\ q \in DOMAIN snapshot
      BY <2>3, <2>5, <3>2, <3>3, <3>4
    <3>6. snapshot[q] = [part |-> q, pkgs |-> S]
      BY <2>3, <3>5 DEF Begins
    <3>7. [part |-> q, pkgs |-> S] \in Sects
      BY <3>5, OffersPackages DEF Sects
    <3>. QED BY <2>4, <3>4, <3>5, <3>6, <3>7, NothingAssumption DEF Stuck
  <2>8. at = "aborted" => Loaded = {} /\ kind = "query" /\ Installed # {}
    BY <2>1, <2>7 DEF ReaderInv, Taken
  <2>. QED BY <2>6, <2>8
<1>. QED BY <1>1, PackageDataIsInductive, PTL
=============================================================================
