------------------------- MODULE TransactionProofs -------------------------
(***************************************************************************)
(* For all packages, versions, systems, answers and caches: pairing        *)
(* removed and installed packages loses nothing of the answer, rpm is      *)
(* given the file of each package of it, the system is changed last, and   *)
(* when rpm does everything the answer has been carried out.               *)
(***************************************************************************)
EXTENDS Transaction, FiniteSetTheorems, TLAPS

pairVars == <<taskVars, answer>>

\* What the lists are made of.
ListsOfAnswer ==
  /\ toInstall \subseteq answer.install
  /\ left \subseteq toInstall
  /\ answer.install \subseteq Pkgs /\ answer.remove \subseteq Pkgs

\* The package for which a removal was dropped has been seen, so it stays in
\* the list to install.
DroppedRemovals ==
  \A old \in answer.remove \ (toRemove \cup DOMAIN toUpgrade \cup DOMAIN toDowngrade) :
    \E p \in toInstall \ left : Name[p] = Name[old] /\ Ver[p] = Ver[old]

PairInv == PairingLosesNothing /\ ListsOfAnswer /\ DroppedRemovals

-----------------------------------------------------------------------------
\* Nothing but the pairing touches the lists of changes.
LEMMA OthersKeepTask ==
  ASSUME [TransactionNext]_vars
  PROVE  Pair \/ Unpaired \/ UNCHANGED pairVars
<1>1. CASE TransactionStep
  BY <1>1 DEF TransactionStep, Decide, ReadUrls, PrepareFetch, Fetch, Collect, AddRemove,
              AddPackage, NotRun, Run, pairVars, taskVars
<1>2. CASE UpdateUrls
  BY <1>2 DEF UpdateUrls, pairVars, taskVars
<1>3. CASE OtherInstall
  BY <1>3 DEF OtherInstall, pairVars, taskVars
<1>4. CASE UNCHANGED vars
  BY <1>4 DEF vars, pairVars, taskVars
<1>. QED BY <1>1, <1>2, <1>3, <1>4 DEF TransactionNext

LEMMA PairInvInit ==
  ASSUME TransactionInit
  PROVE  PairInv
<1>1. /\ toInstall = answer.install /\ toRemove = answer.remove /\ left = answer.install
      /\ toUpgrade = NoMap /\ toDowngrade = NoMap
  BY DEF TransactionInit
<1>2. answer.install \subseteq Pkgs /\ answer.remove \subseteq Pkgs
  <2>1. system \in Systems /\ answer \in Answers(system)
    BY DEF TransactionInit
  <2>2. system \subseteq Pkgs
    BY <2>1, VerAssumption
  <2>. QED BY <2>1, <2>2 DEF Answers
<1>3. DOMAIN NoMap = {} /\ News(NoMap) = {}
  BY DEF NoMap, News
<1>4. PairingLosesNothing
  BY <1>1, <1>3 DEF PairingLosesNothing
<1>5. ListsOfAnswer
  BY <1>1, <1>2, <1>3 DEF ListsOfAnswer
<1>6. DroppedRemovals
  BY <1>1 DEF DroppedRemovals
<1>. QED BY <1>4, <1>5, <1>6 DEF PairInv

\* A package without a partner is only seen.
LEMMA UnpairedKeepsInv ==
  ASSUME PairInv, Unpaired
  PROVE  PairInv'
<1>1. /\ left' \subseteq left
      /\ UNCHANGED <<toInstall, toRemove, toUpgrade, toDowngrade, answer>>
  BY DEF Unpaired
<1>2. News(toUpgrade)' = News(toUpgrade) /\ News(toDowngrade)' = News(toDowngrade)
  BY <1>1 DEF News
<1>3. PairingLosesNothing'
  BY <1>1, <1>2 DEF PairInv, PairingLosesNothing
<1>4. ListsOfAnswer'
  BY <1>1, <1>2 DEF PairInv, ListsOfAnswer
<1>5. DroppedRemovals'
  BY <1>1 DEF PairInv, DroppedRemovals
<1>. QED BY <1>3, <1>4, <1>5 DEF PairInv

\* A pair of one version: the removal is dropped, and the package stays to be
\* installed.
LEMMA SameVersionKeepsInv ==
  ASSUME PairInv, NEW p \in left, NEW old \in toRemove, old \in SameName(p), Ver[p] = Ver[old],
         left' = left \ {p}, toRemove' = toRemove \ {old},
         UNCHANGED <<toInstall, toUpgrade, toDowngrade, answer>>
  PROVE  PairInv'
<1>1. News(toUpgrade)' = News(toUpgrade) /\ News(toDowngrade)' = News(toDowngrade)
  BY DEF News
<1>2. p \in toInstall \ left' /\ Name[p] = Name[old]
  BY DEF PairInv, ListsOfAnswer, SameName
<1>3. DroppedRemovals'
  <2>. SUFFICES ASSUME NEW o \in answer.remove \ (toRemove' \cup DOMAIN toUpgrade \cup DOMAIN toDowngrade)
                PROVE  \E q \in toInstall \ left' : Name[q] = Name[o] /\ Ver[q] = Ver[o]
    BY DEF DroppedRemovals
  <2>1. CASE o = old
    BY <2>1, <1>2
  <2>2. CASE o # old
    BY <2>2 DEF PairInv, DroppedRemovals
  <2>. QED BY <2>1, <2>2
<1>4. ListsOfAnswer'
  BY <1>1 DEF PairInv, ListsOfAnswer
<1>5. PairingLosesNothing'
  BY <1>1, <1>3, <1>4 DEF PairInv, PairingLosesNothing, DroppedRemovals, ListsOfAnswer
<1>. QED BY <1>3, <1>4, <1>5 DEF PairInv

\* A pair of different versions goes from its two lists to one of the maps.
LEMMA PairKeepsInv ==
  ASSUME PairInv, Pair
  PROVE  PairInv'
<1>1. PICK p \in left, old \in toRemove :
        /\ old \in SameName(p)
        /\ left' = left \ {p}
        /\ toRemove' = toRemove \ {old}
        /\ toInstall' = IF Ver[p] = Ver[old] THEN toInstall ELSE toInstall \ {p}
        /\ toUpgrade' = IF Ver[p] > Ver[old] THEN Add(toUpgrade, old, p) ELSE toUpgrade
        /\ toDowngrade' = IF Ver[p] < Ver[old] THEN Add(toDowngrade, old, p) ELSE toDowngrade
        /\ answer' = answer
  BY DEF Pair
<1>2. /\ p \in toInstall /\ p \in answer.install
      /\ p \notin News(toUpgrade) /\ p \notin News(toDowngrade)
      /\ old \in answer.remove
      /\ old \notin DOMAIN toUpgrade /\ old \notin DOMAIN toDowngrade
  BY <1>1 DEF PairInv, ListsOfAnswer, PairingLosesNothing
<1>3. Ver[p] \in Int /\ Ver[old] \in Int
  BY <1>1, <1>2, VerAssumption DEF PairInv, ListsOfAnswer
<1>4. CASE Ver[p] = Ver[old]
  <2>1. UNCHANGED <<toInstall, toUpgrade, toDowngrade, answer>>
    BY <1>1, <1>3, <1>4
  <2>. QED BY <1>1, <1>4, <2>1, SameVersionKeepsInv
<1>5. CASE Ver[p] > Ver[old]
  <2>1. /\ toInstall' = toInstall \ {p} /\ toDowngrade' = toDowngrade
        /\ toUpgrade' = Add(toUpgrade, old, p)
    BY <1>1, <1>3, <1>5
  <2>2. /\ DOMAIN toUpgrade' = DOMAIN toUpgrade \cup {old}
        /\ toUpgrade'[old] = p
        /\ \A q \in DOMAIN toUpgrade : toUpgrade'[q] = toUpgrade[q]
        /\ News(toUpgrade') = News(toUpgrade) \cup {p}
    <3>1. /\ DOMAIN toUpgrade' = DOMAIN toUpgrade \cup {old}
          /\ toUpgrade'[old] = p
          /\ \A q \in DOMAIN toUpgrade : toUpgrade'[q] = toUpgrade[q]
      BY <1>2, <2>1 DEF Add
    <3>2. News(toUpgrade') = News(toUpgrade) \cup {p}
      BY <3>1 DEF News
    <3>. QED BY <3>1, <3>2
  <2>3. ListsOfAnswer'
    BY <1>1, <1>2, <2>1, <2>2 DEF PairInv, ListsOfAnswer, News
  <2>4. DroppedRemovals'
    BY <1>1, <1>2, <2>1, <2>2 DEF PairInv, DroppedRemovals, ListsOfAnswer
  <2>5. \A a, b \in DOMAIN toUpgrade' : toUpgrade'[a] = toUpgrade'[b] => a = b
    BY <1>2, <2>2 DEF PairInv, PairingLosesNothing, News
  <2>6. PairingLosesNothing'
    <3>1. /\ (toInstall \cup News(toUpgrade) \cup News(toDowngrade) = answer.install)'
          /\ (toInstall \cap (News(toUpgrade) \cup News(toDowngrade)) = {})'
          /\ (News(toUpgrade) \cap News(toDowngrade) = {})'
      BY <1>1, <1>2, <2>1, <2>2 DEF PairInv, PairingLosesNothing
    <3>2. /\ \A a \in DOMAIN toUpgrade' : Ver[toUpgrade'[a]] > Ver[a]
          /\ \A a \in DOMAIN toDowngrade' : Ver[toDowngrade'[a]] < Ver[a]
      BY <1>5, <2>1, <2>2 DEF PairInv, PairingLosesNothing
    <3>3. /\ (toRemove \cup DOMAIN toUpgrade \cup DOMAIN toDowngrade \subseteq answer.remove)'
          /\ (toRemove \cap (DOMAIN toUpgrade \cup DOMAIN toDowngrade) = {})'
      BY <1>1, <1>2, <2>1, <2>2 DEF PairInv, PairingLosesNothing
    <3>. QED BY <2>4, <2>5, <3>1, <3>2, <3>3 DEF PairingLosesNothing, DroppedRemovals
  <2>. QED BY <2>3, <2>4, <2>6 DEF PairInv
<1>6. CASE Ver[p] < Ver[old]
  <2>1. /\ toInstall' = toInstall \ {p} /\ toUpgrade' = toUpgrade
        /\ toDowngrade' = Add(toDowngrade, old, p)
    BY <1>1, <1>3, <1>6
  <2>2. /\ DOMAIN toDowngrade' = DOMAIN toDowngrade \cup {old}
        /\ toDowngrade'[old] = p
        /\ \A q \in DOMAIN toDowngrade : toDowngrade'[q] = toDowngrade[q]
        /\ News(toDowngrade') = News(toDowngrade) \cup {p}
    <3>1. /\ DOMAIN toDowngrade' = DOMAIN toDowngrade \cup {old}
          /\ toDowngrade'[old] = p
          /\ \A q \in DOMAIN toDowngrade : toDowngrade'[q] = toDowngrade[q]
      BY <1>2, <2>1 DEF Add
    <3>2. News(toDowngrade') = News(toDowngrade) \cup {p}
      BY <3>1 DEF News
    <3>. QED BY <3>1, <3>2
  <2>3. ListsOfAnswer'
    BY <1>1, <1>2, <2>1, <2>2 DEF PairInv, ListsOfAnswer, News
  <2>4. DroppedRemovals'
    BY <1>1, <1>2, <2>1, <2>2 DEF PairInv, DroppedRemovals, ListsOfAnswer
  <2>6. PairingLosesNothing'
    <3>1. /\ (toInstall \cup News(toUpgrade) \cup News(toDowngrade) = answer.install)'
          /\ (toInstall \cap (News(toUpgrade) \cup News(toDowngrade)) = {})'
          /\ (News(toUpgrade) \cap News(toDowngrade) = {})'
      BY <1>1, <1>2, <2>1, <2>2 DEF PairInv, PairingLosesNothing
    <3>2. /\ \A a \in DOMAIN toUpgrade' : Ver[toUpgrade'[a]] > Ver[a]
          /\ \A a \in DOMAIN toDowngrade' : Ver[toDowngrade'[a]] < Ver[a]
      BY <1>6, <2>1, <2>2 DEF PairInv, PairingLosesNothing
    <3>3. /\ (toRemove \cup DOMAIN toUpgrade \cup DOMAIN toDowngrade \subseteq answer.remove)'
          /\ (toRemove \cap (DOMAIN toUpgrade \cup DOMAIN toDowngrade) = {})'
      BY <1>1, <1>2, <2>1, <2>2 DEF PairInv, PairingLosesNothing
    <3>4. \A a, b \in DOMAIN toUpgrade' : toUpgrade'[a] = toUpgrade'[b] => a = b
      BY <2>1 DEF PairInv, PairingLosesNothing
    <3>. QED BY <2>4, <3>1, <3>2, <3>3, <3>4 DEF PairingLosesNothing, DroppedRemovals
  <2>. QED BY <2>3, <2>4, <2>6 DEF PairInv
<1>. QED BY <1>3, <1>4, <1>5, <1>6

LEMMA PairInvKept ==
  ASSUME PairInv, [TransactionNext]_vars
  PROVE  PairInv'
<1>1. CASE Pair
  BY <1>1, PairKeepsInv
<1>2. CASE Unpaired
  BY <1>2, UnpairedKeepsInv
<1>3. CASE UNCHANGED pairVars
  BY <1>3 DEF pairVars, taskVars, PairInv, PairingLosesNothing, ListsOfAnswer, DroppedRemovals, News
<1>. QED BY <1>1, <1>2, <1>3, OthersKeepTask

-----------------------------------------------------------------------------
\* Whatever order the packages come in and whichever of several removed ones
\* is paired with an installed one, each package to install stays in exactly
\* one of the three kinds of changes, and a removal is dropped only if a
\* package of the same name and version is installed.
THEOREM PairingIsRight == TransactionSpec => []PairingLosesNothing
<1>1. TransactionInit => PairInv
  BY PairInvInit
<1>2. PairInv /\ [TransactionNext]_vars => PairInv'
  BY PairInvKept
<1>3. PairInv => PairingLosesNothing
  BY DEF PairInv
<1>. QED BY <1>1, <1>2, <1>3, PTL DEF TransactionSpec
-----------------------------------------------------------------------------
\* The files.

Moving == {"fetch", "change", "add"}

\* The answer stays, and the system is the one it was found for until the
\* end; a package is upgraded to one of its name.
AnswerInv ==
  /\ answer \in Answers(answer.system) /\ answer.system \subseteq Pkgs
  /\ pc \in {"pair", "readUrls", "printUrls", "over"} \cup Moving
  /\ pc # "over" => system = answer.system /\ result = "none"
  /\ \A old \in DOMAIN toUpgrade : Name[toUpgrade[old]] = Name[old]

\* Before anything is fetched, every package to install has a URL.
UrlInv ==
  /\ urlFile \in UrlFiles
  /\ \A p \in DOMAIN urls : urls[p] \in {"remote", "local", "noBase", "none"}
  /\ pc \in Moving => \A p \in answer.install : p \in DOMAIN urls /\ urls[p] \in {"remote", "local"}

\* A whole package is in a file of its name only.
CacheInv ==
  /\ DOMAIN cache = BaseNames
  /\ \A b \in BaseNames : \A q \in Pkgs : cache[b] = Whole(q) => Base[q] = b

\* What fetching is at.
FetchInv ==
  pc \in Moving =>
    /\ fetchMap \subseteq answer.install
    /\ fetchStage \in {"next", "transfer", "fetched"}
    /\ pc # "fetch" => fetchStage = "fetched"
    /\ fetchStage = "fetched" => fetchMap = {}
    /\ fetchStage = "transfer" => current \in answer.install \ fetchMap /\ now \in 0 .. Blocks

\* What fetching has got: without another process at the cache, the files it
\* is done with are there.
ArrivedInv ==
  pc \in Moving /\ alone =>
    /\ \A p \in answer.install : urls[p] = "remote" =>
         \/ p \in fetchMap
         \/ fetchStage = "transfer" /\ p = current
         \/ cache[Base[p]] \in {Whole(p), Page}
    /\ fetchStage = "transfer" =>
         IF now < Blocks THEN cache[Base[current]] = Part(current)
         ELSE cache[Base[current]] \in {Whole(current), Page}

\* Files are fetched for --files and for changes only.
ModeInv == pc \in {"readUrls"} \cup Moving => mode \in {"files", "changes"}

\* The file that fetchPackages() tells for each package.
FilesInv ==
  pc \in {"change", "add"} =>
    /\ mode = "changes"
    /\ files = [p \in answer.install |-> IF p \in News(toDowngrade) THEN CacheFile(p) ELSE FileFor(p)]

\* The transaction of librpm, up to the packages that were added to it.
AddInv ==
  pc = "add" =>
    /\ toDowngrade = NoMap
    /\ elements.add \subseteq toInstall \cup News(toUpgrade)
    /\ elements.erase = {p \in system : \E q \in toRemove : Name[q] = Name[p]}
                          \cup (UNION {SameName(p) \cap system : p \in elements.add \ toInstall})

MoveInv ==
  AnswerInv /\ UrlInv /\ CacheInv /\ FetchInv /\ ArrivedInv /\ ModeInv /\ FilesInv /\ AddInv

-----------------------------------------------------------------------------
\* The packages whose URLs are asked for are those to install.
LEMMA WantedIsInstalled ==
  ASSUME PairInv
  PROVE  Wanted = answer.install
<1>1. Wanted = toInstall \cup News(toUpgrade) \cup News(toDowngrade)
  BY DEF Wanted, Lists
<1>. QED BY <1>1 DEF PairInv, PairingLosesNothing

\* Packages to install have different files, as they have different names.
LEMMA OwnFiles ==
  ASSUME AnswerInv
  PROVE  /\ answer.install \subseteq Pkgs
         /\ \A p, q \in answer.install : Base[p] = Base[q] => p = q
<1>1. answer.install \subseteq Pkgs
  BY DEF AnswerInv, Answers
<1>2. \A p \in answer.install : SameName(p) \cap answer.install \subseteq {p}
  <2>. SUFFICES ASSUME NEW p \in answer.install PROVE SameName(p) \cap answer.install \subseteq {p}
    OBVIOUS
  <2>1. SameName(p) \cap ((answer.system \ answer.remove) \cup answer.install) = {p}
    BY DEF AnswerInv, Answers
  <2>. QED BY <2>1
<1>3. \A p, q \in answer.install : Name[p] = Name[q] => p = q
  BY <1>1, <1>2 DEF SameName
<1>. QED BY <1>1, <1>3, BaseAssumption

\* Contents of a file are told apart.
LEMMA Contents ==
  /\ \A p, q : Whole(p) = Whole(q) => p = q
  /\ \A p, q : Whole(p) # Part(q) /\ Whole(p) # OthersPart(q)
  /\ \A p : Whole(p) # Page
<1>1. \A p : Whole(p).pkg = p /\ Whole(p).state = "whole"
  BY DEF Whole
<1>2. \A p : Part(p).state = "part" /\ OthersPart(p).state = "other"
  BY DEF Part, OthersPart
<1>3. Page.state = "page"
  BY DEF Page
<1>. QED BY <1>1, <1>2, <1>3

\* The base name of a package to install has a file in the cache.
LEMMA BaseIsName == \A p \in Pkgs : Base[p] \in BaseNames
BY DEF BaseNames

\* While files are fetched and changed, the answer and the URLs stay.
LEMMA MovingKeeps ==
  ASSUME AnswerInv, TransactionNext
  PROVE  /\ answer' = answer
         /\ pc' \in {"pair", "readUrls", "printUrls", "over"} \cup Moving
         /\ pc # "over"
         /\ pc \in Moving => UNCHANGED <<toInstall, toRemove, toUpgrade, toDowngrade, urls, urlFile, mode>>
         /\ pc' \in Moving /\ pc \notin Moving => PrepareFetch
         /\ pc' \in Moving /\ alone' => alone
<1>1. CASE Unpaired \/ Pair \/ Decide \/ ReadUrls \/ PrepareFetch
  BY <1>1 DEF Unpaired, Pair, Decide, ReadUrls, PrepareFetch, Moving, AnswerInv, Finish
<1>2. CASE Fetch \/ Collect \/ AddRemove \/ AddPackage \/ NotRun \/ Run
  <2>1. UNCHANGED <<taskVars, urlFile, urls, mode, answer, alone>>
    BY <1>2 DEF Fetch, Collect, AddRemove, AddPackage, NotRun, Run
  <2>2. pc \in Moving /\ pc' \in Moving \cup {"over"}
    BY <1>2 DEF Fetch, Collect, AddRemove, AddPackage, NotRun, Run, Moving, Finish
  <2>. QED BY <2>1, <2>2 DEF taskVars, Moving
<1>3. CASE pc \in {"pair", "readUrls", "printUrls"} /\ UpdateUrls
  BY <1>3 DEF UpdateUrls, Moving
<1>4. CASE pc \in {"fetch", "change", "add"} /\ OtherInstall
  BY <1>4 DEF OtherInstall, Moving, taskVars, otherVars
<1>. QED BY <1>1, <1>2, <1>3, <1>4 DEF TransactionNext, TransactionStep

LEMMA AnswerKept ==
  ASSUME PairInv, AnswerInv, TransactionNext
  PROVE  AnswerInv'
<1>1. /\ answer' = answer /\ pc # "over"
      /\ pc' \in {"pair", "readUrls", "printUrls", "over"} \cup Moving
  BY MovingKeeps
<1>2. pc' # "over" => UNCHANGED <<system, result>>
  <2>1. CASE Unpaired \/ Pair \/ Decide \/ ReadUrls
    BY <2>1 DEF Unpaired, Pair, Decide, ReadUrls, Finish, otherVars
  <2>2. CASE PrepareFetch \/ Fetch \/ Collect \/ AddRemove \/ AddPackage
    BY <2>2 DEF PrepareFetch, Fetch, Collect, AddRemove, AddPackage, Finish
  <2>3. CASE NotRun \/ Run
    BY <2>3 DEF NotRun, Run, Finish
  <2>4. CASE UpdateUrls \/ OtherInstall
    BY <2>4 DEF UpdateUrls, OtherInstall, otherVars
  <2>. QED BY <2>1, <2>2, <2>3, <2>4 DEF TransactionNext, TransactionStep
<1>3. \A old \in DOMAIN toUpgrade' : Name[toUpgrade'[old]] = Name[old]
  <2>1. CASE Pair
    <3>1. PICK p \in left, old \in toRemove :
            /\ old \in SameName(p)
            /\ toUpgrade' = IF Ver[p] > Ver[old] THEN Add(toUpgrade, old, p) ELSE toUpgrade
      BY <2>1 DEF Pair
    <3>2. Name[p] = Name[old]
      BY <3>1 DEF SameName
    <3>. QED BY <3>1, <3>2 DEF Add, AnswerInv
  <2>2. CASE Unpaired \/ UNCHANGED pairVars
    BY <2>2 DEF Unpaired, pairVars, taskVars, AnswerInv
  <2>. QED BY <2>1, <2>2, OthersKeepTask
<1>4. Answers(answer.system)' = Answers(answer.system)
  BY <1>1 DEF Answers, SameName
<1>. QED BY <1>1, <1>2, <1>3, <1>4 DEF AnswerInv

LEMMA UrlKept ==
  ASSUME PairInv, AnswerInv, UrlInv, TransactionNext
  PROVE  UrlInv'
<1>1. answer' = answer
  BY MovingKeeps
<1>2. CASE ReadUrls
  <2>1. urlFile' = urlFile /\ pc' = pc /\ pc \notin Moving
    BY <1>2 DEF ReadUrls, Moving
  <2>2. ASSUME NEW p \in DOMAIN urls'
        PROVE  urls'[p] \in {"remote", "local", "noBase", "none"}
    <3>1. PICK c \in DOMAIN Lists :
            urls' = [q \in DOMAIN urls \cup Lists[c] |->
                      IF q \in DOMAIN urls THEN urls[q]
                      ELSE IF q \in DOMAIN urlFile THEN urlFile[q] ELSE "none"]
      BY <1>2 DEF ReadUrls
    <3>2. urls'[p] = IF p \in DOMAIN urls THEN urls[p]
                     ELSE IF p \in DOMAIN urlFile THEN urlFile[p] ELSE "none"
      BY <2>2, <3>1
    <3>3. p \in DOMAIN urlFile => urlFile[p] \in {"remote", "local", "noBase"}
      BY UrlFilesAssumption DEF UrlInv
    <3>. QED BY <3>2, <3>3 DEF UrlInv
  <2>. QED BY <2>1, <2>2 DEF UrlInv
<1>3. CASE PrepareFetch
  <2>1. UNCHANGED <<urlFile, urls>> /\ Wanted \subseteq DOMAIN urls
    BY <1>3 DEF PrepareFetch
  <2>2. pc' \in Moving => \A p \in Wanted : urls[p] \notin {"none", "noBase"}
    BY <1>3 DEF PrepareFetch, Finish, Moving
  <2>. QED BY <1>1, <2>1, <2>2, WantedIsInstalled DEF UrlInv
<1>4. CASE UpdateUrls /\ pc \in {"pair", "readUrls", "printUrls"}
  BY <1>1, <1>4 DEF UpdateUrls, UrlInv, Moving
<1>5. CASE UNCHANGED <<urlFile, urls>> /\ ~ PrepareFetch
  BY <1>1, <1>5, MovingKeeps DEF UrlInv
<1>6. CASE Unpaired \/ Pair \/ Decide
  BY <1>6 DEF Unpaired, Pair, Decide, UrlInv, otherVars, Moving, Finish
<1>7. CASE Fetch \/ Collect \/ AddRemove \/ AddPackage \/ NotRun \/ Run
  <2>1. UNCHANGED <<urlFile, urls>> /\ pc \in Moving
    BY <1>7 DEF Fetch, Collect, AddRemove, AddPackage, NotRun, Run, Moving
  <2>. QED BY <1>1, <2>1 DEF UrlInv
<1>8. CASE OtherInstall
  BY <1>1, <1>8 DEF OtherInstall, otherVars, UrlInv
<1>. QED BY <1>2, <1>3, <1>4, <1>6, <1>7, <1>8 DEF TransactionNext, TransactionStep

\* A step of fetching keeps the files of the others apart.
LEMMA CacheStep ==
  ASSUME CacheInv, NEW base \in BaseNames, NEW content,
         \A q \in Pkgs : content = Whole(q) => Base[q] = base,
         cache' = [cache EXCEPT ![base] = content]
  PROVE  CacheInv'
BY DEF CacheInv, BaseNames

LEMMA CacheKept ==
  ASSUME AnswerInv, CacheInv, FetchInv, TransactionNext
  PROVE  CacheInv'
<1>1. CASE UNCHANGED cache
  BY <1>1 DEF CacheInv, BaseNames, Whole
<1>2. CASE cache' = EmptyCache
  BY <1>2, AbsentAssumption DEF CacheInv, EmptyCache, BaseNames, Whole
<1>3. CASE Fetch
  <2>1. FetchStep /\ pc \in Moving
    BY <1>3 DEF Fetch, Moving
  <2>2. CASE NextFile
    <3>1. PICK p \in fetchMap : cache' = [cache EXCEPT ![Base[p]] = Part(p)]
      BY <2>2 DEF NextFile
    <3>2. p \in Pkgs
      BY <2>1, OwnFiles DEF FetchInv
    <3>3. PICK content, base : content = Part(p) /\ base = Base[p]
      OBVIOUS
    <3>4. \A q \in Pkgs : content = Whole(q) => Base[q] = base
      BY <3>3, Contents
    <3>. QED BY <3>1, <3>2, <3>3, <3>4, BaseIsName, CacheStep
  <2>3. CASE (NewDataBlock \/ ErrorPage) /\ cache' # cache
    <3>1. current \in Pkgs
      BY <2>1, <2>3, OwnFiles DEF NewDataBlock, ErrorPage, FetchInv
    <3>2. PICK content \in {Whole(current), Page} : cache' = [cache EXCEPT ![Base[current]] = content]
      BY <2>3 DEF NewDataBlock, ErrorPage
    <3>3. PICK base : base = Base[current]
      OBVIOUS
    <3>4. \A q \in Pkgs : content = Whole(q) => Base[q] = base
      BY <3>2, <3>3, Contents
    <3>. QED BY <3>1, <3>2, <3>3, <3>4, BaseIsName, CacheStep
  <2>4. CASE OnCurlProgress \/ EndFile \/ EndFetch \/ TransferFails
    BY <1>1, <2>4 DEF OnCurlProgress, EndFile, EndFetch, TransferFails
  <2>. QED BY <1>1, <2>1, <2>2, <2>3, <2>4 DEF FetchStep
<1>4. CASE OtherInstall
  <2>1. CASE OtherEmptiesCache
    BY <1>2, <2>1 DEF OtherEmptiesCache
  <2>2. CASE OtherFetches
    <3>0. PICK p \in Pkgs : \E content \in {OthersPart(p), Whole(p)} : cache' = [cache EXCEPT ![Base[p]] = content]
      BY <2>2 DEF OtherFetches
    <3>1. PICK content \in {OthersPart(p), Whole(p)} : cache' = [cache EXCEPT ![Base[p]] = content]
      BY <3>0
    <3>2. \A q \in Pkgs : content = Whole(q) => Base[q] = Base[p]
      BY <3>1, Contents
    <3>. QED BY <3>1, <3>2, BaseIsName, CacheStep
  <2>. QED BY <1>4, <2>1, <2>2 DEF OtherInstall
<1>5. CASE PrepareFetch
  BY <1>1, <1>2, <1>5 DEF PrepareFetch, fetchVars
<1>6. CASE Unpaired \/ Pair \/ Decide \/ ReadUrls \/ Collect \/ AddRemove \/ AddPackage \/ NotRun \/ Run \/ UpdateUrls
  BY <1>1, <1>6 DEF Unpaired, Pair, Decide, ReadUrls, Collect, AddRemove, AddPackage, NotRun, Run, UpdateUrls, fetchVars
<1>. QED BY <1>3, <1>4, <1>5, <1>6 DEF TransactionNext, TransactionStep

\* Fetching begins with all files that have a URL elsewhere.
LEMMA FetchBegins ==
  ASSUME PairInv, AnswerInv, PrepareFetch, pc' \in Moving
  PROVE  /\ pc' = "fetch" /\ fetchStage' = "next"
         /\ fetchMap' = {p \in answer.install : urls[p] = "remote"}
BY WantedIsInstalled DEF PrepareFetch, BeginFetch, Finish, Moving

LEMMA FetchKept ==
  ASSUME PairInv, AnswerInv, FetchInv, TransactionNext
  PROVE  FetchInv'
<1>. SUFFICES ASSUME pc' \in Moving PROVE FetchInv'
  BY DEF FetchInv
<1>1. answer' = answer
  BY MovingKeeps
<1>2. CASE pc \notin Moving
  <2>1. pc' = "fetch" /\ fetchStage' = "next" /\ fetchMap' \subseteq answer.install
    BY <1>2, MovingKeeps, FetchBegins
  <2>. QED BY <1>1, <2>1 DEF FetchInv
<1>3. CASE Fetch
  <2>1. FetchStep /\ pc = "fetch" /\ pc \in Moving /\ fetchStage' # "failed" /\ pc' = pc
    BY <1>3 DEF Fetch, Moving, Finish
  <2>2. /\ fetchMap \subseteq answer.install
        /\ fetchStage \in {"next", "transfer", "fetched"}
        /\ fetchStage = "fetched" => fetchMap = {}
        /\ fetchStage = "transfer" => current \in answer.install \ fetchMap /\ now \in 0 .. Blocks
    BY <2>1 DEF FetchInv
  <2>3. CASE NextFile
    BY <1>1, <2>1, <2>2, <2>3, BlocksAssumption DEF NextFile, FetchInv
  <2>4. CASE NewDataBlock
    BY <1>1, <2>1, <2>2, <2>4, BlocksAssumption DEF NewDataBlock, FetchInv
  <2>5. CASE ErrorPage
    BY <1>1, <2>1, <2>2, <2>5, BlocksAssumption DEF ErrorPage, FetchInv
  <2>6. CASE OnCurlProgress
    BY <1>1, <2>1, <2>2, <2>6 DEF OnCurlProgress, FetchInv
  <2>7. CASE EndFile \/ EndFetch
    BY <1>1, <2>1, <2>2, <2>7 DEF EndFile, EndFetch, FetchInv
  <2>8. CASE TransferFails
    BY <2>1, <2>8 DEF TransferFails
  <2>. QED BY <2>1, <2>3, <2>4, <2>5, <2>6, <2>7, <2>8 DEF FetchStep
<1>4. CASE pc \in Moving /\ ~ Fetch
  <2>1. UNCHANGED transferVars
    BY <1>4 DEF TransactionNext, TransactionStep, Unpaired, Pair, Decide, ReadUrls, PrepareFetch, Collect,
                AddRemove, AddPackage, NotRun, Run, UpdateUrls, OtherInstall, fetchVars, Moving
  <2>2. pc' # "fetch" => pc # "fetch" \/ fetchStage = "fetched"
    BY <1>4 DEF TransactionNext, TransactionStep, Unpaired, Pair, Decide, ReadUrls, PrepareFetch, Collect,
                AddRemove, AddPackage, NotRun, Run, UpdateUrls, OtherInstall, Moving, Finish
  <2>. QED BY <1>1, <1>4, <2>1, <2>2 DEF transferVars, FetchInv
<1>. QED BY <1>2, <1>3, <1>4

\* A file that is written leaves those of the other packages to install alone.
LEMMA OthersStay ==
  ASSUME AnswerInv, CacheInv, NEW p \in answer.install, NEW content,
         cache' = [cache EXCEPT ![Base[p]] = content]
  PROVE  /\ cache'[Base[p]] = content
         /\ \A q \in answer.install \ {p} : cache'[Base[q]] = cache[Base[q]]
<1>1. p \in Pkgs /\ Base[p] \in DOMAIN cache
  BY OwnFiles, BaseIsName DEF CacheInv
<1>2. ASSUME NEW q \in answer.install \ {p}
      PROVE  cache'[Base[q]] = cache[Base[q]]
  <2>1. Base[q] # Base[p] /\ Base[q] \in DOMAIN cache
    BY OwnFiles, BaseIsName DEF CacheInv
  <2>. QED BY <1>1, <2>1
<1>. QED BY <1>1, <1>2

LEMMA ArrivedKept ==
  ASSUME PairInv, AnswerInv, CacheInv, FetchInv, ArrivedInv, TransactionNext
  PROVE  ArrivedInv'
<1>. SUFFICES ASSUME pc' \in Moving, alone' PROVE ArrivedInv'
  BY DEF ArrivedInv
<1>1. answer' = answer /\ alone
  BY MovingKeeps
<1>a. Page' = Page /\ \A p : Whole(p)' = Whole(p) /\ Part(p)' = Part(p)
  BY DEF Page, Whole, Part
<1>2. CASE pc \notin Moving
  <2>1. /\ fetchStage' = "next" /\ urls' = urls
        /\ fetchMap' = {p \in answer.install : urls[p] = "remote"}
    <3>1. PrepareFetch
      BY <1>2, MovingKeeps
    <3>. QED BY <3>1, FetchBegins DEF PrepareFetch
  <2>. QED BY <1>1, <2>1 DEF ArrivedInv
<1>. DEFINE Arrived(p) == \/ p \in fetchMap
                          \/ fetchStage = "transfer" /\ p = current
                          \/ cache[Base[p]] \in {Whole(p), Page}
<1>3. CASE Fetch
  <2>1. FetchStep /\ pc = "fetch" /\ pc \in Moving /\ fetchStage' # "failed" /\ urls' = urls
    BY <1>3 DEF Fetch, Moving, Finish
  <2>2. /\ \A p \in answer.install : urls[p] = "remote" => Arrived(p)
        /\ fetchStage = "transfer" =>
             /\ current \in answer.install /\ now \in 0 .. Blocks
             /\ IF now < Blocks THEN cache[Base[current]] = Part(current)
                ELSE cache[Base[current]] \in {Whole(current), Page}
    BY <1>1, <2>1 DEF ArrivedInv, FetchInv
  <2>3. CASE NextFile
    <3>1. PICK p \in fetchMap :
            /\ current' = p /\ cache' = [cache EXCEPT ![Base[p]] = Part(p)]
            /\ fetchMap' = fetchMap \ {p} /\ fetchStage' = "transfer" /\ now' = 0 /\ fetchStage = "next"
      BY <2>3 DEF NextFile
    <3>2. p \in answer.install
      BY <2>1 DEF FetchInv
    <3>3. PICK content : content = Part(p)
      OBVIOUS
    <3>4. /\ cache'[Base[p]] = Part(p)
          /\ \A q \in answer.install \ {p} : cache'[Base[q]] = cache[Base[q]]
      BY <3>1, <3>2, <3>3, OthersStay
    <3>5. \A q \in answer.install : urls[q] = "remote" => Arrived(q)'
      BY <1>a, <2>2, <3>1, <3>4
    <3>. QED BY <1>1, <1>a, <2>1, <3>1, <3>4, <3>5, BlocksAssumption DEF ArrivedInv
  <2>4. CASE NewDataBlock
    <3>1. /\ fetchStage = "transfer" /\ now < Blocks /\ now' = now + 1
          /\ UNCHANGED <<fetchStage, fetchMap, current>>
          /\ now \in 0 .. Blocks /\ Blocks \in Nat
      BY <2>2, <2>4, BlocksAssumption DEF NewDataBlock
    <3>2. CASE now' = Blocks
      <4>1. cache' = [cache EXCEPT ![Base[current]] = Whole(current)]
        BY <2>2, <2>4, <3>1, <3>2 DEF NewDataBlock
      <4>2. PICK content : content = Whole(current)
        OBVIOUS
      <4>3. PICK p \in answer.install : p = current
        BY <2>2, <3>1
      <4>4. /\ cache'[Base[current]] = Whole(current)
            /\ \A q \in answer.install \ {current} : cache'[Base[q]] = cache[Base[q]]
        BY <4>1, <4>2, <4>3, OthersStay
      <4>5. \A q \in answer.install : urls[q] = "remote" => Arrived(q)'
        BY <1>a, <2>2, <3>1, <4>4
      <4>. QED BY <1>1, <1>a, <2>1, <3>1, <3>2, <4>4, <4>5 DEF ArrivedInv
    <3>3. CASE now' # Blocks
      <4>1. cache' = cache /\ now' < Blocks
        BY <2>4, <3>1, <3>3 DEF NewDataBlock
      <4>2. \A q \in answer.install : urls[q] = "remote" => Arrived(q)'
        BY <1>a, <2>2, <3>1, <4>1
      <4>. QED BY <1>1, <1>a, <2>1, <2>2, <3>1, <4>1, <4>2 DEF ArrivedInv
    <3>. QED BY <3>2, <3>3
  <2>5. CASE ErrorPage
    <3>1. /\ fetchStage = "transfer" /\ now' = Blocks
          /\ UNCHANGED <<fetchStage, fetchMap, current>>
          /\ cache' = [cache EXCEPT ![Base[current]] = Page]
      BY <2>5 DEF ErrorPage
    <3>0. PICK content : content = Page
      OBVIOUS
    <3>2. PICK p \in answer.install : p = current
      BY <2>2, <3>1
    <3>3. /\ cache'[Base[current]] = Page
          /\ \A q \in answer.install \ {current} : cache'[Base[q]] = cache[Base[q]]
      BY <3>0, <3>1, <3>2, OthersStay
    <3>4. \A q \in answer.install : urls[q] = "remote" => Arrived(q)'
      BY <1>a, <2>2, <3>1, <3>3
    <3>. QED BY <1>1, <1>a, <2>1, <3>1, <3>3, <3>4, BlocksAssumption DEF ArrivedInv
  <2>6. CASE OnCurlProgress
    <3>1. UNCHANGED <<cache, fetchMap, current, now>> /\ fetchStage = "transfer" /\ fetchStage' = "transfer"
      BY <2>1, <2>6 DEF OnCurlProgress
    <3>. QED BY <1>1, <1>a, <2>1, <2>2, <3>1 DEF ArrivedInv
  <2>7. CASE EndFile \/ EndFetch
    <3>1. UNCHANGED <<cache, fetchMap, current>> /\ fetchStage' # "transfer"
          /\ (fetchStage = "transfer" => now = Blocks)
      BY <2>7 DEF EndFile, EndFetch
    <3>2. \A q \in answer.install : urls[q] = "remote" => Arrived(q)'
      BY <1>a, <2>2, <3>1, BlocksAssumption
    <3>. QED BY <1>1, <2>1, <3>1, <3>2 DEF ArrivedInv
  <2>8. CASE TransferFails
    BY <2>1, <2>8 DEF TransferFails
  <2>. QED BY <2>1, <2>3, <2>4, <2>5, <2>6, <2>7, <2>8 DEF FetchStep
<1>4. CASE pc \in Moving /\ ~ Fetch
  <2>1. UNCHANGED <<cache, transferVars, urls>>
    BY <1>4 DEF TransactionNext, TransactionStep, Unpaired, Pair, Decide, ReadUrls, PrepareFetch, Collect,
                AddRemove, AddPackage, NotRun, Run, UpdateUrls, OtherInstall, fetchVars, Moving
  <2>. QED BY <1>1, <1>4, <1>a, <2>1 DEF transferVars, ArrivedInv
<1>. QED BY <1>2, <1>3, <1>4

-----------------------------------------------------------------------------
\* The changes.

LEMMA ModeKept ==
  ASSUME AnswerInv, ModeInv, TransactionNext
  PROVE  ModeInv'
<1>1. CASE Decide
  BY <1>1 DEF Decide, Finish, ModeInv, Moving
<1>2. CASE PrepareFetch
  BY <1>2 DEF PrepareFetch, Finish, ModeInv, Moving
<1>3. CASE Unpaired \/ Pair \/ ReadUrls \/ UpdateUrls \/ OtherInstall
  BY <1>3 DEF Unpaired, Pair, ReadUrls, UpdateUrls, OtherInstall, otherVars, ModeInv
<1>4. CASE Fetch \/ Collect \/ AddRemove \/ AddPackage \/ NotRun \/ Run
  <2>1. mode' = mode /\ pc \in Moving
    BY <1>4 DEF Fetch, Collect, AddRemove, AddPackage, NotRun, Run, Moving
  <2>. QED BY <2>1 DEF ModeInv
<1>. QED BY <1>1, <1>2, <1>3, <1>4 DEF TransactionNext, TransactionStep

\* The steps that lead to the changes: nothing they are made from changes.
LEMMA ChangingKeeps ==
  ASSUME AnswerInv, TransactionNext, pc' \in {"change", "add"}
  PROVE  /\ answer' = answer /\ pc \in Moving /\ system' = system
         /\ UNCHANGED <<toInstall, toRemove, toUpgrade, toDowngrade, urls, mode>>
         /\ Collect \/ (UNCHANGED files /\ pc \in {"change", "add"})
<1>1. pc \in Moving
  <2>1. CASE PrepareFetch
    BY <2>1 DEF PrepareFetch, Finish
  <2>. QED BY <2>1, MovingKeeps DEF Moving
<1>2. system' = system
  <2>1. CASE Run
    BY <2>1 DEF Run, Finish
  <2>. QED BY <2>1 DEF TransactionNext, TransactionStep, Unpaired, Pair, Decide, ReadUrls, PrepareFetch, Fetch,
                    Collect, AddRemove, AddPackage, NotRun, UpdateUrls, OtherInstall
<1>3. Collect \/ (UNCHANGED files /\ pc \in {"change", "add"})
  <2>1. CASE Fetch
    BY <2>1 DEF Fetch, Finish
  <2>2. CASE OtherInstall
    <3>1. UNCHANGED <<files, pc>>
      BY <2>2 DEF OtherInstall, otherVars
    <3>. QED BY <3>1
  <2>3. CASE AddRemove \/ AddPackage \/ NotRun \/ Run
    BY <2>3 DEF AddRemove, AddPackage, NotRun, Run
  <2>4. CASE Unpaired \/ Pair \/ Decide \/ ReadUrls \/ PrepareFetch
    BY <1>1, <2>4 DEF Unpaired, Pair, Decide, ReadUrls, PrepareFetch, Moving
  <2>5. CASE UpdateUrls /\ pc \in {"pair", "readUrls", "printUrls"}
    BY <1>1, <2>5 DEF Moving
  <2>. QED BY <2>1, <2>2, <2>3, <2>4, <2>5 DEF TransactionNext, TransactionStep
<1>. QED BY <1>1, <1>2, <1>3, MovingKeeps

LEMMA FilesKept ==
  ASSUME PairInv, AnswerInv, ModeInv, FilesInv, TransactionNext
  PROVE  FilesInv'
<1>. SUFFICES ASSUME pc' \in {"change", "add"} PROVE FilesInv'
  BY DEF FilesInv
<1>1. /\ answer' = answer /\ pc \in Moving
      /\ UNCHANGED <<toInstall, toRemove, toUpgrade, toDowngrade, urls, mode>>
  BY ChangingKeeps
<1>2. /\ News(toDowngrade)' = News(toDowngrade)
      /\ \A p : FileFor(p)' = FileFor(p) /\ CacheFile(p)' = CacheFile(p)
  BY <1>1 DEF News, FileFor, CacheFile, LocalFile
<1>3. CASE Collect
  <2>1. /\ files' = [p \in Wanted |-> IF p \in News(toDowngrade) THEN CacheFile(p) ELSE FileFor(p)]
        /\ mode # "files"
    BY <1>3 DEF Collect, Finish
  <2>2. mode = "changes"
    BY <1>1, <2>1 DEF ModeInv
  <2>. QED BY <1>1, <1>2, <2>1, <2>2, WantedIsInstalled DEF FilesInv
<1>4. CASE UNCHANGED files /\ pc \in {"change", "add"}
  BY <1>1, <1>2, <1>4 DEF FilesInv
<1>. QED BY <1>3, <1>4, ChangingKeeps

\* What librpm is told to erase for a set of upgrades.
LEMMA ErasedWithOneMore ==
  ASSUME NEW add, NEW p
  PROVE  (UNION {SameName(q) \cap system : q \in (add \cup {p}) \ toInstall}) =
         (UNION {SameName(q) \cap system : q \in add \ toInstall})
           \cup (IF p \in toInstall THEN {} ELSE SameName(p) \cap system)
<1>. DEFINE Of(q) == SameName(q) \cap system
<1>. HIDE DEF Of
<1>1. (UNION {Of(q) : q \in (add \cup {p}) \ toInstall}) =
      (UNION {Of(q) : q \in add \ toInstall}) \cup (IF p \in toInstall THEN {} ELSE Of(p))
  OBVIOUS
<1>. QED BY <1>1 DEF Of

LEMMA AddKept ==
  ASSUME PairInv, AnswerInv, AddInv, TransactionNext
  PROVE  AddInv'
<1>. SUFFICES ASSUME pc' = "add" PROVE AddInv'
  BY DEF AddInv
<1>1. UNCHANGED <<toInstall, toRemove, toUpgrade, toDowngrade, system>>
  BY ChangingKeeps
<1>2. /\ News(toUpgrade)' = News(toUpgrade)
      /\ \A p : SameName(p)' = SameName(p)
      /\ NoMap' = NoMap
  BY <1>1 DEF News, SameName, NoMap
<1>3. CASE AddRemove
  <2>1. /\ toDowngrade = NoMap
        /\ elements'.erase = {p \in system : \E q \in toRemove : Name[q] = Name[p]}
        /\ elements'.add = {}
    BY <1>3 DEF AddRemove, Finish
  <2>2. (UNION {SameName(p) \cap system : p \in {} \ toInstall}) = {}
    OBVIOUS
  <2>. QED BY <1>1, <1>2, <2>1, <2>2 DEF AddInv
<1>4. CASE AddPackage
  <2>1. PICK p \in (toInstall \cup News(toUpgrade)) \ elements.add :
          elements' = [erase |-> elements.erase \cup
                                   (IF p \in toInstall THEN {} ELSE SameName(p) \cap system),
                       add |-> elements.add \cup {p}]
    BY <1>4 DEF AddPackage, Finish
  <2>2. PICK add : add = elements.add
    OBVIOUS
  <2>3. elements'.add = add \cup {p}
    BY <2>1, <2>2
  <2>4. elements'.erase = elements.erase \cup (IF p \in toInstall THEN {} ELSE SameName(p) \cap system)
    BY <2>1
  <2>5. /\ toDowngrade = NoMap
        /\ add \subseteq toInstall \cup News(toUpgrade)
        /\ elements.erase = {q \in system : \E r \in toRemove : Name[r] = Name[q]}
                              \cup (UNION {SameName(q) \cap system : q \in add \ toInstall})
    BY <1>4, <2>2 DEF AddPackage, AddInv
  <2>6. elements'.erase = {q \in system : \E r \in toRemove : Name[r] = Name[q]}
                            \cup (UNION {SameName(q) \cap system : q \in (add \cup {p}) \ toInstall})
    BY <2>4, <2>5, ErasedWithOneMore
  <2>7. elements'.erase = {q \in system' : \E r \in toRemove' : Name[r] = Name[q]}
                            \cup (UNION {SameName(q)' \cap system' : q \in elements'.add \ toInstall'})
    BY <1>1, <1>2, <2>3, <2>6
  <2>. QED BY <1>1, <1>2, <2>1, <2>3, <2>5, <2>7 DEF AddInv
<1>5. CASE UNCHANGED elements /\ pc = "add"
  BY <1>1, <1>2, <1>5 DEF AddInv
<1>6. AddRemove \/ AddPackage \/ (UNCHANGED elements /\ pc = "add")
  <2>1. CASE Collect \/ AddRemove
    BY <2>1 DEF Collect, Finish
  <2>2. CASE UNCHANGED files /\ pc \in {"change", "add"}
    BY <2>2 DEF TransactionNext, TransactionStep, Unpaired, Pair, Decide, ReadUrls, PrepareFetch, Fetch, Collect,
                NotRun, Run, UpdateUrls, OtherInstall, otherVars, Finish
  <2>. QED BY <2>1, <2>2, ChangingKeeps
<1>. QED BY <1>3, <1>4, <1>5, <1>6

-----------------------------------------------------------------------------
LEMMA MoveInvInit ==
  ASSUME TransactionInit
  PROVE  MoveInv
<1>1. pc = "pair" /\ pc \notin {"readUrls", "change", "add"} \cup Moving
  BY DEF TransactionInit, Moving
<1>2. AnswerInv
  <2>1. system \in Systems /\ answer \in Answers(system) /\ result = "none" /\ toUpgrade = NoMap
    BY DEF TransactionInit
  <2>2. system \subseteq Pkgs /\ answer.system = system
    BY <2>1, VerAssumption DEF Answers
  <2>. QED BY <1>1, <2>1, <2>2 DEF AnswerInv, NoMap
<1>3. UrlInv
  BY <1>1 DEF UrlInv, TransactionInit, NoMap
<1>4. CacheInv
  <2>1. \A b \in BaseNames : cache[b] \in {Absent, Page}
    BY DEF TransactionInit, FetchInit, EmptyCache
  <2>2. DOMAIN cache = BaseNames
    BY DEF TransactionInit, FetchInit, EmptyCache
  <2>. QED BY <2>1, <2>2, AbsentAssumption, Contents DEF CacheInv
<1>. QED BY <1>1, <1>2, <1>3, <1>4 DEF MoveInv, FetchInv, ArrivedInv, ModeInv, FilesInv, AddInv

LEMMA MoveInvKept ==
  ASSUME PairInv, MoveInv, [TransactionNext]_vars
  PROVE  MoveInv'
<1>1. CASE TransactionNext
  BY <1>1, AnswerKept, UrlKept, CacheKept, FetchKept, ArrivedKept, ModeKept, FilesKept, AddKept DEF MoveInv
<1>2. CASE UNCHANGED vars
  <2>1. UNCHANGED <<cache, fetchStage, fetchMap, current, now, total, toInstall, toRemove, toUpgrade, toDowngrade,
                    urlFile, urls, files, elements, mode, result, system, pc, answer, alone>>
    BY <1>2 DEF vars, fetchVars, transferVars, taskVars, otherVars
  <2>2. AnswerInv'
    BY <2>1 DEF MoveInv, AnswerInv, Answers, SameName
  <2>3. UrlInv' /\ CacheInv' /\ FetchInv' /\ ModeInv'
    BY <2>1 DEF MoveInv, UrlInv, CacheInv, BaseNames, Whole, FetchInv, ModeInv
  <2>4. ArrivedInv' /\ FilesInv' /\ AddInv'
    BY <2>1 DEF MoveInv, ArrivedInv, Whole, Part, Page, FilesInv, FileFor, CacheFile, LocalFile, News, AddInv,
                NoMap, SameName
  <2>. QED BY <2>2, <2>3, <2>4 DEF MoveInv
<1>. QED BY <1>1, <1>2

LEMMA ChangesInvHolds == TransactionSpec => [](PairInv /\ MoveInv)
<1>1. TransactionInit => PairInv /\ MoveInv
  BY PairInvInit, MoveInvInit
<1>2. PairInv /\ MoveInv /\ [TransactionNext]_vars => PairInv' /\ MoveInv'
  BY PairInvKept, MoveInvKept
<1>. QED BY <1>1, <1>2, PTL DEF TransactionSpec

-----------------------------------------------------------------------------
\* At the changes: everything of the answer is installed from its own file.
LEMMA FilesAtChanges ==
  ASSUME PairInv, MoveInv, pc = "add"
  PROVE  /\ toDowngrade = NoMap /\ News(toDowngrade) = {} /\ DOMAIN toDowngrade = {}
         /\ mode = "changes" /\ fetchStage = "fetched" /\ fetchMap = {}
         /\ files = [p \in answer.install |-> FileFor(p)]
         /\ \A p \in answer.install : p \in DOMAIN urls /\ urls[p] \in {"remote", "local"}
         /\ alone => \A p \in answer.install : urls[p] = "remote" => cache[Base[p]] \in {Whole(p), Page}
<1>1. toDowngrade = NoMap
  BY DEF MoveInv, AddInv
<1>2. News(toDowngrade) = {} /\ DOMAIN toDowngrade = {}
  BY <1>1 DEF News, NoMap
<1>3. pc \in Moving /\ pc # "fetch"
  BY DEF Moving
<1>4. mode = "changes" /\ files = [p \in answer.install |-> FileFor(p)]
  BY <1>2 DEF MoveInv, FilesInv
<1>5. fetchStage = "fetched" /\ fetchMap = {}
  BY <1>3 DEF MoveInv, FetchInv
<1>6. \A p \in answer.install : p \in DOMAIN urls /\ urls[p] \in {"remote", "local"}
  BY <1>3 DEF MoveInv, UrlInv
<1>7. alone => \A p \in answer.install : urls[p] = "remote" => cache[Base[p]] \in {Whole(p), Page}
  BY <1>3, <1>5 DEF MoveInv, ArrivedInv
<1>. QED BY <1>1, <1>2, <1>4, <1>5, <1>6, <1>7

\* Whatever has been fetched in whatever order, and whatever another process
\* does in the cache: rpm is given, for each package of the answer, the local
\* file of that package or its file in the cache, and unless another process
\* was there, the latter is what this run has fetched for it.
THEOREM FilesAreTheirOwn == TransactionSpec => []FilesMatchAnswer
<1>1. PairInv /\ MoveInv => FilesMatchAnswer
  <2>. SUFFICES ASSUME PairInv, MoveInv, pc = "add", NEW p \in answer.install
                PROVE  IF urls[p] = "local" THEN files[p] = LocalFile(p)
                       ELSE files[p] = CacheFile(p) /\ (alone => cache[Base[p]] \in {Whole(p), Page})
    BY DEF FilesMatchAnswer
  <2>1. files[p] = FileFor(p) /\ urls[p] \in {"remote", "local"}
    BY FilesAtChanges
  <2>2. alone /\ urls[p] = "remote" => cache[Base[p]] \in {Whole(p), Page}
    BY FilesAtChanges
  <2>. QED BY <2>1, <2>2 DEF FileFor
<1>. QED BY <1>1, ChangesInvHolds, PTL

-----------------------------------------------------------------------------
\* The step that changes the system comes after the user was asked, when every
\* package of the answer has a URL and a file and nothing is left to fetch, and
\* never when something is to be downgraded.
THEOREM SystemChangesLast == TransactionSpec => ChangesComeLast
<1>. DEFINE Asked == /\ mode = "changes" /\ toDowngrade = NoMap
                     /\ \A p \in answer.install : p \in DOMAIN files /\ urls[p] \in {"remote", "local"}
                     /\ fetchMap = {} /\ fetchStage = "fetched"
<1>1. ASSUME PairInv, MoveInv, TransactionNext, system' # system
      PROVE  Asked
  <2>1. Run
    BY <1>1 DEF TransactionNext, TransactionStep, Unpaired, Pair, Decide, ReadUrls, PrepareFetch, Fetch,
                Collect, AddRemove, AddPackage, NotRun, UpdateUrls, OtherInstall
  <2>2. pc = "add"
    BY <2>1 DEF Run
  <2>. QED BY <1>1, <2>2, FilesAtChanges
<1>2. ASSUME PairInv, MoveInv, [TransactionNext]_vars
      PROVE  [system' # system => Asked]_vars
  BY <1>1, <1>2
<1>3. TransactionSpec => [][system' # system => Asked]_vars
  BY <1>2, ChangesInvHolds, PTL DEF TransactionSpec
<1>. QED BY <1>3 DEF ChangesComeLast

-----------------------------------------------------------------------------
\* The end.

\* All packages of a name that the answer removes.
Gone == {p \in answer.system : \E q \in answer.remove : Name[q] = Name[p]}

\* What librpm is told to erase when it finds no problem: all packages of a
\* name that is removed.  For a removal that was dropped for an installed
\* package of the same version, it is the absence of problems that tells.
LEMMA ErasedAreGone ==
  ASSUME PairInv, MoveInv, pc = "add", toInstall \cup News(toUpgrade) \subseteq elements.add, ~ Problem
  PROVE  elements.add = answer.install /\ elements.erase = Gone
<1>1. system = answer.system /\ answer.remove \subseteq system
  BY DEF MoveInv, AnswerInv, Answers
<1>2. /\ elements.add = toInstall \cup News(toUpgrade)
      /\ elements.erase = {p \in system : \E q \in toRemove : Name[q] = Name[p]}
                            \cup (UNION {SameName(p) \cap system : p \in elements.add \ toInstall})
  BY DEF MoveInv, AddInv
<1>3. elements.add = answer.install
  BY <1>2, FilesAtChanges DEF PairInv, PairingLosesNothing
<1>4. elements.add \ toInstall = News(toUpgrade)
  BY <1>2 DEF PairInv, PairingLosesNothing
<1>5. \A p \in system : p \in elements.erase <=>
        \/ \E q \in toRemove : Name[q] = Name[p]
        \/ \E old \in DOMAIN toUpgrade : Name[old] = Name[p]
  <2>1. \A p \in system : p \in elements.erase <=>
          \/ \E q \in toRemove : Name[q] = Name[p]
          \/ \E new \in News(toUpgrade) : p \in SameName(new)
    BY <1>2, <1>4
  <2>2. \A p \in system : \A new : p \in SameName(new) <=> Name[p] = Name[new]
    BY <1>1 DEF SameName, MoveInv, AnswerInv
  <2>3. \A old \in DOMAIN toUpgrade : Name[toUpgrade[old]] = Name[old]
    BY DEF MoveInv, AnswerInv
  <2>. QED BY <2>1, <2>2, <2>3 DEF News
<1>6. elements.erase \subseteq system
  BY <1>2
<1>7. \A q \in answer.remove : q \in elements.erase
  <2>. SUFFICES ASSUME NEW q \in answer.remove PROVE q \in elements.erase
    OBVIOUS
  <2>1. CASE q \in toRemove \cup DOMAIN toUpgrade
    BY <1>1, <1>5, <2>1
  <2>2. CASE q \notin toRemove \cup DOMAIN toUpgrade
    <3>1. PICK p \in toInstall : Name[p] = Name[q] /\ Ver[p] = Ver[q]
      BY <2>2, FilesAtChanges DEF PairInv, PairingLosesNothing
    <3>2. q \in SameName(p) \cap system
      BY <1>1, <3>1 DEF SameName, MoveInv, AnswerInv
    <3>. QED BY <1>2, <3>1, <3>2 DEF Problem
  <2>. QED BY <2>1, <2>2
<1>8. \A p \in system : p \in elements.erase <=> \E q \in answer.remove : Name[q] = Name[p]
  <2>1. ASSUME NEW p \in system, p \in elements.erase
        PROVE  \E q \in answer.remove : Name[q] = Name[p]
    BY <1>5, <2>1 DEF PairInv, PairingLosesNothing
  <2>2. ASSUME NEW p \in system, NEW q \in answer.remove, Name[q] = Name[p]
        PROVE  p \in elements.erase
    BY <1>1, <1>5, <1>7, <2>2
  <2>. QED BY <2>1, <2>2
<1>. QED BY <1>1, <1>3, <1>6, <1>8 DEF Gone

\* What comes with a file: a package of its base name, and without another
\* process at the cache the package itself.
LEMMA FilesHoldTheirOwn ==
  ASSUME PairInv, MoveInv, pc = "add", NEW p \in answer.install, WholeIn(files[p]) # {}
  PROVE  /\ \A q \in WholeIn(files[p]) : Base[q] = Base[p]
         /\ alone => WholeIn(files[p]) = {p}
<1>1. /\ files[p] = FileFor(p) /\ urls[p] \in {"remote", "local"}
      /\ alone /\ urls[p] = "remote" => cache[Base[p]] \in {Whole(p), Page}
  BY FilesAtChanges
<1>2. p \in Pkgs
  BY OwnFiles DEF MoveInv
<1>3. CASE urls[p] = "local"
  <2>1. WholeIn(files[p]) = {p}
    BY <1>1, <1>3 DEF WholeIn, FileFor, LocalFile
  <2>. QED BY <2>1
<1>4. CASE urls[p] = "remote"
  <2>1. WholeIn(files[p]) = {q \in Pkgs : cache[Base[p]] = Whole(q)}
    BY <1>1, <1>4 DEF WholeIn, FileFor, CacheFile
  <2>2. \A q \in WholeIn(files[p]) : Base[q] = Base[p]
    BY <1>2, <2>1, BaseIsName DEF MoveInv, CacheInv
  <2>3. ASSUME alone PROVE WholeIn(files[p]) = {p}
    <3>1. PICK q \in Pkgs : cache[Base[p]] = Whole(q)
      BY <2>1
    <3>2. cache[Base[p]] = Whole(p)
      BY <1>1, <1>4, <2>3, <3>1, Contents
    <3>. QED BY <1>2, <2>1, <3>2, Contents
  <2>. QED BY <2>2, <2>3
<1>. QED BY <1>1, <1>3, <1>4

\* The step that carries the answer out.
LEMMA RunCarriesOut ==
  ASSUME PairInv, MoveInv, Run, result' = "carriedOut"
  PROVE  AnswerIsCarriedOut'
<1>. DEFINE come == UNION {WholeIn(files[p]) : p \in elements.add}
<1>1. /\ pc = "add" /\ toInstall \cup News(toUpgrade) \subseteq elements.add
      /\ ~ Problem
      /\ \A p \in elements.add : WholeIn(files[p]) # {}
      /\ system' = (system \ elements.erase) \cup come
      /\ answer' = answer /\ alone' = alone
  BY DEF Run, Finish
<1>2. elements.add = answer.install /\ elements.erase = Gone /\ system = answer.system
  BY <1>1, ErasedAreGone DEF MoveInv, AnswerInv
<1>3. \A p \in answer.install : /\ WholeIn(files[p]) # {}
                                /\ \A q \in WholeIn(files[p]) : Base[q] = Base[p]
                                /\ alone => WholeIn(files[p]) = {p}
  BY <1>1, <1>2, FilesHoldTheirOwn
<1>4. come = UNION {WholeIn(files[p]) : p \in answer.install}
  BY <1>2
<1>5. \A q \in come : \E p \in answer.install : Base[p] = Base[q]
  BY <1>3, <1>4
<1>6. \A p \in answer.install : \E q \in come : Base[q] = Base[p]
  BY <1>3, <1>4
<1>7. ASSUME alone PROVE come = answer.install
  <2>1. \A p \in answer.install : WholeIn(files[p]) = {p}
    BY <1>3, <1>7
  <2>2. \A q : q \in come <=> \E p \in answer.install : q \in WholeIn(files[p])
    BY <1>4
  <2>3. \A q : q \in come <=> \E p \in answer.install : q \in {p}
    BY <2>1, <2>2
  <2>. QED BY <2>3
<1>8. system' = (answer.system \ Gone) \cup come
  BY <1>1, <1>2
<1>. HIDE DEF come
<1>9. {Base[p] : p \in (answer.system \ Gone) \cup come} = {Base[p] : p \in (answer.system \ Gone) \cup answer.install}
  BY <1>5, <1>6
<1>10. alone => (answer.system \ Gone) \cup come = (answer.system \ Gone) \cup answer.install
  BY <1>7
<1>. QED BY <1>1, <1>8, <1>9, <1>10 DEF AnswerIsCarriedOut, Gone

\* When rpm tells that it has done everything, the system is the one the task
\* solver has found, except that every package of a name it removes is gone,
\* whatever way the answer was split into removals, installations and
\* upgrades; with another process at the cache, it is so up to the names and
\* versions of the packages.
THEOREM TheAnswerIsCarriedOut == TransactionSpec => []AnswerIsCarriedOut
<1>1. TransactionInit => AnswerIsCarriedOut
  BY DEF TransactionInit, AnswerIsCarriedOut
<1>2. ASSUME PairInv, MoveInv, AnswerIsCarriedOut, [TransactionNext]_vars
      PROVE  AnswerIsCarriedOut'
  <2>1. CASE Run
    BY <1>2, <2>1, RunCarriesOut DEF AnswerIsCarriedOut
  <2>2. CASE TransactionNext /\ ~ Run
    <3>1. result = "none"
      BY <1>2, <2>2, MovingKeeps DEF MoveInv, AnswerInv
    <3>2. result' # "carriedOut"
      BY <2>2, <3>1 DEF TransactionNext, TransactionStep, Unpaired, Pair, Decide, ReadUrls, PrepareFetch, Fetch,
            Collect, AddRemove, AddPackage, NotRun, UpdateUrls, OtherInstall, otherVars, Finish
    <3>. QED BY <3>2 DEF AnswerIsCarriedOut
  <2>3. CASE UNCHANGED vars
    BY <1>2, <2>3 DEF vars, otherVars, AnswerIsCarriedOut
  <2>. QED BY <1>2, <2>1, <2>2, <2>3
<1>. QED BY <1>1, <1>2, ChangesInvHolds, PTL DEF TransactionSpec

-----------------------------------------------------------------------------
\* The percentages.

LEMMA DivIsNat ==
  ASSUME NEW a \in Nat, NEW d \in Nat \ {0}
  PROVE  a \div d \in Nat
OBVIOUS

LEMMA DivBounds ==
  ASSUME NEW a \in Nat, NEW d \in Nat \ {0}
  PROVE  d * (a \div d) <= a /\ a < d * (a \div d) + d
OBVIOUS

LEMMA DivGrows ==
  ASSUME NEW a \in Nat, NEW b \in Nat, NEW d \in Nat \ {0}, a <= b
  PROVE  a \div d <= b \div d
BY DivBounds, DivIsNat

LEMMA DivOfProduct ==
  ASSUME NEW a \in Nat, NEW d \in Nat \ {0}
  PROVE  (a * d) \div d = a /\ (d * a) \div d = a
BY DivBounds, DivIsNat

\* The share of a file, and what a part of it adds to those before.
LEMMA Shares ==
  ASSUME NEW count \in Nat \ {0}, NEW number \in Nat, NEW n \in 0 .. Blocks, number < count
  PROVE  /\ 100 \div count \in Nat
         /\ (n * (100 \div count)) \div Blocks \in 0 .. (100 \div count)
         /\ number * (100 \div count) \in Nat
         /\ (number + 1) * (100 \div count) = number * (100 \div count) + (100 \div count)
         /\ (number + 1) * (100 \div count) <= 100
<1>1. PICK w \in Nat : w = 100 \div count
  BY DivIsNat
<1>2. count * w <= 100
  BY <1>1, DivBounds
<1>3. n \in Nat /\ n <= Blocks /\ Blocks \in Nat \ {0}
  BY BlocksAssumption
<1>4. n * w \in Nat /\ Blocks * w \in Nat /\ n * w <= Blocks * w
  BY <1>3
<1>5. (Blocks * w) \div Blocks = w
  BY <1>3, DivOfProduct
<1>6. (n * w) \div Blocks \in Nat /\ (n * w) \div Blocks <= w
  BY <1>3, <1>4, <1>5, DivIsNat, DivGrows
<1>7. number * w \in Nat /\ (number + 1) * w = number * w + w
  OBVIOUS
<1>8. (number + 1) * w <= count * w
  OBVIOUS
<1>9. (number + 1) * w <= 100
  BY <1>2, <1>7, <1>8
<1>. QED BY <1>1, <1>6, <1>7, <1>9

\* While files are fetched: the parts are counted, and nothing more has been
\* told than has come.
Share == 100 \div partCount

CountInv ==
  /\ partCount \in Nat /\ partNumber \in Nat
  /\ partNumber + Cardinality(fetchMap) + (IF fetchStage = "transfer" THEN 1 ELSE 0) = partCount

ToldInv ==
  /\ partCount = 0 => lastTotal = 0
  /\ partCount # 0 =>
       lastTotal <= IF fetchStage # "transfer" THEN partNumber * Share
                    ELSE IF total = 0 THEN (partNumber + 1) * Share
                    ELSE TotalPercents

PercentInv ==
  /\ lastTotal \in 0 .. 100
  /\ total \in {0, Blocks}
  /\ pc = "fetch" => CountInv /\ ToldInv

\* The files still to be fetched are finitely many.
LEMMA CountOfFiles ==
  ASSUME AnswerInv, FetchInv, pc = "fetch"
  PROVE  /\ IsFiniteSet(fetchMap) /\ Cardinality(fetchMap) \in Nat
         /\ \A p \in fetchMap : Cardinality(fetchMap \ {p}) = Cardinality(fetchMap) - 1
<1>1. fetchMap \subseteq Pkgs
  BY OwnFiles DEF FetchInv, Moving
<1>2. IsFiniteSet(fetchMap)
  BY <1>1, PkgsAssumption, FS_Subset
<1>3. PICK S : S = fetchMap
  OBVIOUS
<1>4. Cardinality(S) \in Nat
  BY <1>2, <1>3, FS_CardinalityType
<1>5. \A p \in S : Cardinality(S \ {p}) = Cardinality(S) - 1
  BY <1>2, <1>3, FS_RemoveElement
<1>. QED BY <1>2, <1>3, <1>4, <1>5

LEMMA PercentStep ==
  ASSUME AnswerInv, FetchInv, PercentInv, FetchStep, pc = "fetch"
  PROVE  /\ lastTotal' >= lastTotal /\ lastTotal' \in 0 .. 100
         /\ total' \in {0, Blocks}
         /\ fetchStage' # "failed" => CountInv' /\ ToldInv'
<1>1. /\ CountInv /\ ToldInv /\ lastTotal \in 0 .. 100 /\ total \in {0, Blocks}
      /\ lastTotal \in Nat /\ lastTotal <= 100
  BY DEF PercentInv
<1>2. fetchStage = "transfer" => now \in 0 .. Blocks
  BY DEF FetchInv, Moving
<1>3. Blocks \in Nat \ {0}
  BY BlocksAssumption
<1>4. Cardinality(fetchMap) \in Nat /\ \A p \in fetchMap : Cardinality(fetchMap \ {p}) = Cardinality(fetchMap) - 1
  BY CountOfFiles
<1>5. fetchStage = "transfer" => partNumber < partCount /\ partCount \in Nat \ {0} /\ partNumber \in Nat
  BY <1>1, <1>4 DEF CountInv
<1>6. ASSUME fetchStage = "transfer"
      PROVE  /\ Share \in Nat
             /\ (now * Share) \div Blocks \in 0 .. Share
             /\ partNumber * Share \in Nat
             /\ (partNumber + 1) * Share = partNumber * Share + Share
             /\ (partNumber + 1) * Share <= 100
  BY <1>2, <1>5, <1>6, Shares DEF Share
<1>7. TotalPercents = partNumber * Share + (now * Share) \div total
  BY DEF TotalPercents, Share
<1>8. UNCHANGED partCount => Share' = Share
  BY DEF Share
<1>9. CASE NextFile
  <2>1. PICK p \in fetchMap : fetchMap' = fetchMap \ {p}
    BY <1>9 DEF NextFile
  <2>2. /\ fetchStage = "next" /\ fetchStage' = "transfer" /\ now' = 0 /\ total' \in {0, Blocks}
        /\ UNCHANGED <<partNumber, partCount, lastTotal>>
    BY <1>9 DEF NextFile, progressVars
  <2>3. CountInv'
    <3>1. Cardinality(fetchMap') = Cardinality(fetchMap) - 1
      BY <1>4, <2>1
    <3>2. (Cardinality(fetchMap))' = Cardinality(fetchMap')
      OBVIOUS
    <3>. QED BY <1>1, <1>4, <2>2, <3>1, <3>2 DEF CountInv
  <2>4. partNumber < partCount /\ partCount \in Nat \ {0} /\ partNumber \in Nat
    <3>1. Cardinality(fetchMap) - 1 \in Nat
      <4>1. PICK T : T = fetchMap \ {p}
        OBVIOUS
      <4>2. Cardinality(T) \in Nat
        BY <4>1, CountOfFiles, FS_RemoveElement, FS_CardinalityType
      <4>. QED BY <1>4, <4>1, <4>2
    <3>. QED BY <1>1, <1>4, <2>2, <3>1 DEF CountInv
  <2>5. /\ Share \in Nat /\ partNumber * Share \in Nat
        /\ (partNumber + 1) * Share = partNumber * Share + Share
    <3>1. PICK n \in 0 .. Blocks : n = 0
      BY <1>3
    <3>. QED BY <2>4, <3>1, Shares DEF Share
  <2>6. lastTotal <= partNumber * Share
    BY <1>1, <2>2, <2>4 DEF ToldInv
  <2>7. TotalPercents' = partNumber * Share + (0 * Share) \div total'
    BY <2>2 DEF TotalPercents, Share
  <2>8. (0 * Share) \div Blocks = 0
    BY <1>3, <2>5, DivOfProduct
  <2>9. ToldInv'
    BY <1>1, <1>8, <2>2, <2>4, <2>5, <2>6, <2>7, <2>8 DEF ToldInv
  <2>. QED BY <1>1, <2>2, <2>3, <2>9
<1>10. CASE NewDataBlock
  <2>1. /\ fetchStage = "transfer" /\ now' = now + 1 /\ now < Blocks
        /\ UNCHANGED <<fetchStage, fetchMap, total, partNumber, partCount, lastTotal>>
    BY <1>10 DEF NewDataBlock, progressVars
  <2>2. TotalPercents' = partNumber * Share + ((now + 1) * Share) \div total
    BY <2>1 DEF TotalPercents, Share
  <2>3. /\ (now * Share) \div Blocks \in Nat /\ ((now + 1) * Share) \div Blocks \in Nat
        /\ (now * Share) \div Blocks <= ((now + 1) * Share) \div Blocks
    <3>1. PICK w \in Nat : w = Share
      BY <1>6, <2>1
    <3>2. now * w \in Nat /\ (now + 1) * w \in Nat /\ now * w <= (now + 1) * w
      BY <1>2, <1>3, <2>1
    <3>3. PICK a \in Nat, b \in Nat : a = now * w /\ b = (now + 1) * w /\ a <= b
      BY <3>2
    <3>4. a \div Blocks \in Nat /\ b \div Blocks \in Nat /\ a \div Blocks <= b \div Blocks
      BY <1>3, <3>3, DivIsNat, DivGrows
    <3>. QED BY <3>1, <3>3, <3>4
  <2>4. CountInv'
    BY <1>1, <2>1 DEF CountInv
  <2>5. lastTotal <= IF total = 0 THEN (partNumber + 1) * Share ELSE TotalPercents
    BY <1>1, <1>5, <2>1 DEF ToldInv
  <2>6. ASSUME total = 0 PROVE ToldInv'
    <3>1. lastTotal' <= (partNumber' + 1) * Share'
      BY <1>8, <2>1, <2>5, <2>6
    <3>2. fetchStage' = "transfer" /\ total' = 0 /\ partCount' # 0
      BY <1>5, <2>1, <2>6
    <3>. QED BY <3>1, <3>2 DEF ToldInv
  <2>7. ASSUME total = Blocks PROVE ToldInv'
    <3>1. lastTotal <= partNumber * Share + (now * Share) \div Blocks
      BY <1>3, <1>7, <2>5, <2>7
    <3>2. TotalPercents' = partNumber * Share + ((now + 1) * Share) \div Blocks
      BY <2>2, <2>7
    <3>3. lastTotal <= TotalPercents'
      BY <1>1, <1>6, <2>1, <2>3, <3>1, <3>2
    <3>4. lastTotal' <= TotalPercents'
      BY <2>1, <3>3
    <3>5. fetchStage' = "transfer" /\ total' # 0 /\ partCount' # 0
      BY <1>3, <1>5, <2>1, <2>7
    <3>. QED BY <3>4, <3>5 DEF ToldInv
  <2>. QED BY <1>1, <2>1, <2>4, <2>6, <2>7
<1>11. CASE ErrorPage
  <2>1. /\ fetchStage = "transfer" /\ now = 0 /\ total' = 0
        /\ UNCHANGED <<fetchStage, fetchMap, partNumber, partCount, lastTotal>>
    BY <1>11 DEF ErrorPage, progressVars
  <2>2. CountInv'
    BY <1>1, <2>1 DEF CountInv
  <2>3. ToldInv'
    BY <1>1, <1>3, <1>5, <1>6, <1>7, <1>8, <2>1 DEF ToldInv
  <2>. QED BY <1>1, <2>1, <2>2, <2>3
<1>12. CASE OnCurlProgress
  <2>1. /\ fetchStage = "transfer" /\ total # 0 /\ lastTotal' = TotalPercents
        /\ fetchStage' \in {"transfer", "failed"}
        /\ UNCHANGED <<fetchMap, now, total, partNumber, partCount>>
    BY <1>12 DEF OnCurlProgress
  <2>2. lastTotal' = partNumber * Share + (now * Share) \div Blocks
    BY <1>1, <1>7, <2>1
  <2>3. lastTotal' \in 0 .. 100
    BY <1>6, <2>1, <2>2
  <2>4. lastTotal' >= lastTotal
    BY <1>1, <1>5, <2>1, <2>3 DEF ToldInv
  <2>5. fetchStage' = "transfer" => CountInv'
    BY <1>1, <2>1 DEF CountInv
  <2>6. TotalPercents' = TotalPercents
    BY <2>1 DEF TotalPercents
  <2>7. fetchStage' = "transfer" => ToldInv'
    BY <1>5, <1>8, <2>1, <2>3, <2>6 DEF ToldInv
  <2>. QED BY <1>1, <2>1, <2>3, <2>4, <2>5, <2>7
<1>13. CASE EndFile
  <2>1. /\ fetchStage = "transfer" /\ now = Blocks /\ partNumber' = partNumber + 1 /\ fetchStage' = "next"
        /\ UNCHANGED <<fetchMap, total, partCount, lastTotal>>
    BY <1>13 DEF EndFile
  <2>2. CountInv'
    BY <1>1, <1>4, <2>1 DEF CountInv
  <2>3. lastTotal <= (partNumber + 1) * Share
    BY <1>1, <1>3, <1>5, <1>6, <1>7, <2>1 DEF ToldInv
  <2>4. ToldInv'
    BY <1>5, <1>8, <2>1, <2>3 DEF ToldInv
  <2>. QED BY <1>1, <2>1, <2>2, <2>4
<1>14. CASE EndFetch
  <2>1. /\ fetchStage = "next" /\ fetchStage' = "fetched"
        /\ UNCHANGED <<fetchMap, total, partNumber, partCount, lastTotal>>
    BY <1>14 DEF EndFetch, progressVars
  <2>2. CountInv'
    BY <1>1, <2>1 DEF CountInv
  <2>3. ToldInv'
    BY <1>1, <1>8, <2>1 DEF ToldInv
  <2>. QED BY <1>1, <2>1, <2>2, <2>3
<1>15. CASE TransferFails
  BY <1>1, <1>15 DEF TransferFails, progressVars
<1>. QED BY <1>9, <1>10, <1>11, <1>12, <1>13, <1>14, <1>15 DEF FetchStep

LEMMA PercentKept ==
  ASSUME PairInv, MoveInv, PercentInv, TransactionNext
  PROVE  /\ PercentInv'
         /\ fetchStage # "idle" /\ pc' = pc => lastTotal' >= lastTotal
<1>0. lastTotal \in 0 .. 100 /\ lastTotal >= lastTotal
  BY DEF PercentInv
<1>1. CASE Fetch
  <2>1. FetchStep /\ pc = "fetch" /\ (fetchStage' = "failed" => pc' = "over")
    BY <1>1 DEF Fetch, Finish
  <2>. QED BY <1>1, <2>1, PercentStep DEF MoveInv, PercentInv
<1>2. CASE PrepareFetch
  <2>1. CASE pc' = "fetch"
    <3>1. /\ fetchMap' = {p \in Wanted : urls[p] = "remote"} /\ partCount' = Cardinality(fetchMap')
          /\ partNumber' = 0 /\ lastTotal' = 0 /\ total' = total /\ fetchStage' = "next" /\ pc # "fetch"
      BY <1>2, <2>1 DEF PrepareFetch, BeginFetch, Finish
    <3>2. fetchMap' \subseteq Pkgs
      BY <3>1, WantedIsInstalled, OwnFiles DEF MoveInv
    <3>3. PICK S : S = fetchMap'
      OBVIOUS
    <3>4. Cardinality(S) \in Nat
      BY <3>2, <3>3, PkgsAssumption, FS_Subset, FS_CardinalityType
    <3>5. partCount' \in Nat /\ CountInv'
      BY <3>1, <3>3, <3>4 DEF CountInv
    <3>6. Share' \in Nat \/ partCount' = 0
      BY <3>5, DivIsNat DEF Share
    <3>7. ToldInv'
      BY <3>1, <3>5, <3>6 DEF ToldInv
    <3>. QED BY <2>1, <3>1, <3>5, <3>7 DEF PercentInv
  <2>2. CASE pc' # "fetch"
    BY <1>0, <1>2, <2>2 DEF PrepareFetch, Finish, fetchVars, transferVars, progressVars, PercentInv
  <2>. QED BY <2>1, <2>2
<1>3. CASE ~ Fetch /\ ~ PrepareFetch
  <2>1. UNCHANGED <<transferVars, progressVars>>
    BY <1>3 DEF TransactionNext, TransactionStep, Unpaired, Pair, Decide, ReadUrls, Collect,
                AddRemove, AddPackage, NotRun, Run, UpdateUrls, OtherInstall, fetchVars
  <2>2. pc' = "fetch" => pc = "fetch"
    BY <1>3, MovingKeeps DEF TransactionNext, TransactionStep, Unpaired, Pair, Decide, ReadUrls, Collect,
                AddRemove, AddPackage, NotRun, Run, UpdateUrls, OtherInstall, Finish
  <2>3. UNCHANGED <<fetchStage, fetchMap, now, total, partNumber, partCount, lastTotal>>
    BY <2>1 DEF transferVars, progressVars
  <2>. QED BY <1>0, <2>2, <2>3 DEF PercentInv, CountInv, ToldInv, TotalPercents, Share
<1>. QED BY <1>1, <1>2, <1>3

\* However many files there are, of whatever length, known or not: the
\* percentages of all files that ds-install tells do not go back from file to
\* file, though the share of a file is a division of integers, and never
\* exceed 100.
THEOREM PercentagesGrow == TransactionSpec => ProgressGrows
<1>. DEFINE Grows == /\ fetchStage # "idle" /\ pc' = pc => lastTotal' >= lastTotal
                     /\ lastTotal' \in 0 .. 100
<1>1. TransactionInit => PercentInv
  BY DEF TransactionInit, FetchInit, PercentInv
<1>2. ASSUME PairInv, MoveInv, PercentInv, [TransactionNext]_vars
      PROVE  PercentInv' /\ [Grows]_vars
  <2>1. CASE TransactionNext
    BY <1>2, <2>1, PercentKept DEF PercentInv
  <2>2. CASE UNCHANGED vars
    <3>1. UNCHANGED <<fetchStage, fetchMap, now, total, partNumber, partCount, lastTotal, pc>>
      BY <2>2 DEF vars, fetchVars, transferVars, progressVars
    <3>2. PercentInv'
      BY <1>2, <3>1 DEF PercentInv, CountInv, ToldInv, TotalPercents, Share
    <3>. QED BY <2>2, <3>2
  <2>. QED BY <1>2, <2>1, <2>2
<1>3. TransactionSpec => [][Grows]_vars
  BY <1>1, <1>2, ChangesInvHolds, PTL DEF TransactionSpec
<1>. QED BY <1>3 DEF ProgressGrows

=============================================================================
