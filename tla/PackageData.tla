---------------------------- MODULE PackageData ----------------------------
(***************************************************************************)
(* A program that reads what ds-update has written: OperationCore loads    *)
(* the snapshot, and for a transaction TransactionIterator looks up URLs   *)
(* later, once for each kind of change.  Nothing tells it of a run of      *)
(* ds-update meanwhile.  A file that ends too early stops it: readers are  *)
(* asserts (InlineIO.h), and what else is wrong is only logged.            *)
(***************************************************************************)
EXTENDS MetadataUpdate

CONSTANTS
  Asked,      \* the packages to install, to upgrade to and to downgrade to
  Installed   \* the packages of the system

VARIABLES
  kind,    \* which operation reads
  at,      \* where it is
  parts,   \* the parts of the snapshot it has read
  found,   \* the URLs it has looked up
  quiet    \* history: ds-update did not run meanwhile

readerVars == <<kind, at, parts, found, quiet>>
vars == <<updateVars, readerVars>>

\* transaction() with fetchPackages(), and generateSat(): a snapshot without
\* packages is refused.  closure(), ds-require and ds-snapshot go on.
Kinds == {"transaction", "generateSat", "closure", "query"}

Loaded == UNION {parts[p].pkgs : p \in DOMAIN parts}
NotFound == [c \in DOMAIN Asked |-> <<>>]

PackageDataInit ==
  /\ Init
  /\ kind = "none"
  /\ at = "idle"
  /\ parts = <<>>
  /\ found = NotFound
  /\ quiet = TRUE

\* Bound: a reader runs beside one run of ds-update, or beside none.
AtMostOneBeside == at' # "idle" => Cardinality(Running') <= 1

Begin ==
  /\ at = "idle"
  /\ at' = "load"
  /\ quiet' = (Running = {})
  /\ UNCHANGED <<kind, parts, found>>

\* Mutant of LoadPart: the end of the file ends the loading.
LoadPart_UntilEnd ==
  /\ at = "load"
  /\ snapshot # NoFile
  /\ LET p == Len(parts) + 1 IN
     IF p \in DOMAIN snapshot /\ snapshot[p] # Hole
     THEN /\ parts' = Append(parts, snapshot[p])
          /\ at' = IF p < Sections(parts'[1].pkgs) THEN "load" ELSE "read"
     ELSE parts' = parts /\ at' = "read"
  /\ UNCHANGED <<kind, found, quiet>>

\* loadFromFile(): the first part tells how much is to follow.
LoadPart ==
  /\ at = "load"
  /\ snapshot # NoFile
  /\ LET p == Len(parts) + 1 IN
     /\ p \in DOMAIN snapshot /\ snapshot[p] # Hole
     /\ parts' = Append(parts, snapshot[p])
     /\ at' = IF p < Sections(parts'[1].pkgs) THEN "load" ELSE "read"
  /\ UNCHANGED <<kind, found, quiet>>

LoadFails ==
  /\ at = "load"
  /\ \/ snapshot = NoFile
     \/ /\ snapshot # NoFile
        /\ Len(parts) + 1 \in DOMAIN snapshot => snapshot[Len(parts) + 1] = Hole
  /\ at' = "aborted"
  /\ UNCHANGED <<kind, parts, found, quiet>>

\* The installed packages come in, which asserts that there are names; the
\* closure of nothing needs none.  The answer of the solver is what was
\* asked for and is in the snapshot.
Answer ==
  /\ at = "read"
  /\ kind' \in Kinds
  /\ at' = CASE kind' \in {"transaction", "generateSat"} /\ Loaded = {} -> "refused"
             [] kind' = "query" /\ Loaded = {} /\ Installed # {} -> "aborted"
             [] kind' = "transaction" /\ Loaded # {} -> "urls"
             [] OTHER -> "ready"
  /\ UNCHANGED <<parts, found, quiet>>

\* readUrls() of the next kind of change; no file and no URL end it before
\* anything is changed.
ReadUrls ==
  /\ at = "urls"
  /\ \E c \in DOMAIN Asked :
       /\ \A d \in 1 .. c - 1 : found[d] # <<>> \/ Asked[d] \cap Loaded = {}
       /\ found[c] = <<>> /\ Asked[c] \cap Loaded # {}
       /\ urls # NoFile
       /\ found' = [found EXCEPT ![c] = [p \in Asked[c] \cap Loaded |-> UrlIn(urls, p)]]
  /\ UNCHANGED <<kind, at, parts, quiet>>

UrlsRead ==
  /\ at = "urls"
  /\ LET open == {c \in DOMAIN Asked : found[c] = <<>> /\ Asked[c] \cap Loaded # {}}
         missing == \E c \in DOMAIN Asked : \E p \in DOMAIN found[c] : found[c][p] = NoUrl
     IN
     /\ open = {} \/ urls = NoFile
     /\ at' = IF open # {} \/ missing THEN "noUrl" ELSE "ready"
  /\ UNCHANGED <<kind, parts, found, quiet>>

\* The program ends, another one may come.
End ==
  /\ at \in {"ready", "refused", "aborted", "noUrl"}
  /\ kind' = "none"
  /\ at' = "idle"
  /\ parts' = <<>>
  /\ found' = NotFound
  /\ quiet' = TRUE

ReaderNext == Begin \/ LoadPart \/ LoadFails \/ Answer \/ ReadUrls \/ UrlsRead \/ End

PackageDataNext ==
  \/ /\ UpdateNext
     /\ quiet' = (at = "idle" \/ (quiet /\ Running' = {}))
     /\ UNCHANGED <<kind, at, parts, found>>
     /\ AtMostOneBeside
  \/ ReaderNext /\ UNCHANGED updateVars /\ AtMostOneBeside

PackageDataSpec == PackageDataInit /\ [][PackageDataNext]_vars

-----------------------------------------------------------------------------
\* Properties.

DistinctNames == \A r, s \in RepoSet : layout.temp[r] = layout.temp[s] => r = s

\* What the first n repositories offer together, each with one of its lists.
Generations == {g \in [DOMAIN Repos -> UNION {DOMAIN Published[r] : r \in RepoSet}] :
                  \A m \in DOMAIN Repos : g[m] \in DOMAIN Published[Repos[m]]}
Together(g, n) == UNION {RangeOf(Published[Repos[m]][g[m]]) : m \in 1 .. n}
Offers == {Together(g, Len(Repos)) : g \in Generations}

\* What a reader is given when ds-update does not run is one offer of the
\* repositories, whole, and each package with a URL of a repository that has
\* published it: earlier runs that were killed or failed at any step have
\* left something a reader stops at, or nothing.
QuietReaderIsServed ==
  quiet /\ at = "ready" /\ ~ disturbed =>
    /\ DOMAIN parts = 1 .. Sections(Loaded)
    /\ \A p \in DOMAIN parts : parts[p] = [part |-> p, pkgs |-> Loaded]
    /\ Loaded \in Offers
    /\ \A c \in DOMAIN Asked : \A p \in DOMAIN found[c] :
         found[c][p][2] = p /\ p \in EverPublished(found[c][p][1])

\* A run that ends well, with no other beside it, repairs whatever the runs
\* before it have left behind: no reader stops at a file any more.
UpdateRepairs ==
  \A i \in Runs :
    /\ pc[i] = "done" /\ alone[i] /\ bad[i] = {}
    /\ \A j \in i + 1 .. MaxRuns : pc[j] = "idle"
    => /\ at = "noUrl" => ~ quiet
       /\ at = "aborted" /\ quiet => Loaded = {} /\ kind = "query" /\ Installed # {}

\* No line of the file of URLs names a repository for a package it never
\* had, although lists of two repositories may be downloaded to one file; only
\* overlapping runs can get past the sums.
UrlsPointToPublished ==
  urls # NoFile /\ (DistinctNames \/ ~ disturbed) =>
    \A n \in DOMAIN urls :
      urls[n] = Hole \/ urls[n].pkg \in EverPublished(urls[n].url[1])

\* A run that nothing disturbs ends well and leaves no temporary directory,
\* whatever it finds there.
CalmUpdateSucceeds ==
  \A i \in Runs : calm[i] /\ DistinctNames =>
    /\ pc[i] # "failed"
    /\ pc[i] = "done" /\ Running = {} /\ (\A j \in i + 1 .. MaxRuns : pc[j] = "idle") => tmp = NoFile
=============================================================================
