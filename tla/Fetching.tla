------------------------------ MODULE Fetching ------------------------------
(***************************************************************************)
(* FilesFetch and CurlInterface: the files of a map are fetched one after  *)
(* another into a directory, with the percentages told to a listener.  The *)
(* directory (the package cache) belongs to all processes: another one may *)
(* empty it, and fetch files of the same names into it.  A file arrives in *)
(* blocks; its length may be unknown, and a server may answer with a page  *)
(* that says there is none.                                                *)
(***************************************************************************)
EXTENDS Integers, FiniteSets

CONSTANTS
  Pkgs,    \* the packages of the repositories and of the system
  Base,    \* the base name of the URL of each
  Blocks,  \* bound: the blocks of a file
  Absent   \* a file that is not there

ASSUME BlocksAssumption == Blocks \in Nat \ {0}
ASSUME PkgsAssumption == IsFiniteSet(Pkgs)

VARIABLES
  cache,        \* the files in the directory
  fetchStage,   \* what fetch() is doing
  fetchMap,     \* the packages whose files are still to be fetched
  current,      \* the one being fetched
  now,          \* the blocks of it that have come, 0 .. Blocks
  total,        \* its length as libcurl knows it, 0 when it does not
  partNumber,   \* m_currentPartNumber
  partCount,    \* m_partCount
  lastPart,     \* m_lastPartPercents
  lastTotal     \* m_lastTotalPercents

progressVars == <<partNumber, partCount, lastPart, lastTotal>>
transferVars == <<fetchStage, fetchMap, current, now, total>>
fetchVars == <<cache, transferVars, progressVars>>

\* A part of a file, one that another process is fetching, a whole file, and
\* the page of an error.
Part(p) == [pkg |-> p, state |-> "part"]
OthersPart(p) == [pkg |-> p, state |-> "other"]
Whole(p) == [pkg |-> p, state |-> "whole"]
Page == [pkg |-> "none", state |-> "page"]

ASSUME AbsentAssumption == \A p \in Pkgs : Absent # Whole(p)

BaseNames == {Base[p] : p \in Pkgs}
EmptyCache == [n \in BaseNames |-> Absent]

FetchInit ==
  /\ cache \in {EmptyCache, [EmptyCache EXCEPT ![CHOOSE n \in BaseNames : TRUE] = Page]}
  /\ fetchStage = "idle"
  /\ fetchMap = {}
  /\ current = "none"
  /\ now = 0 /\ total = 0
  /\ partNumber = 0 /\ partCount = 0
  /\ lastPart = 0 /\ lastTotal = 0

\* fetch(files).
BeginFetch(files) ==
  /\ fetchStage' = "next"
  /\ fetchMap' = files
  /\ partNumber' = 0
  /\ partCount' = Cardinality(files)
  /\ lastPart' = 0 /\ lastTotal' = 0
  /\ UNCHANGED <<current, now, total>>

\* processFile() creates the file.
NextFile ==
  /\ fetchStage = "next"
  /\ \E p \in fetchMap :
       /\ current' = p
       /\ cache' = [cache EXCEPT ![Base[p]] = Part(p)]
       /\ fetchMap' = fetchMap \ {p}
  /\ total' \in {0, Blocks}
  /\ now' = 0
  /\ fetchStage' = "transfer"
  /\ UNCHANGED progressVars

\* onNewDataBlock(): the block goes to the file that was created, also when
\* that has been unlinked since.
NewDataBlock ==
  /\ fetchStage = "transfer"
  /\ now < Blocks
  /\ now' = now + 1
  /\ cache' = IF now' = Blocks /\ cache[Base[current]] = Part(current)
              THEN [cache EXCEPT ![Base[current]] = Whole(current)] ELSE cache
  /\ UNCHANGED <<fetchStage, fetchMap, current, total, progressVars>>

\* The server has no such file: its page is taken for one.
ErrorPage ==
  /\ fetchStage = "transfer"
  /\ now = 0
  /\ cache[Base[current]] = Part(current)
  /\ cache' = [cache EXCEPT ![Base[current]] = Page]
  /\ now' = Blocks
  /\ total' = 0
  /\ UNCHANGED <<fetchStage, fetchMap, current, progressVars>>

\* onCurlProgress(): percentages of this file and of all of them.  The share
\* of a file is a division of integers.
PartPercents == (now * 100) \div total
TotalPercents == partNumber * (100 \div partCount) + (now * (100 \div partCount)) \div total

\* Only a change is told, and the answer may be to stop (ds-install goes on
\* always).
OnCurlProgress ==
  /\ fetchStage = "transfer"
  /\ total # 0
  /\ PartPercents # lastPart \/ TotalPercents # lastTotal
  /\ lastPart' = PartPercents
  /\ lastTotal' = TotalPercents
  /\ fetchStage' \in {"transfer", "failed"}
  /\ UNCHANGED <<cache, fetchMap, current, now, total, partNumber, partCount>>

\* Mutant of EndFile: the number of the part stays.
EndFile_SamePart ==
  /\ fetchStage = "transfer"
  /\ now = Blocks
  /\ fetchStage' = "next"
  /\ UNCHANGED <<cache, fetchMap, current, now, total, progressVars>>

EndFile ==
  /\ fetchStage = "transfer"
  /\ now = Blocks
  /\ partNumber' = partNumber + 1
  /\ fetchStage' = "next"
  /\ UNCHANGED <<cache, fetchMap, current, now, total, partCount, lastPart, lastTotal>>

EndFetch ==
  /\ fetchStage = "next"
  /\ fetchMap = {}
  /\ fetchStage' = "fetched"
  /\ UNCHANGED <<cache, fetchMap, current, now, total, progressVars>>

\* curl_easy_perform() fails: CurlException.
TransferFails ==
  /\ fetchStage = "transfer"
  /\ now < Blocks
  /\ fetchStage' = "failed"
  /\ UNCHANGED <<cache, fetchMap, current, now, total, progressVars>>

FetchStep ==
  \/ NextFile \/ NewDataBlock \/ ErrorPage \/ OnCurlProgress \/ EndFile \/ EndFetch
  \/ TransferFails

-----------------------------------------------------------------------------
\* Another process with the same cache directory: it empties it, begins a
\* file of its own there, in place of one of that name, and ends it.
OtherEmptiesCache ==
  /\ cache # EmptyCache
  /\ cache' = EmptyCache

OtherFetches ==
  \E p \in Pkgs :
    \/ cache[Base[p]] # OthersPart(p) /\ cache' = [cache EXCEPT ![Base[p]] = OthersPart(p)]
    \/ cache[Base[p]] = OthersPart(p) /\ cache' = [cache EXCEPT ![Base[p]] = Whole(p)]
=============================================================================
