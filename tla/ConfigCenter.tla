---------------------------- MODULE ConfigCenter ----------------------------
(***************************************************************************)
(* The configuration: the file ds.conf and the fragments are read into the *)
(* structures of ConfigData.h.  Tables tell where each parameter is kept,  *)
(* by its address; an address in a vector is good until the vector grows.  *)
(***************************************************************************)
EXTENDS ConfigFile

VARIABLES
  stage,     \* "closed", "open", "ready" or "failed"
  configFiles, \* the files still to be read, the first one open or next
  core,      \* the values of ConfRoot
  repo,      \* m_root.repo
  provide,   \* m_root.provide
  table,     \* m_stringValues, m_stringListValues and m_booleanValues
  accepted   \* history: the values taken from the files

centerVars == <<stage, configFiles, core, repo, provide, table, accepted>>
configVars == <<parserVars, centerVars>>

\* The parameters, their types, and what they are at first.
String(first, mayBeEmpty) == [type |-> "string", first |-> first, mayBeEmpty |-> mayBeEmpty]
List(mayBeEmpty, splits, items) ==
  [type |-> "list", first |-> <<>>, mayBeEmpty |-> mayBeEmpty, splits |-> splits, mayHaveEmpty |-> items]
Bool(first) == [type |-> "bool", first |-> first]

CoreParams ==
  [stopInstalled |-> Bool(TRUE), stopRepo |-> Bool(TRUE),
   pkgData |-> String(<<"/default">>, FALSE), pkgCache |-> String(<<"/default">>, FALSE),
   readAhead |-> List(TRUE, FALSE, TRUE)]
RepoParams ==
  [url |-> String(<<>>, FALSE), vendor |-> String(<<>>, TRUE),
   arch |-> List(FALSE, TRUE, FALSE), components |-> List(FALSE, TRUE, FALSE),
   enabled |-> Bool(TRUE), takeDescr |-> Bool(TRUE), takeFileList |-> Bool(FALSE),
   takeSources |-> Bool(FALSE)]
ProvideParams == [providers |-> List(TRUE, TRUE, FALSE)]

Params(vec) == CASE vec = "core" -> CoreParams [] vec = "repo" -> RepoParams [] OTHER -> ProvideParams

Names ==
  [core |-> [stopInstalled |-> <<"core", "stop-invalid-installed-pkg">>,
             stopRepo |-> <<"core", "stop-invalid-repo-pkg">>,
             pkgData |-> <<"core", "dir", "pkg-data">>, pkgCache |-> <<"core", "dir", "pkg-cache">>,
             readAhead |-> <<"core", "os", "transact-read-ahead">>],
   repo |-> [url |-> <<"repo", "url">>, vendor |-> <<"repo", "vendor">>,
             arch |-> <<"repo", "arch">>, components |-> <<"repo", "components">>,
             enabled |-> <<"repo", "enabled">>, takeDescr |-> <<"repo", "take-descr">>,
             takeFileList |-> <<"repo", "take-file-list">>,
             takeSources |-> <<"repo", "take-sources">>],
   provide |-> [providers |-> <<"provide", "providers">>]]

IsCalled(p, called) == Len(p) = Len(called) /\ \A i \in DOMAIN p : p[i] = <<called[i]>>

\* initValues(), initRepoValues() and initProvideValues(): entries with the
\* address of their value, in a vector of a certain size.
Entries(vec, argument, index, size) ==
  {[vec |-> vec, param |-> p, arg |-> argument, index |-> index, size |-> size] :
    p \in DOMAIN Params(vec)}
CoreEntries == Entries("core", <<>>, 0, 0)
EntriesOf(vec, items) == UNION {Entries(vec, items[i].name, i, Len(items)) : i \in DOMAIN items}
Firsts(vec) == [p \in DOMAIN Params(vec) |-> Params(vec)[p].first]

ConfigInit(contents) ==
  /\ ParserInit
  /\ stage = "closed"
  /\ configFiles = contents
  /\ core = Firsts("core")
  /\ repo = <<>> /\ provide = <<>>
  /\ table = CoreEntries
  /\ accepted = <<>>

-----------------------------------------------------------------------------
\* loadFromFile(), of ds.conf and then of each fragment in the order of names.
OpenFile ==
  /\ stage = "closed" /\ configFiles # <<>>
  /\ NewParser
  /\ stage' \in {"open", "failed"}
  /\ UNCHANGED <<configFiles, core, repo, provide, table, accepted>>

NextLine ==
  /\ stage = "open" /\ state = "between" /\ Head(configFiles) # <<>>
  /\ BeginLine(Head(Head(configFiles)))
  /\ configFiles' = [configFiles EXCEPT ![1] = Tail(@)]
  /\ UNCHANGED <<stage, core, repo, provide, table, accepted>>

ParseSymbol == stage = "open" /\ ReadSymbol /\ UNCHANGED centerVars

EndConfigFile ==
  /\ stage = "open" /\ state = "between" /\ Head(configFiles) = <<>>
  /\ configFiles' = Tail(configFiles)
  /\ stage' = "closed"
  /\ UNCHANGED <<parserVars, core, repo, provide, table, accepted>>

Refuse ==
  /\ stage = "open" /\ state \in {"error", "refused"}
  /\ stage' = "failed"
  /\ UNCHANGED <<parserVars, configFiles, core, repo, provide, table, accepted>>

-----------------------------------------------------------------------------
\* A list is split at each ";".  One of files to read ahead is never split.
Items(spec, v) == IF spec.splits THEN Parts(v, ";") ELSE <<v>>

Yes == {"YES", "Yes", "yes", "TRUE", "True", "true", "1"}
No == {"NO", "No", "no", "FALSE", "False", "false", "0"}

\* processStringValue(), processStringListValue(), processBooleanValue().
Refused(spec) ==
  \/ /\ spec.type = "list" /\ ~ spec.mayHaveEmpty
     /\ <<>> \in {Items(spec, paramValue)[i] : i \in DOMAIN Items(spec, paramValue)}
  \/ spec.type = "bool" /\ (adding \/ \A w \in Yes \union No : Trim(paramValue) # <<w>>)

NewValue(spec, old) ==
  CASE spec.type = "bool" -> \E w \in Yes : Trim(paramValue) = <<w>>
    [] spec.type = "list" -> (IF adding THEN old ELSE <<>>) \o Items(spec, paramValue)
    [] OTHER -> (IF adding THEN old ELSE <<>>) \o paramValue

\* onConfigFileValue(): the section of a repository or of a provide.
IsSection(vec) == path[1] = <<vec>>
NamedIn(items) == {i \in DOMAIN items : items[i].name = sectArg}
Grown(vec, items) ==
  IF IsSection(vec) /\ NamedIn(items) = {}
  THEN Append(items, [name |-> sectArg, values |-> Firsts(vec)]) ELSE items

\* Mutant of Rebuilt: the entries of a new section are added to the others.
Rebuilt_Added(repos, provides) ==
  table \union {e \in EntriesOf("repo", repos) : e.index > Len(repo)}
        \union {e \in EntriesOf("provide", provides) : e.index > Len(provide)}

\* The tables are made anew when a section is new.
Rebuilt(repos, provides) ==
  IF repos = repo /\ provides = provide THEN table
  ELSE CoreEntries \union EntriesOf("repo", repos) \union EntriesOf("provide", provides)

\* An entry whose path and argument match; one without an argument matches
\* any.
Matching(entries) ==
  {e \in entries : IsCalled(path, Names[e.vec][e.param]) /\ e.arg \in {<<>>, sectArg}}

\* The value is written to its address: to nowhere, if the vector has moved.
Written(items, e) ==
  IF e.size = Len(items)
  THEN [items EXCEPT ![e.index].values[e.param] = NewValue(Params(e.vec)[e.param], @)]
  ELSE items

HandleValue ==
  /\ stage = "open" /\ HasParameter
  /\ LET repos == Grown("repo", repo)
         provides == Grown("provide", provide)
         found == Matching(Rebuilt(repos, provides))
         refused == \/ (IsSection("repo") \/ IsSection("provide")) /\ IsBlank(sectArg)
                    \/ found = {}
                    \/ \E e \in found : Refused(Params(e.vec)[e.param])
     IN
     /\ EndParameter(~ refused)
     /\ IF refused THEN UNCHANGED <<core, repo, provide, table, accepted>>
        ELSE \E e \in found :
               /\ table' = Rebuilt(repos, provides)
               /\ core' = IF e.vec = "core"
                          THEN [core EXCEPT ![e.param] = NewValue(CoreParams[e.param], @)] ELSE core
               /\ repo' = IF e.vec = "repo" THEN Written(repos, e) ELSE repos
               /\ provide' = IF e.vec = "provide" THEN Written(provides, e) ELSE provides
               /\ accepted' = Append(accepted, [path |-> path, arg |-> sectArg,
                                                adding |-> adding, value |-> paramValue])
  /\ UNCHANGED <<stage, configFiles>>

HandleComment ==
  /\ stage = "open" /\ ~ HasParameter
  /\ EndParameter(TRUE)
  /\ UNCHANGED centerVars

-----------------------------------------------------------------------------
\* commit(): what is trimmed, which is not the directory of the cache.
TrimAll(items) == [i \in DOMAIN items |-> Trim(items[i])]
Trimmed(vec, p, v) ==
  CASE Params(vec)[p].type = "bool" \/ p = "pkgCache" -> v
    [] Params(vec)[p].type = "list" -> TrimAll(v)
    [] OTHER -> Trim(v)
TrimmedItems(vec, items) ==
  [i \in DOMAIN items |-> [name |-> Trim(items[i].name),
                           values |-> [p \in DOMAIN Params(vec) |-> Trimmed(vec, p, items[i].values[p])]]]

\* checkValues() and checkUrl(): a URL has "://" in it or begins with "file:/".
IsUrl(u) ==
  IF u # <<>> /\ u[1] = "file:/" THEN Len(u) > 1 ELSE \E i \in DOMAIN u : u[i] = "ftp://"
Complete(vec, values) ==
  \A p \in DOMAIN values :
    LET spec == Params(vec)[p] IN
    /\ spec.type = "string" => spec.mayBeEmpty \/ Trim(values[p]) # <<>>
    /\ spec.type = "list" => spec.mayBeEmpty \/ values[p] # <<>>

Commit ==
  /\ stage = "closed" /\ configFiles = <<>>
  /\ core' = [p \in DOMAIN core |-> Trimmed("core", p, core[p])]
  /\ provide' = TrimmedItems("provide", provide)
  /\ repo' = TrimmedItems("repo", repo)
  /\ stage' = IF /\ Complete("core", core')
                 /\ \A i \in DOMAIN repo' : Complete("repo", repo'[i].values) /\ IsUrl(repo'[i].values.url)
              THEN "ready" ELSE "failed"
  /\ UNCHANGED <<parserVars, configFiles, table, accepted>>

ConfigNext ==
  \/ OpenFile \/ NextLine \/ ParseSymbol \/ EndConfigFile \/ Refuse
  \/ HandleValue \/ HandleComment \/ Commit

-----------------------------------------------------------------------------
\* What the files say about a parameter: the last value assigned to it and
\* what has been added since.
Said(vec, p, arg) ==
  LET about == {i \in DOMAIN accepted :
                  IsCalled(accepted[i].path, Names[vec][p]) /\ (vec # "core" => accepted[i].arg = arg)}
      last == {i \in about : ~ accepted[i].adding}
      from == IF last = {} THEN 0 ELSE CHOOSE i \in last : \A j \in last : j <= i
      spec == Params(vec)[p]
      Value(i) == IF spec.type = "list" THEN Items(spec, accepted[i].value) ELSE accepted[i].value
      RECURSIVE From(_)
      From(i) == IF i > Len(accepted) THEN <<>>
                 ELSE (IF i \in about THEN Value(i) ELSE <<>>) \o From(i + 1)
  IN CASE spec.type = "bool" -> IF from = 0 THEN spec.first
                                ELSE \E w \in Yes : Trim(accepted[from].value) = <<w>>
       [] from = 0 -> spec.first \o From(1)
       [] OTHER -> From(from)

\* The arguments of the sections of a kind, each when it comes first.
RECURSIVE Sections(_, _)
Sections(vec, i) ==
  IF i > Len(accepted) THEN <<>>
  ELSE LET a == accepted[i] IN
       (IF a.path[1] = <<vec>> /\ \A j \in 1 .. i - 1 : a.path[1] # accepted[j].path[1] \/ a.arg # accepted[j].arg
        THEN <<a.arg>> ELSE <<>>) \o Sections(vec, i + 1)

\* Behind each file, the structures hold what the files say: whatever order
\* the sections come in and however often a repository is taken up again, in
\* whichever file, nothing written is lost or given to another.  A program
\* begins to work with the same values, trimmed but for the directory of the
\* cache, if each repository has a URL, an architecture and a component.  An
\* item of a list may be empty once it is trimmed.
ConfigIsAsWritten ==
  LET Shown(vec, p, v) == IF stage = "ready" THEN Trimmed(vec, p, v) ELSE v
      Agree(vec, items) ==
        LET args == Sections(vec, 1) IN
        /\ [i \in DOMAIN items |-> items[i].name] = IF stage = "ready" THEN TrimAll(args) ELSE args
        /\ \A i \in DOMAIN items : \A p \in DOMAIN Params(vec) :
             items[i].values[p] = Shown(vec, p, Said(vec, p, args[i]))
  IN stage \in {"closed", "ready"} =>
       /\ \A p \in DOMAIN core : core[p] = Shown("core", p, Said("core", p, <<>>))
       /\ Agree("repo", repo)
       /\ Agree("provide", provide)
       /\ stage = "ready" => \A i \in DOMAIN repo :
            /\ repo[i].values.arch # <<>> /\ repo[i].values.components # <<>>
            /\ IsUrl(repo[i].values.url)
=============================================================================
