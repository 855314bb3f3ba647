------------------------------ MODULE InfoFile ------------------------------
(***************************************************************************)
(* The info file of an index: ds-repo saves its parameters in it           *)
(* (RepoParams), and ds-patch and ds-provides load them again.  A client   *)
(* reads the file with the same class, InfoFileReader.                     *)
(***************************************************************************)
EXTENDS Symbols, SequencesExt, TLC

CONSTANTS
  InfoWords   \* the words names are made of

VARIABLES
  typed,       \* the command line of ds-repo and its file of expressions
  given,       \* the parameters it works with
  infoLines,   \* the lines of the info file that have not been read
  infoRest,    \* what has not been read of the present line
  infoState,   \* the state of the reader, or where the programs are
  infoName,    \* the name
  infoValue,   \* and the value in this line
  infoRead,    \* the values read so far
  loaded       \* the parameters ds-patch works with

infoVars == <<typed, given, infoLines, infoRest, infoState, infoName, infoValue, infoRead, loaded>>

InfoIdentChar(c) == c \in InfoWords \union {"_", "-", "+"}

\* RepoParams().
DefaultParams ==
  [compression |-> "gzip", byDirs |-> <<>>, byRefs |-> FALSE, exclude |-> <<>>,
   clBinary |-> FALSE, clSources |-> FALSE, user |-> [n \in {} |-> <<>>]]

InfoInit(commandLine, place) ==
  /\ typed = commandLine
  /\ given = DefaultParams
  /\ infoLines = <<>> /\ infoRest = <<>>
  /\ infoState = place
  /\ infoName = <<>> /\ infoValue = <<>>
  /\ infoRead = [n \in {} |-> <<>>]
  /\ loaded = DefaultParams

-----------------------------------------------------------------------------
\* ds-repo: the parameters on its command line.
NotEmpty(l) == l # <<>>
SplitColons(l) == SelectSeq(Parts(l, ":"), NotEmpty)

UserName(l) == SubSeq(l, 1, FirstOf(l, "=") - 1)
UserValue(l) == SubSeq(l, FirstOf(l, "=") + 1, Len(l))

OwnNames ==
  {<<n>> : n \in {"format_type", "compression_type", "version", "md5sum_file", "filter_provides_by_dirs",
                  "filter_provides_by_refs", "exclude_requires", "changelog_sources", "changelog_binary"}}

\* processUserParam().
AcceptsUser(l) ==
  /\ "=" \in {l[i] : i \in DOMAIN l}
  /\ \A i \in DOMAIN UserName(l) : l[i] \notin {"#", "\\", Blank}
  /\ UserName(l) \notin OwnNames

\* The first value given for a name stays.
UserParams(user) ==
  [n \in {UserName(user[i]) : i \in DOMAIN user} |->
    UserValue(user[CHOOSE i \in DOMAIN user :
                     UserName(user[i]) = n /\ \A j \in 1 .. i - 1 : UserName(user[j]) # n])]

Given(t) ==
  [compression |-> t.compression, byDirs |-> SplitColons(t.dirs), byRefs |-> t.refs,
   exclude |-> SelectSeq([i \in DOMAIN t.lines |-> Trim(t.lines[i])], NotEmpty),
   clBinary |-> t.clBinary, clSources |-> t.clSources, user |-> UserParams(SplitColons(t.user))]

\* writeInfoFile(): lists are written with quotes and colons, then # and the
\* backslash are escaped.  The lines have the order of their names, which
\* makes no difference as the names differ.
DoubleQuotes(l) == Substitute(l, [c \in {"\""} |-> <<"\"", "\"">>])

\* Mutant of EscapeString: a value with # is written as it is.
EscapeString_NoHash(l) == Substitute(l, [c \in {"\\"} |-> <<"\\", c>>])

EscapeString(l) == Substitute(l, [c \in {"\\", "#"} |-> <<"\\", c>>])

RECURSIVE SaveStringVector(_)
SaveStringVector(items) ==
  IF items = <<>> THEN <<>>
  ELSE <<"\"">> \o DoubleQuotes(items[1]) \o <<"\"">>
         \o (IF Len(items) = 1 THEN <<>> ELSE <<":">>) \o SaveStringVector(Tail(items))

BooleanValue(b) == IF b THEN <<"yes">> ELSE <<"no">>

InfoLine(name, value) == name \o <<Blank, "=", Blank>> \o EscapeString(value)

InfoText(p) ==
  LET users == SetToSeq(DOMAIN p.user) IN
  <<<<"#", Blank, "Deepsolver">>, <<>>,
    InfoLine(<<"changelog_binary">>, BooleanValue(p.clBinary)),
    InfoLine(<<"changelog_sources">>, BooleanValue(p.clSources)),
    InfoLine(<<"compression_type">>, <<p.compression>>),
    InfoLine(<<"exclude_requires">>, SaveStringVector(p.exclude)),
    InfoLine(<<"filter_provides_by_dirs">>, SaveStringVector(p.byDirs)),
    InfoLine(<<"filter_provides_by_refs">>, BooleanValue(p.byRefs)),
    InfoLine(<<"format_type">>, <<"text">>),
    InfoLine(<<"md5sum_file">>, <<"md5sum.txt">>),
    InfoLine(<<"version">>, <<"1">>)>>
  \o [i \in DOMAIN users |-> InfoLine(users[i], p.user[users[i]])]

\* ds-repo stops at parameters it does not accept, or builds the index.
BuildInfo ==
  /\ infoState = "typed"
  /\ IF /\ typed.compression \in {"none", "gzip"}
        /\ \A i \in DOMAIN SplitColons(typed.user) : AcceptsUser(SplitColons(typed.user)[i])
     THEN /\ given' = Given(typed)
          /\ infoLines' = InfoText(given')
          /\ infoState' = "between"
     ELSE infoState' = "absent" /\ UNCHANGED <<given, infoLines>>
  /\ UNCHANGED <<typed, infoRest, infoName, infoValue, infoRead, loaded>>

-----------------------------------------------------------------------------
\* InfoFileReader::read() and parseLine().
NextInfoLine ==
  /\ infoState = "between" /\ infoLines # <<>>
  /\ infoRest' = Head(infoLines) /\ infoLines' = Tail(infoLines)
  /\ infoState' = "INIT"
  /\ infoName' = <<>> /\ infoValue' = <<>>
  /\ UNCHANGED <<typed, given, infoRead, loaded>>

Consumes(n) ==
  /\ infoRest' = SubSeq(infoRest, n + 1, Len(infoRest))
  /\ UNCHANGED <<typed, given, infoLines, infoRead, loaded>>

InfoLineBegins ==
  /\ infoState = "INIT" /\ infoRest # <<>>
  /\ LET c == Head(infoRest) IN
     /\ infoState' = CASE c = Blank -> "INIT" [] c = "#" -> "read"
                       [] InfoIdentChar(c) -> "NAME" [] OTHER -> "stopped"
     /\ infoName' = IF InfoIdentChar(c) THEN <<c>> ELSE infoName
  /\ Consumes(1) /\ UNCHANGED infoValue

InfoNameGoesOn ==
  /\ infoState = "NAME" /\ infoRest # <<>>
  /\ LET c == Head(infoRest) IN
     /\ infoState' = CASE InfoIdentChar(c) -> "NAME" [] c = "=" -> "VALUE"
                       [] c = Blank -> "BEFORE_EQUALS" [] OTHER -> "stopped"
     /\ infoName' = IF InfoIdentChar(c) THEN Append(infoName, c) ELSE infoName
  /\ Consumes(1) /\ UNCHANGED infoValue

InfoBeforeEquals ==
  /\ infoState = "BEFORE_EQUALS" /\ infoRest # <<>>
  /\ infoState' = CASE Head(infoRest) = Blank -> "BEFORE_EQUALS" [] Head(infoRest) = "=" -> "VALUE"
                    [] OTHER -> "stopped"
  /\ Consumes(1) /\ UNCHANGED <<infoName, infoValue>>

\* The one symbol that may follow a backslash is #.
InfoValueGoesOn ==
  /\ infoState = "VALUE" /\ infoRest # <<>>
  /\ LET c == Head(infoRest)
         escape == c = "\\"
         right == Len(infoRest) > 1 /\ infoRest[2] = "#"
     IN
     /\ infoState' = CASE c = "#" -> "read" [] escape /\ ~ right -> "stopped" [] OTHER -> "VALUE"
     /\ infoValue' = CASE c = "#" \/ (escape /\ ~ right) -> infoValue
                       [] escape /\ right -> Append(infoValue, "#")
                       [] OTHER -> Append(infoValue, c)
     /\ Consumes(IF escape /\ right THEN 2 ELSE 1)
  /\ UNCHANGED infoName

InfoLineEnds ==
  /\ infoState \in {"INIT", "NAME", "BEFORE_EQUALS", "VALUE"} /\ infoRest = <<>>
  /\ infoState' = IF infoState \in {"INIT", "VALUE"} THEN "read" ELSE "stopped"
  /\ UNCHANGED <<typed, given, infoLines, infoRest, infoName, infoValue, infoRead, loaded>>

TakeInfoValue ==
  /\ infoState = "read"
  /\ infoRead' = IF infoName = <<>> THEN infoRead ELSE infoRead @@ (infoName :> infoValue)
  /\ infoState' = "between"
  /\ UNCHANGED <<typed, given, infoLines, infoRest, infoName, infoValue, loaded>>

-----------------------------------------------------------------------------
\* parseStringVector(): the items taken before and the one being read.
RECURSIVE ParseStringVector(_, _, _, _)
ParseStringVector(l, items, item, inQuotes) ==
  CASE l = <<>> -> IF items = <<>> /\ item = <<>> THEN <<>> ELSE Append(items, item)
    [] l # <<>> /\ ~ inQuotes /\ l[1] = ":" -> ParseStringVector(Tail(l), Append(items, item), <<>>, FALSE)
    [] l # <<>> /\ ~ inQuotes /\ l[1] = "\"" -> ParseStringVector(Tail(l), items, item, TRUE)
    [] l # <<>> /\ inQuotes /\ l[1] = "\"" ->
         IF Len(l) > 1 /\ l[2] = "\""
         THEN ParseStringVector(SubSeq(l, 3, Len(l)), items, Append(item, "\""), TRUE)
         ELSE ParseStringVector(Tail(l), items, item, FALSE)
    [] OTHER -> ParseStringVector(Tail(l), items, Append(item, l[1]), inQuotes)

ValueOf(n) == Trim(infoRead[<<n>>])
Wrongly(n, words) == <<n>> \in DOMAIN infoRead /\ \A w \in words : ValueOf(n) # <<w>>
Affirms == {"YES", "Yes", "yes", "TRUE", "True", "true", "1"}
Denies == {"NO", "No", "no", "FALSE", "False", "false", "0"}

BooleanOf(n, first) == IF <<n>> \in DOMAIN infoRead THEN \E w \in Affirms : ValueOf(n) = <<w>> ELSE first
VectorOf(n, first) ==
  IF <<n>> \in DOMAIN infoRead THEN ParseStringVector(ValueOf(n), <<>>, <<>>, FALSE) ELSE first

\* readInfoFile(), once the lines have been read.
LoadParams ==
  /\ infoState = "between" /\ infoLines = <<>>
  /\ IF \/ Wrongly("format_type", {"text", "binary"})
        \/ Wrongly("compression_type", {"none", "gzip"})
        \/ \E n \in {"filter_provides_by_refs", "changelog_binary", "changelog_sources"} :
             Wrongly(n, Affirms \union Denies)
     THEN infoState' = "stopped" /\ UNCHANGED loaded
     ELSE /\ infoState' = "loaded"
          /\ loaded' =
               [compression |-> IF <<"compression_type">> \notin DOMAIN infoRead THEN loaded.compression
                                ELSE ValueOf("compression_type")[1],
                byDirs |-> VectorOf("filter_provides_by_dirs", loaded.byDirs),
                byRefs |-> BooleanOf("filter_provides_by_refs", loaded.byRefs),
                exclude |-> VectorOf("exclude_requires", loaded.exclude),
                clBinary |-> BooleanOf("changelog_binary", loaded.clBinary),
                clSources |-> BooleanOf("changelog_sources", loaded.clSources),
                user |-> [n \in DOMAIN infoRead \ OwnNames |-> Trim(infoRead[n])]]
  /\ UNCHANGED <<typed, given, infoLines, infoRest, infoName, infoValue, infoRead>>

ReadInfo ==
  \/ NextInfoLine \/ InfoLineBegins \/ InfoNameGoesOn \/ InfoBeforeEquals \/ InfoValueGoesOn
  \/ InfoLineEnds \/ TakeInfoValue \/ LoadParams

-----------------------------------------------------------------------------
\* The parameters of ds-repo need not be given again to ds-patch: it loads
\* what has been saved, and finds nothing there that it cannot read.  (Blanks
\* around a value of the user are no part of it.)
ParametersAreLoaded ==
  /\ infoState # "stopped"
  /\ infoState = "loaded" =>
       loaded = [given EXCEPT !.user = [n \in DOMAIN @ |-> Trim(@[n])]]

\* Parameters without a backslash; the names of the user are names for the
\* reader of the file too.
RangeSymbols(l) == {l[i] : i \in DOMAIN l}
Plain(p) ==
  /\ \A n \in DOMAIN p.user : n # <<>> /\ \A c \in RangeSymbols(n) : InfoIdentChar(c)
  /\ \A v \in RangeSymbols(p.byDirs \o p.exclude) \union {p.user[n] : n \in DOMAIN p.user} :
       "\\" \notin RangeSymbols(v)

\* So it is with plain parameters, whatever quotes, colons, blanks and signs
\* of comments are in them: the writer and the reader, which are different
\* classes, agree about every one of these.
ParametersComeBack == Plain(given) => ParametersAreLoaded
=============================================================================
