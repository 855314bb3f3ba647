----------------------------- MODULE CliParser -----------------------------
(***************************************************************************)
(* The command line: parse() divides the parameters into clusters, then    *)
(* reads the clusters one by one.  ds-install and ds-patch have methods of *)
(* their own to recognise and to read a cluster.  A parameter is a word;   *)
(* an empty one stops the program at an assert of findKey().  A word behind*)
(* --add-list or --del-list stands for the lines of the file it names.     *)
(***************************************************************************)
EXTENDS Integers, Sequences, SequencesExt

CONSTANTS
  KeysOf   \* the keys of each program: TRUE for one with an argument

VARIABLES
  program,    \* the class of the parser: "default", "install" or "patch"
  words,      \* m_params
  clusters,   \* the sizes of the clusters
  cliPos,     \* how many words parse() is behind
  cliMode,    \* mode
  cliStage,   \* "recognize", "parse", "parsed", "stopped" or "aborted"
  understood  \* what has been read, in order: keys, files, items, lists

cliVars == <<program, words, clusters, cliPos, cliMode, cliStage, understood>>

Relations == {"=", "<=", ">=", "<", ">"}
ListKeys == {"--add", "--del", "--add-list", "--del-list"}
Blanks == {"", " "}

CliInit(prg, ws) ==
  /\ program = prg /\ words = ws
  /\ clusters = <<>>
  /\ cliPos = 0
  /\ cliMode = 0
  /\ cliStage = "recognize"
  /\ understood = <<>>

IsKey(w) == w \in DOMAIN KeysOf[program]
HasArgument(w) == IsKey(w) /\ KeysOf[program][w]

-----------------------------------------------------------------------------
\* recognizeCluster(): the words that follow the first one into its cluster.
\* CliParser, which looks for keys until "--" has come.
DefaultExtra(ws) == IF cliMode = 0 /\ HasArgument(ws[1]) THEN 1 ELSE 0

\* Mutant of InstallExtra: a relation needs no version behind it.
InstallExtra_NoVersion(ws) ==
  IF ws[1] # "--" /\ ~ IsKey(ws[1]) /\ Len(ws) >= 2 /\ ws[2] \in Relations
  THEN 2 ELSE DefaultExtra(ws)

\* DsInstallCliParser: a name, a relation and a version.
InstallExtra(ws) ==
  IF ws[1] # "--" /\ ~ IsKey(ws[1]) /\ Len(ws) >= 3 /\ ws[2] \in Relations
  THEN 2 ELSE DefaultExtra(ws)

\* DsPatchCliParser: all words of a list.
EndsList(w) == w \in ListKeys \union {"--"} \/ IsKey(w)
ListLength(ws) ==
  CHOOSE n \in 0 .. Len(ws) - 1 :
    /\ \A i \in 2 .. n + 1 : ~ EndsList(ws[i])
    /\ n + 1 = Len(ws) \/ EndsList(ws[n + 2])
PatchExtra(ws) ==
  IF cliMode = 0 /\ ws[1] \in ListKeys THEN ListLength(ws) ELSE DefaultExtra(ws)

Extra(ws) ==
  CASE program = "install" -> InstallExtra(ws)
    [] program = "patch" -> PatchExtra(ws)
    [] OTHER -> DefaultExtra(ws)

\* An argument is missing: CliParserException.
Misses(ws) ==
  /\ cliMode = 0
  /\ \/ HasArgument(ws[1]) /\ Len(ws) < 2
     \/ program = "patch" /\ ws[1] \in ListKeys /\ ListLength(ws) = 0

\* An empty word is looked up among the keys.
LooksUpEmpty(ws) ==
  /\ cliMode = 0
  /\ \/ ws[1] = ""
     \/ /\ program = "patch" /\ ws[1] \in ListKeys
        /\ \E i \in 2 .. ListLength(ws) + 1 : ws[i] = ""

\* The first loop of parse().  ds-install takes no notice of "--" here.
Recognize ==
  /\ cliStage = "recognize"
  /\ LET rest == SubSeq(words, cliPos + 1, Len(words)) IN
     IF rest = <<>>
     THEN cliStage' = "parse" /\ cliPos' = 0 /\ cliMode' = 0 /\ UNCHANGED clusters
     ELSE IF LooksUpEmpty(rest) \/ Misses(rest)
     THEN /\ cliStage' = IF LooksUpEmpty(rest) THEN "aborted" ELSE "stopped"
          /\ UNCHANGED <<clusters, cliPos, cliMode>>
     ELSE LET size == IF Extra(rest) + 1 > Len(rest) THEN Len(rest) ELSE Extra(rest) + 1 IN
          /\ clusters' = Append(clusters, size)
          /\ cliPos' = cliPos + size
          /\ cliMode' = IF rest[1] = "--" /\ program # "install" THEN 1 ELSE cliMode
          /\ UNCHANGED cliStage
  /\ UNCHANGED <<program, words, understood>>

-----------------------------------------------------------------------------
\* parseCluster(): what a cluster says.
Says(what, ws) == <<[what |-> what, words |-> ws]>>
Each(what, ws) == [i \in DOMAIN ws |-> [what |-> what, words |-> <<ws[i]>>]]

DefaultSays(ws) ==
  IF ws[1] = "--" THEN <<>>
  ELSE IF cliMode = 1 \/ ~ IsKey(ws[1]) THEN Each("file", ws)
  ELSE Says("key", ws)

InstallSays(ws) ==
  IF (cliMode = 0 /\ (ws = <<"--">> \/ IsKey(ws[1]))) \/ Len(ws) \notin {1, 3}
  THEN DefaultSays(ws)
  ELSE IF ws[1] \in Blanks \/ (Len(ws) = 3 /\ ws[3] \in Blanks) THEN <<>>
  ELSE Says("item", ws)

PatchSays(ws) ==
  IF cliMode = 0 /\ ws[1] \in ListKeys THEN Each(ws[1], Tail(ws)) ELSE DefaultSays(ws)

ParseCluster ==
  /\ cliStage = "parse"
  /\ IF clusters = <<>>
     THEN cliStage' = "parsed" /\ UNCHANGED <<clusters, cliPos, cliMode, understood>>
     ELSE LET ws == SubSeq(words, cliPos + 1, cliPos + clusters[1]) IN
          IF ws[1] = "" /\ program # "install"
          THEN cliStage' = "aborted" /\ UNCHANGED <<clusters, cliPos, cliMode, understood>>
          ELSE /\ understood' = understood \o
                    (CASE program = "install" -> InstallSays(ws)
                       [] program = "patch" -> PatchSays(ws)
                       [] OTHER -> DefaultSays(ws))
               /\ cliMode' = IF ws = <<"--">> THEN 1 ELSE cliMode
               /\ cliPos' = cliPos + clusters[1]
               /\ clusters' = Tail(clusters)
               /\ UNCHANGED cliStage
  /\ UNCHANGED <<program, words>>

CliNext == Recognize \/ ParseCluster

-----------------------------------------------------------------------------
\* The usage the programs print, read in one pass from a position on: keys
\* with their arguments until "--", then names only, another "--" among them;
\* a list lasts until the next key.
RECURSIVE Usage(_, _, _)
Usage(i, over, list) ==
  IF i > Len(words) THEN <<>>
  ELSE LET w == words[i] IN
    CASE w = "--" /\ ~ over -> Usage(i + 1, TRUE, "file")
      [] ~ over /\ HasArgument(w) -> Says("key", <<w, words[i + 1]>>) \o Usage(i + 2, over, "file")
      [] ~ over /\ IsKey(w) -> Says("key", <<w>>) \o Usage(i + 1, over, "file")
      [] ~ over /\ program = "patch" /\ w \in ListKeys -> Usage(i + 1, over, w)
      [] program = "install" /\ i + 2 <= Len(words) /\ words[i + 1] \in Relations ->
           (IF {w, words[i + 2]} \cap Blanks # {} THEN <<>> ELSE Says("item", SubSeq(words, i, i + 2)))
             \o Usage(i + 3, over, "file")
      [] program = "install" /\ w \in Blanks -> Usage(i + 1, over, list)
      [] OTHER -> Says(IF program = "install" THEN "item" ELSE list, <<w>>) \o Usage(i + 1, over, list)

\* All words behind "--" are files, as the comment on `files' says (ds-install
\* has names of packages instead).
FilesAreBehindDashes ==
  cliStage = "parsed" /\ program # "install" /\ words # <<>> /\ words[1] = "--"
    => understood = Each("file", Tail(words))

\* The two passes over the command line agree with each other and with the
\* usage: no word is lost, taken twice or taken for something else, and a
\* missing argument or an empty word ends the program before.  Two kinds of
\* command lines are left out, as the passes disagree about them: those with a
\* second "--", which FilesAreBehindDashes is about, and, in ds-install, those
\* with a relation behind a key or "--" that is a name.
CommandLineIsUnderstood ==
  LET usage == Usage(1, FALSE, "file")
      disputed ==
        IF program = "install"
        THEN \E i \in DOMAIN words : \E j \in i + 1 .. Len(words) - 1 :
               /\ words[i] = "--" /\ words[j + 1] \in Relations
               /\ IsKey(words[j]) \/ words[j] = "--"
        ELSE [what |-> "file", words |-> <<"--">>] \in {usage[i] : i \in DOMAIN usage}
  IN cliStage = "parsed" /\ ~ disputed => understood = usage
=============================================================================
