----------------------------- MODULE ConfigFile -----------------------------
(***************************************************************************)
(* The parser of configuration files, one line after another, one symbol   *)
(* after another.  Names are made of the words of Ident and of "+", which  *)
(* validIdentChar() allows as well.                                        *)
(***************************************************************************)
EXTENDS Symbols

CONSTANTS
  Ident    \* the words names are made of

VARIABLES
  line,        \* the line
  pos,         \* the symbols of it that have been read
  state,       \* the state of the parser, "between" lines or an error
  name,        \* the name that is being read
  path,        \* m_path
  sectLevel,   \* m_sectLevel
  sectArg,     \* m_sectArg
  paramValue,  \* m_paramValue
  adding       \* m_assignMode = ModeAdding

lineVars == <<line, pos, name>>
parsedVars == <<path, sectLevel, sectArg, paramValue, adding>>
parserVars == <<lineVars, state, parsedVars>>

validIdentChar(c) == c \in Ident \union {"+"}

\* A new parser, as there is one for each file.
ParserInit ==
  /\ line = <<>> /\ pos = 0 /\ name = <<>>
  /\ state = "between"
  /\ path = <<>> /\ sectLevel = 0 /\ sectArg = <<>>
  /\ paramValue = <<>> /\ adding = FALSE

NewParser ==
  /\ line' = <<>> /\ pos' = 0 /\ name' = <<>>
  /\ state' = "between"
  /\ path' = <<>> /\ sectLevel' = 0 /\ sectArg' = <<>>
  /\ paramValue' = <<>> /\ adding' = FALSE

\* processLine(): what kind of line it is.
FirstChar(l) == l[CHOOSE i \in DOMAIN l : l[i] # Blank /\ \A j \in 1 .. i - 1 : l[j] = Blank]

BeginLine(l) ==
  /\ state = "between"
  /\ line' = l /\ pos' = 0 /\ name' = <<>>
  /\ IF IsBlank(l) THEN state' = "between" /\ UNCHANGED parsedVars
     ELSE IF FirstChar(l) = "["
     THEN state' = "SECT_INITIAL" /\ path' = <<>> /\ sectArg' = <<>>
          /\ UNCHANGED <<sectLevel, paramValue, adding>>
     ELSE state' = "PARAM_INITIAL" /\ paramValue' = <<>>
          /\ UNCHANGED <<path, sectLevel, sectArg, adding>>

AtEnd == pos = Len(line)
NextChar == line[pos + 1]

\* One symbol is read: the state, the name and the path that follow.
Goes(to, newName, newPath) ==
  /\ state' = to /\ name' = newName /\ path' = newPath
  /\ pos' = pos + 1 /\ UNCHANGED line

Reads(from) == state = from /\ ~ AtEnd
Stays == Goes(state, name, path)
Stops == Goes("error", name, path)
Taken == Append(path, name)

-----------------------------------------------------------------------------
\* processSection()
SectInitial ==
  /\ Reads("SECT_INITIAL")
  /\ IF NextChar = Blank THEN Stays ELSE Goes("SECT_BEFORE_NAME", <<>>, path)
  /\ UNCHANGED <<sectLevel, sectArg, paramValue, adding>>

SectBeforeName ==
  /\ Reads("SECT_BEFORE_NAME")
  /\ CASE NextChar = Blank -> Stays
       [] validIdentChar(NextChar) -> Goes("SECT_NAME", <<NextChar>>, path)
       [] OTHER -> Stops
  /\ UNCHANGED <<sectLevel, sectArg, paramValue, adding>>

SectName ==
  /\ Reads("SECT_NAME")
  /\ CASE validIdentChar(NextChar) -> Goes(state, Append(name, NextChar), path)
       [] NextChar = Blank -> Goes("SECT_AFTER_NAME", <<>>, Taken)
       [] NextChar = "." -> Goes("SECT_BEFORE_NAME", <<>>, Taken)
       [] NextChar = "]" -> Goes("section", <<>>, Taken)
       [] OTHER -> Stops
  /\ UNCHANGED <<sectLevel, sectArg, paramValue, adding>>

SectAfterName ==
  /\ Reads("SECT_AFTER_NAME")
  /\ CASE NextChar = Blank -> Stays
       [] NextChar = "]" -> Goes("section", name, path)
       [] NextChar = "." -> Goes("SECT_BEFORE_NAME", name, path)
       [] NextChar = "\"" -> Goes("SECT_ARG", name, path)
       [] OTHER -> Stops
  /\ sectArg' = IF NextChar = "\"" THEN <<>> ELSE sectArg
  /\ UNCHANGED <<sectLevel, paramValue, adding>>

\* A backslash takes the next symbol as it is.
SectArg ==
  /\ Reads("SECT_ARG")
  /\ IF NextChar = "\\"
     THEN IF pos + 1 = Len(line) THEN Stops /\ UNCHANGED sectArg
          ELSE /\ pos' = pos + 2 /\ sectArg' = Append(sectArg, line[pos + 2])
               /\ UNCHANGED <<line, name, state, path>>
     ELSE IF NextChar = "\"" THEN Goes("SECT_AFTER_ARG", name, path) /\ UNCHANGED sectArg
     ELSE Stays /\ sectArg' = Append(sectArg, NextChar)
  /\ UNCHANGED <<sectLevel, paramValue, adding>>

SectAfterArg ==
  /\ Reads("SECT_AFTER_ARG")
  /\ CASE NextChar = Blank -> Stays
       [] NextChar = "]" -> Goes("section", name, path)
       [] OTHER -> Stops
  /\ UNCHANGED <<sectLevel, sectArg, paramValue, adding>>

\* The end of processLine() for a section, which must not have an argument
\* and several names.
EndSection ==
  /\ state = "section"
  /\ state' = IF sectArg # <<>> /\ Len(path) > 1 THEN "error" ELSE "between"
  /\ sectLevel' = Len(path)
  /\ UNCHANGED <<lineVars, path, sectArg, paramValue, adding>>

-----------------------------------------------------------------------------
\* processValue()
ParamInitial ==
  /\ Reads("PARAM_INITIAL")
  /\ CASE NextChar = Blank -> Stays
       [] NextChar = "#" -> Goes("parameter", name, path)
       [] validIdentChar(NextChar) -> Goes("PARAM_NAME", <<NextChar>>, path)
       [] OTHER -> Stops
  /\ UNCHANGED <<sectLevel, sectArg, paramValue, adding>>

\* The branch for "+" is never taken, as "+" is a part of the name.
ParamName ==
  /\ Reads("PARAM_NAME")
  /\ CASE validIdentChar(NextChar) -> Goes(state, Append(name, NextChar), path)
       [] NextChar = Blank -> Goes("PARAM_AFTER_NAME", <<>>, Taken)
       [] NextChar = "=" -> Goes("PARAM_VALUE", <<>>, Taken)
       [] NextChar = "." -> Goes("PARAM_NEXT_NAME", <<>>, Taken)
       [] OTHER -> Stops
  /\ adding' = IF NextChar = "=" THEN FALSE ELSE adding
  /\ UNCHANGED <<sectLevel, sectArg, paramValue>>

ParamNextName ==
  /\ Reads("PARAM_NEXT_NAME")
  /\ CASE NextChar = Blank -> Stays
       [] validIdentChar(NextChar) -> Goes("PARAM_NAME", <<NextChar>>, path)
       [] OTHER -> Stops
  /\ UNCHANGED <<sectLevel, sectArg, paramValue, adding>>

\* Mutant of ParamAfterName: the mode of the line before stays.
ParamAfterName_KeepsMode ==
  /\ Reads("PARAM_AFTER_NAME")
  /\ CASE NextChar = Blank -> Stays /\ UNCHANGED adding
       [] NextChar = "." -> Goes("PARAM_NEXT_NAME", name, path) /\ UNCHANGED adding
       [] NextChar = "=" -> Goes("PARAM_VALUE", name, path) /\ UNCHANGED adding
       [] NextChar = "+" /\ pos + 2 <= Len(line) /\ line[pos + 2] = "=" ->
            /\ state' = "PARAM_VALUE" /\ adding' = TRUE
            /\ pos' = pos + 2 /\ UNCHANGED <<line, name, path>>
       [] OTHER -> Stops /\ UNCHANGED adding
  /\ UNCHANGED <<sectLevel, sectArg, paramValue>>

ParamAfterName ==
  /\ Reads("PARAM_AFTER_NAME")
  /\ CASE NextChar = Blank -> Stays /\ UNCHANGED adding
       [] NextChar = "." -> Goes("PARAM_NEXT_NAME", name, path) /\ UNCHANGED adding
       [] NextChar = "=" -> Goes("PARAM_VALUE", name, path) /\ adding' = FALSE
       [] NextChar = "+" /\ pos + 2 <= Len(line) /\ line[pos + 2] = "=" ->
            /\ state' = "PARAM_VALUE" /\ adding' = TRUE
            /\ pos' = pos + 2 /\ UNCHANGED <<line, name, path>>
       [] OTHER -> Stops /\ UNCHANGED adding
  /\ UNCHANGED <<sectLevel, sectArg, paramValue>>

ParamValue ==
  /\ Reads("PARAM_VALUE")
  /\ IF NextChar = "#" THEN Goes("parameter", name, path) /\ UNCHANGED paramValue
     ELSE IF NextChar # "\\" THEN Stays /\ paramValue' = Append(paramValue, NextChar)
     ELSE IF pos + 1 = Len(line) THEN Stops /\ UNCHANGED paramValue
     ELSE /\ pos' = pos + 2 /\ paramValue' = Append(paramValue, line[pos + 2])
          /\ UNCHANGED <<line, name, state, path>>
  /\ UNCHANGED <<sectLevel, sectArg, adding>>

\* The line ends: stopSection() and stopParam(), unless in a value.
EndOfLine ==
  /\ AtEnd /\ state \notin {"between", "section", "parameter", "error", "refused"}
  /\ state' = IF state = "PARAM_VALUE" THEN "parameter" ELSE "error"
  /\ UNCHANGED <<lineVars, parsedVars>>

\* The end of processLine() for a value: the path is cut back to that of the
\* section.  `handled' is FALSE if the handler throws.
HasParameter == Len(path) > sectLevel
EndParameter(handled) ==
  /\ state = "parameter"
  /\ state' = IF handled THEN "between" ELSE "refused"
  /\ path' = SubSeq(path, 1, sectLevel)
  /\ UNCHANGED <<lineVars, sectLevel, sectArg, paramValue, adding>>

ReadSymbol ==
  \/ SectInitial \/ SectBeforeName \/ SectName \/ SectAfterName \/ SectArg \/ SectAfterArg
  \/ EndSection
  \/ ParamInitial \/ ParamName \/ ParamNextName \/ ParamAfterName \/ ParamValue
  \/ EndOfLine

-----------------------------------------------------------------------------
\* What a line means, without the states of the parser.

\* The text up to a symbol c that no backslash protects, and how many symbols
\* that are; a last backslash protects nothing.
RECURSIVE Text(_, _)
Text(l, c) ==
  CASE l = <<>> -> [text |-> <<>>, size |-> 0, whole |-> TRUE]
    [] l = <<"\\">> -> [text |-> <<>>, size |-> 0, whole |-> FALSE]
    [] l # <<>> /\ l[1] = c -> [text |-> <<>>, size |-> 0, whole |-> TRUE]
    [] OTHER ->
       LET taken == IF l[1] = "\\" THEN 2 ELSE 1
           more == Text(SubSeq(l, taken + 1, Len(l)), c)
       IN [more EXCEPT !.text = <<l[taken]>> \o @, !.size = @ + taken]

NamesIn(part) == LET parts == Parts(part, ".") IN [i \in DOMAIN parts |-> Trim(parts[i])]
AreNames(names) ==
  \A i \in DOMAIN names : names[i] # <<>> /\ \A j \in DOMAIN names[i] : validIdentChar(names[i][j])

Wrong == [kind |-> "wrong"]

ParameterIn(l) ==
  LET eq == FirstOf(l, "=")
      before == Trim(SubSeq(l, 1, eq - 2))
      adds == /\ eq > 2 /\ eq <= Len(l) /\ l[eq - 1] = "+" /\ l[eq - 2] = Blank
              /\ before # <<>> /\ before[Len(before)] # "."
      names == NamesIn(IF adds THEN before ELSE SubSeq(l, 1, eq - 1))
      value == Text(SubSeq(l, eq + 1, Len(l)), "#")
  IN IF eq <= Len(l) /\ AreNames(names) /\ value.whole
     THEN [kind |-> "parameter", names |-> names, adding |-> adds, value |-> value.text]
     ELSE Wrong

SectionIn(l) ==
  LET open == FirstOf(l, "[")
      quote == FirstOf(l, "\"")
      close == FirstOf(l, "]")
      end == IF quote < close THEN quote ELSE close
      names == NamesIn(SubSeq(l, open + 1, end - 1))
      arg == Text(SubSeq(l, quote + 1, Len(l)), "\"")
      rest == Trim(SubSeq(l, quote + arg.size + 2, Len(l)))
  IN CASE ~ AreNames(names) \/ end > Len(l) -> Wrong
       [] end = close -> [kind |-> "section", names |-> names, arg |-> <<>>]
       [] /\ end = quote /\ l[quote - 1] = Blank /\ arg.whole
          /\ quote + arg.size < Len(l) /\ rest # <<>> /\ rest[1] = "]"
          /\ arg.text = <<>> \/ Len(names) = 1 ->
            [kind |-> "section", names |-> names, arg |-> arg.text]
       [] OTHER -> Wrong

Meaning(l) ==
  IF FirstChar(l) = "[" THEN SectionIn(l)
  ELSE IF FirstChar(l) = "#" THEN [kind |-> "comment"] ELSE ParameterIn(l)

\* The parser takes from a line what is written in it: the names behind those
\* of the section, the argument, the mode and the value of this line and of
\* no other, and stops at a line that has no meaning.
LinesAreReadAsWritten ==
  /\ state = "parameter" =>
       IF HasParameter
       THEN Meaning(line) = [kind |-> "parameter", names |-> SubSeq(path, sectLevel + 1, Len(path)),
                             adding |-> adding, value |-> paramValue]
       ELSE Meaning(line).kind = "comment"
  /\ state = "section" /\ (sectArg = <<>> \/ Len(path) = 1) =>
       Meaning(line) = [kind |-> "section", names |-> path, arg |-> sectArg]
  /\ state = "error" => Meaning(line) = Wrong
=============================================================================
