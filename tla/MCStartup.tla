----------------------------- MODULE MCStartup -----------------------------
(***************************************************************************)
(* All command lines of some words, all short lines of a configuration     *)
(* file, and files with two repositories and a provide that are written in *)
(* pieces.                                                                 *)
(***************************************************************************)
EXTENDS Startup

UpTo(S, n) == UNION {[1 .. k -> S] : k \in 0 .. n}

MCKeysOf ==
  [default |-> [w \in {"--help", "--out"} |-> w = "--out"],
   install |-> [w \in {"--help", "--log", "--urls", "--dry-run", "--files", "--sat"} |-> FALSE],
   patch |-> [w \in {"--log", "--out"} |-> w = "--out"]]

NoIndex == [compression |-> "gzip", clBinary |-> FALSE, clSources |-> FALSE, user |-> <<>>, refs |-> FALSE,
            dirs |-> <<>>, lines |-> <<>>]

CommandLines ==
  [program : {"default"}, words : UpTo({"--help", "--out", "--", "a", ""}, 4), files : {<<>>}, index : {NoIndex}, place : {"absent"}]
  \union [program : {"install"}, words : UpTo({"--help", "--log", "--", "a", "=", "", " "}, 4), files : {<<>>}, index : {NoIndex}, place : {"absent"}]
  \union [program : {"patch"}, words : UpTo({"--log", "--out", "--", "--add", "--del-list", "a", ""}, 4),
          files : {<<>>}, index : {NoIndex}, place : {"absent"}]

MCIdent == {"core", "dir", "pkg-data", "pkg-cache", "os", "transact-read-ahead", "repo", "url",
            "arch", "components", "enabled", "take-descr", "provide", "providers", "a", "b", "no"}

OddLines == UpTo({"a", " ", ".", "=", "+", "#", "\\", "\"", "["}, 5)
            \union {<<"[", "a">> \o l : l \in UpTo({" ", ".", "a", "\"", "\\", "]"}, 5)}

Section(kind, arg) == <<"[", kind, " ", "\"", arg, "\"", "]">>
Core == <<"[", "core", "]">>

\* Lines that are understood in a section of a repository, and some that are
\* not.
RepoLines ==
  {<<"url", " ", "=", " ", "ftp://", "b">>, <<"url", "=", "b">>, <<"url", " ", "+", "=", "b">>,
   <<"arch", "=", "b", ";", "a", " ">>, <<"arch", " ", "+", "=", "b", ";", " ">>, <<"arch", "=", "b", ";">>,
   <<"enabled", "=", " ", "no">>, <<"enabled", " ", "+", "=", "no">>, <<"url", "=">>,
   <<"take-descr", "=", "b">>, <<"#", "url">>, <<"providers", "=", "b">>, <<" ">>,
   Section("repo", "a"), Section("repo", "b"), Section("provide", "a"), Section("repo", " ")}

CoreLines ==
  {<<"dir", ".", "pkg-data", "=", " ", "b", " ", "#">>, <<"dir", ".", "pkg-cache", " ", "=", " ", "b">>,
   <<"os", ".", "transact-read-ahead", "=", "a", ";", "b">>, <<"dir", ".", "pkg-data", "+", "=", "b">>,
   <<"dir", " ", ".", " ", "pkg-data", " ", "+", "=", "\\", "#", "b">>, <<"dir", ".", "pkg-data", "=", " ">>,
   <<"pkg-data", "=", "b">>}

WholeRepo(arg) ==
  <<Section("repo", arg), <<"url", "=", "ftp://", arg>>, <<"arch", "=", arg>>, <<"components", "=", arg>>>>

Optional(S) == {<<>>} \union {<<l>> : l \in S}

Contents ==
  {<<<<l>>>> : l \in OddLines}
  \union {<<<<Core>> \o x \o y>> : x \in Optional(CoreLines), y \in Optional(CoreLines)}
  \union {<<WholeRepo("a") \o x \o WholeRepo("b") \o y>> : x, y \in Optional(RepoLines)}
  \union {<<WholeRepo("a"), <<Section("provide", "b")>> \o x \o <<Section("repo", "a")>> \o y>> :
            x, y \in Optional(RepoLines)}
  \union {<<WholeRepo("a") \o WholeRepo("b") \o <<Section("repo", "a")>> \o x, <<Section("repo", "b")>> \o y>> :
            x, y \in Optional(RepoLines)}

\* What ds-repo is given: lists, regular expressions, user parameters.
Indices ==
  {[NoIndex EXCEPT !.dirs = d] : d \in UpTo({"a", "\"", ":", "#", "\\", " "}, 4)}
  \union {[NoIndex EXCEPT !.lines = <<l>> \o m, !.clBinary = TRUE] :
            l \in UpTo({"a", "\"", ":", "#", "\\", " "}, 2), m \in {<<>>, <<<<"a", "\"">>>>}}
  \union [compression : {"none", "gzip", "other"}, clBinary : {FALSE}, clSources : BOOLEAN, refs : BOOLEAN,
          dirs : {<<"a">>}, lines : {<<>>},
          user : {<<"u", "=", "a">>, <<"u", "=", "#", " ", "a", " ">>, <<"u", "-", "=", "a", ":", "b", "=", "\\">>,
                  <<"=", "a">>, <<"u", ".", "=", "a">>, <<"version", "=", "a">>, <<"u", "a">>, <<"u", "#", "=">>,
                  <<"u", "=", "a", ":", "u", "=", "b", ":", "b", "=">>, <<"u", "=", "a", "=", "\"">>}]

MCInfoWords ==
  {"a", "b", "u", "format_type", "compression_type", "version", "md5sum_file", "filter_provides_by_dirs",
   "filter_provides_by_refs", "exclude_requires", "changelog_sources", "changelog_binary"}

MCStarts ==
  CommandLines
  \union [program : {"install"}, words : {<<"a">>}, files : Contents, index : {NoIndex}, place : {"absent"}]
  \union [program : {"patch"}, words : {<<"--add", "a">>}, files : {<<>>}, index : Indices, place : {"typed"}]

-----------------------------------------------------------------------------
\* Names that are behind "--", and may be "--".
DashesStarts ==
  [program : {"default"}, words : UpTo({"--", "a"}, 3), files : {<<>>}, index : {NoIndex}, place : {"absent"}]

\* A regular expression of --exclude-requires with a dot that is meant.
ParamsStarts ==
  [program : {"patch"}, words : {<<"--add", "a">>}, files : {<<>>}, place : {"typed"},
   index : {[NoIndex EXCEPT !.lines = <<l>>] : l \in UpTo({"a", "\\", "."}, 3)}]
=============================================================================
