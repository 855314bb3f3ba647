------------------------------ MODULE Startup ------------------------------
(***************************************************************************)
(* How the programs begin: the command line, then the configuration files; *)
(* or, if the program is ds-patch, the info file of the index that ds-repo *)
(* has built.                                                              *)
(***************************************************************************)
EXTENDS CliParser, ConfigCenter, InfoFile

CONSTANT Starts   \* the program, the words typed, and the files there are

startupVars == <<cliVars, configVars, infoVars>>

StartupInit ==
  \E s \in Starts :
    CliInit(s.program, s.words) /\ ConfigInit(s.files) /\ InfoInit(s.index, s.place)

Saying(what) == {i \in DOMAIN understood : understood[i].what = what}

\* isKeyUsed().
Pressed(key) == \E i \in Saying("key") : understood[i].words[1] = key

\* parseCmdLine() of the programs: --help ends them.
WantsHelp == Pressed("--help")

\* That of ds-patch: one directory at most, and something to do.
HasTask ==
  /\ \A i, j \in Saying("file") : i = j
  /\ \E key \in ListKeys : Saying(key) # {}

\* doMainWork(), main(): files are read when the command line is right.
StartupNext ==
  \/ BuildInfo /\ UNCHANGED <<cliVars, configVars>>
  \/ infoState # "typed" /\ CliNext /\ UNCHANGED <<configVars, infoVars>>
  \/ /\ cliStage = "parsed" /\ program # "patch" /\ ~ WantsHelp
     /\ ConfigNext /\ UNCHANGED <<cliVars, infoVars>>
  \/ /\ cliStage = "parsed" /\ program = "patch" /\ ~ WantsHelp /\ HasTask
     /\ ReadInfo /\ UNCHANGED <<cliVars, configVars>>

StartupSpec == StartupInit /\ [][StartupNext]_startupVars
=============================================================================
