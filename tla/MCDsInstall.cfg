SPECIFICATION DsInstallSpec
CONSTANTS
  KeysOf <- MCKeysOf
  Ident <- MCIdent
  InfoWords <- MCInfoWords
  Starts <- MCDsStarts
  Tasks <- MCTasks
  Absent = Absent
  Blocks = 2
  Pkgs <- MCPkgs
  Name <- MCName
  Ver <- MCVer
  Base <- MCBase
  Systems <- MCSystems
  UrlFiles <- MCUrlFiles
INVARIANTS
  CommandLineIsUnderstood
  LinesAreReadAsWritten
  ConfigIsAsWritten
  ParametersComeBack
  PairingLosesNothing
  AnswerIsCarriedOut
  FilesMatchAnswer
PROPERTIES
  ChangesComeLast
  ProgressGrows
CHECK_DEADLOCK FALSE
