SPECIFICATION StartupSpec
CONSTANTS
  KeysOf <- MCKeysOf
  Ident <- MCIdent
  InfoWords <- MCInfoWords
  Starts <- DashesStarts
INVARIANT
  FilesAreBehindDashes
CHECK_DEADLOCK FALSE
