SPECIFICATION StartupSpec
CONSTANTS
  KeysOf <- MCKeysOf
  Ident <- MCIdent
  InfoWords <- MCInfoWords
  Starts <- ParamsStarts
INVARIANT
  ParametersAreLoaded
CHECK_DEADLOCK FALSE
