SPECIFICATION Spec
CONSTANTS
  W = 4
  NBM = 2
  LUA_NBITS = 4
  UBITS = 6
  L_RANDMAX = 1
  BitArgs <- MCBitArgs
  Utf8Args <- MCUtf8Args
  NB = 2
  SZINT = 2
  MaxCCalls = 20
  MaxRep = 100
  MaxCaptures = 3
  CloseParen = 3
  RanLimit = 4
  Imbalance = 1
  LUA_MAXINTEGER = 7
  MAXINDEXRK = 2
  LFIELDS_PER_FLUSH = 2
  TableSize = 5
  MaxByte = 7
  MAXSHORTLEN = 6
  LUA_SIGNATURE <- MCSignature
  LUAC_DATA <- MCData
  LUAC_INT = 10
  LUAC_NUM = 17
  Protos <- MCProtos
  Machines <- MCMachines
  ThisMachine <- MCMachine
  Sources <- MCSources
  NumberTexts <- MCNumerals
  Reserved <- MCReserved
  Locales = {".", ","}
  MAX_LINES = 4
  Randoms = {0, 3}
  Strings <- MCStrings
  Formats <- MCFormats
  PackArgs <- MCPackArgs
  Subjects <- MCSubjects
  Patterns <- MCPatterns
  Arrays <- MCArrays
  Orderings <- MCOrderings
  Statements <- MCStatements
  Envs <- MCEnvs
INVARIANTS NumbersAsManual ReadBack PatternsAsManual TablesAsManual CodeEvaluates LexesAsWritten
CHECK_DEADLOCK FALSE
