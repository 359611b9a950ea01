SPECIFICATION ValuesSpec
CONSTANTS
  TraceCapacity = 4
  LowByte = {0, 1, 255}
  TopByte = {0, 1, 63, 64, 65, 127, 128, 191, 192, 193, 255}
  Units <- MCUnits
  Lengths = {0, 31, 32, 64, 65}
  Bitmaps = {0, 1, 2, 3, 4, 5, 6, 7, 8, 9, 128, 255}
  Numbers = {0, 1, 126, 127, 999999, 1000000}
  DescriptorUuids <- MCDescriptorUuids
  Permissions <- MCPermissions
  Operations <- MCOperations
  SsidBytes <- MCSsidBytes
  PassphraseBytes <- MCPassphraseBytes
  Codes = {0, 999999}
  TraceEntries <- MCTraceEntries
  Revisions <- MCRevisions
  MaxParts = 2
  MaxPushed = 6
INVARIANTS
  RequestsAreValid
  DatabasesKeepContract
  DiagnosticsAreLossless
