SPECIFICATION Spec
CONSTANTS
  Word = 65536
  Fixed64Size = 2
  Fixed32Size = 1
  LongestVarint = 4
  Alphabet = {0, 1, 2, 8, 9, 10, 11, 13, 128, 130}
  DataMax = 5
  Inputs <- MCInputs
  FieldNumbers = {1, 15, 16, 2049}
  Blobs <- MCBlobs
  BuiltMax = 2
  Numbers = {0, 200}
  Seqs = {200}
  Rows = 2
  ReportsMax = 2
INVARIANTS
  ParsesExactly
  WritesAreRead
  MirrorIsWhatWasTold
  AnswersReachTheirRequest
  ListingsAreRead
CHECK_DEADLOCK FALSE
