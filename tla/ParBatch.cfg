\* batches of up to four texts on up to three threads
CONSTANTS
  MaxTexts = 4
  Lengths = {0, 1, 3}
  Asked = {0, 2, 3, 9}
  MaxThreads = 3
  MinChunkBytes = 2
  Outcomes = {"ok", "error", "panic"}
SPECIFICATION Spec
CHECK_DEADLOCK FALSE
INVARIANTS
  TypeOK
  AnswersSerially
  NoPartialBatch
