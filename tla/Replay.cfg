SPECIFICATION Spec
CONSTANTS
  Message <- MCMessage
  MaxMessages = 4
  Dialogue <- MCDialogue
  MaxChars = 4
  Longest <- MCLongest
  LongRow = 4
  LongTurns = 6
  Sizes <- MCSizes
  Setting <- MCSetting
  AddBatch = 2
  Rotation = 2
  MaxOps = 5
  SearchEvery = 2
  Typing = TRUE
  Answering = TRUE
INVARIANTS
  Replayed
  TasksSound
  ContentKept
  CorpusTrue
  QueriesSound
