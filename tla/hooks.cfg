SPECIFICATION HooksSpec
CONSTANTS
  Hook = {p1, p2}
  Session = {s1, s2}
  grep1 = grep1
  grep2 = grep2
  edit = edit
  Call = {grep1, grep2, edit}
  FamilyOf <- Families
  IntentOf <- Intents
  LineSize <- Sizes
  Window = 6
  Ring = 3
  MaxDisk = 1
  MaxBatch = 2
  BlockAt = 1
  Strict = FALSE
  Mortal <- SomeDie
  Failing <- SomeFail
  MaxCalls = 5
  NoFile = NoFile
  t1 = t1
  t2 = t2
  print1 = print1
  print2 = print2
  Trace = {t1, t2}
  Fingerprint <- Prints12
  NoTrace = NoTrace
  MaxTraces = 1
  Keeper = {p1, p2}
  RecallId = {s1, s2}
  NoRecall = NoRecall
  Voter = {p1, p2}
  ReadLimit = 4
  MaxEvents = 4
  MaxRecalls = 2
SYMMETRY Interchangeable
CHECK_DEADLOCK FALSE
INVARIANTS
  HooksTypeOK
  CacheIsObserved
  IntentCountHonest
  CacheIsTail
  SavingsAreReal
  WritesQueued
  NoEmbeddingForgotten
  LimitAtRest
  LearnsOncePerRecall
