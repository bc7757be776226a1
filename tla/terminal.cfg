SPECIFICATION Spec
CONSTANTS
  Client = {c1}
  b1 = b1
  b2 = b2
  b3 = b3
  b4 = b4
  Block = {b1, b2}
  kSolve = kSolve
  kPitfall = kPitfall
  kPrimer = kPrimer
  Key = {kSolve, kPitfall, kPrimer}
  PitfallKey = {kPitfall}
  PrimerKey = {kPrimer}
  KeyOf <- SolveOnly
  Trace = {t1}
  RefId = {r1, r2}
  NoBlock = NoBlock
  NoTrace = NoTrace
  Ops = {"pattern", "retire", "promote"}
  Killable = {}
  OneProcess = TRUE
PROPERTIES
  TerminalStatuses
