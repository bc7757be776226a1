SPECIFICATION Spec
CONSTANTS
  Client = {c1, c2}
  b1 = b1
  b2 = b2
  b3 = b3
  b4 = b4
  Block = {b1, b2}
  kSolve = kSolve
  kPitfall = kPitfall
  kPrimer = kPrimer
  Key = {kSolve, kPitfall, kPrimer}
  PitfallKey = {kPitfall}
  PrimerKey = {kPrimer}
  KeyOf <- SolveOnly
  Trace = {t1, t2}
  RefId = {r1, r2, r3, r4}
  NoBlock = NoBlock
  NoTrace = NoTrace
  Ops <- Operations
  Killable = {}
  OneProcess = TRUE
SYMMETRY Interchangeable
INVARIANTS
  TypeOK
  ActiveJustified
  OneBlockPerTrigger
PROPERTY ImplementsCatalog
