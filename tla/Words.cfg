\* Six lists, three of them seeded in two batches, then games of three players,
\* appeals, and the queue.
CONSTANTS
  Players = {Ada, Bob, Cid}
  MAX_ROUNDS = 2
  Categories <- MCCategories
  VetoCategory = "Rzecz"
  FaunaFlora = {"Zwierze"}
  Empty = ""
  WrongLetter = {"pies"}
  TooShort = {"k"}
  Dictionary = {"kot", "pies"}
  Forms <- MCForms
  MaxForms = 3
  MaxLeaves = 1
  Words = {"kkk"}
  Reporters = {r1, r2}
  Deciders = {d1, d2}
  BatchLimit = 1
  MaxRows = 2
  Vocabulary <- MCVocabulary
  Slash = "/"
  PlFold <- MCPlFold
  DeFold <- MCDeFold
  Tiny <- MCTiny
  Short <- MCShort
  Long <- MCLong
  CityAliases <- MCCityAliases
  CountryAliases <- MCCountryAliases
  MIASTA_NORM_BLOCKLIST <- Blocked
  ZWIERZETA_EXTRA <- ExtraAnimals
  ROSLINY_EXTRA <- ExtraPlants
  JOB_ALIAS_PREFIX_SKIP <- SkippedHeads
  JOB_STANDALONE_OR_PREFIX <- Stems
  Seed <- MCSeed
  Order <- MCOrder
SYMMETRY Symmetry
SPECIFICATION WordSpec
INVARIANTS TypeOK RejectedCountsAsMissing ZeroIsExplained  CursorSkipsNothing DecisionStands QueuedOnce WholeUnlessInterrupted
PROPERTIES ReviewOnlyAddsElsewhere ListedIsAccepted AcceptedIsListed
CHECK_DEADLOCK FALSE
