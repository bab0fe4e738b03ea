CONSTANTS
  Players = {Ada, Bob, Cyd}
  NoPlayer = NoPlayer
  MAX_PLAYERS = 3
  RoundCounts = {2}
  TIME_LIMIT = 4
  TIMEOUT_SLACK = 1
  STOP_SUBMIT_SECONDS = 1
  STOP_SUBMIT_GRACE_SECONDS = 1
  RESULTS_PHASE_SECONDS = 3
  MaxGames = 1
SYMMETRY PlayerSymmetry
SPECIFICATION Spec
PROPERTY NoLateJoin
