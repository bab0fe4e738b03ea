CONSTANTS
  Players = {Ada, Bob}
  NoPlayer = NoPlayer
  MAX_PLAYERS = 2
  RoundCounts = {1}
  TIME_LIMIT = 4
  TIMEOUT_SLACK = 1
  STOP_SUBMIT_SECONDS = 1
  STOP_SUBMIT_GRACE_SECONDS = 1
  RESULTS_PHASE_SECONDS = 3
  MaxGames = 1
SYMMETRY PlayerSymmetry
SPECIFICATION Spec
INVARIANT AllReadyMeansStarted
