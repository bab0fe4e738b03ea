CONSTANTS
  Players = {Ada, Bob}
  NoPlayer = NoPlayer
  MAX_PLAYERS = 2
  RoundCounts = {2}
  TIME_LIMIT = 2
  TIMEOUT_SLACK = 1
  STOP_SUBMIT_SECONDS = 1
  STOP_SUBMIT_GRACE_SECONDS = 1
  RESULTS_PHASE_SECONDS = 3
  MaxGames = 1
SPECIFICATION FairSpec
PROPERTIES  ReviewsEnd
