CONSTANTS
  STOP_SUBMIT_SECONDS = 4
  STOP_SUBMIT_GRACE_SECONDS = 3
  RESULTS_PHASE_SECONDS = 8
  Reveal = 3
  Retry = 1
  Lag = 1
  MaxRounds = 2
  MaxLosses = 3
SPECIFICATION Spec
INVARIANTS TypeOK HandsInInTime LockedMeansHeld OldWordsOnlyByStop
 
