CONSTANTS
  Names = {Ada, Bob}
  NoName = NoName
  Sockets = {s1, s2, s3}
  NoSocket = NoSocket
  MAX_PLAYERS = 2
SYMMETRY NamesAndSockets
SPECIFICATION Spec
INVARIANTS TypeOK AbsentHostIsWatched
PROPERTIES NewSocketStays ImplementsRoster
CHECK_DEADLOCK FALSE
