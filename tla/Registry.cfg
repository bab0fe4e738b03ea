CONSTANTS
  Names = {Ada, Bob}
  MAX_ROUNDS = 2
  Backends = {"sqlite", "redis"}
  MaxDeletes = 1
  MaxWrites = 1
SYMMETRY NameSymmetry
SPECIFICATION Spec
INVARIANTS TypeOK RowsAreAccountedFor 
